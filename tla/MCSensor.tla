------------------------------ MODULE MCSensor ------------------------------
EXTENDS Sensor

\* Every way to wait, with and without a configuration that is learned.
MCFeatureSets ==
  {{}, {"reinit", "irqpwdn"}, {"reinit", "cal2"}, {"loop", "cal"}, {"cal", "cal2", "nofinger"}}
=============================================================================
