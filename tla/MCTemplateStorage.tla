-------------------------- MODULE MCTemplateStorage --------------------------
EXTENDS TemplateStorage

CONSTANTS g1, g2
=============================================================================
