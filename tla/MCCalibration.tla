--------------------------- MODULE MCCalibration ---------------------------
EXTENDS Calibration

F(section, element, conv, group, bit) ==
  [section |-> section, element |-> element, conv |-> conv, group |-> group, bit |-> bit]

\* Fields of every width; one element feeds two of them, and some have no element.
MCFields ==
  {F("SysParam", "frame_w", "u32", "common", 0), F("SysParam", "wdpi", "u32", "common", 7),
   F("SysParam", "nav_base", "u32", "mmi", 4), F("SysParam", "max_tune_time", "u8", "mmi", 5),
   F("op_registers", "tune_ag20", "u16", "gain_tune", 1), F("op_registers", "tune_ag20", "u16", "gain_ds", 1),
   F("pb", "far_high", "far", "threshold", 4), F("pb", "far_same", "far", "threshold", 5),
   F("test", "scut", "u8", "test", 3), F("SysParam", "nav_type", "navtype", "nav", 0)}

\* An optical device, with one document and nothing in it to allocate, and a plain one.
MCDevices == {[id |-> <<8, 1, 2>>, optic |-> TRUE], [id |-> <<6, 1, 2>>, optic |-> FALSE]}
MCTables == <<"init", "nav">>
MCParams == <<"navi", "base">>
MCRegisters == {"a", "b", "c", "d", "e", "f", "g", "h"}

Doc(versions, mask, sys, alg, nodes, params) ==
  [versions |-> versions, mask |-> mask,
   text |-> [SysParam |-> sys, op_registers |-> sys, pb |-> alg, test |-> alg],
   nodes |-> nodes, params |-> params]
Node(t, regs) == [table |-> t, regs |-> regs]
Nothing == [x \in {} |-> 0]
All == <<TRUE, TRUE, TRUE>>

\* A list given twice, an unknown one, an incomplete entry, values beyond their width.
Full ==
  Doc(<<<<7, 1, 2>>, <<6, 1, 2>>>>, All,
      [frame_w |-> 5, nav_base |-> 3, max_tune_time |-> 258, tune_ag20 |-> 4],
      [far_high |-> 51, far_same |-> 1, scut |-> 255],
      <<Node("init", <<"a", "bad", "b">>), Node("unknown", <<"c">>), Node("nav", <<"d">>), Node("init", <<"e">>)>>,
      [navi |-> [n |-> 3, values |-> <<1, 257, 3, 4>>], base |-> [n |-> 0, values |-> <<9>>]])

\* A mask of two parts, and a list of parameters too short for the kind of navigation.
Part ==
  Doc(<<<<6, 1, 2>>, <<6, 1>>>>, <<TRUE, TRUE>>, [wdpi |-> 8], Nothing,
      <<Node("nav", <<"bad">>), Node("init", <<"f", "g">>)>>,
      [navi |-> [n |-> 1, values |-> <<1>>], base |-> [n |-> 2, values |-> <<5, 6>>]])

\* A part that is left out after an entry that has it; another device; a mask
\* of one part; and the right device in the second directory.
Carry  == Doc(<<<<7, 7, 2>>, <<6, 1>>>>, All, [wdpi |-> 9], Nothing, <<>>, Nothing)
Other  == Doc(<<<<6>>, <<6, 1, 3>>>>, All, [wdpi |-> 10], Nothing, <<Node("init", <<"h">>)>>, Nothing)
Short  == Doc(<<<<6, 1, 2>>>>, <<TRUE>>, [wdpi |-> 11], Nothing, <<>>, Nothing)
Second == Doc(<<<<6, 1, 2>>>>, All, [wdpi |-> 12], Nothing, <<>>, Nothing)

Optical == Doc(<<<<8, 1>>>>, <<TRUE, TRUE>>, [wdpi |-> 13], Nothing, <<>>, Nothing)

\* Only the data of two steps come in two lengths.
MCLens == <<{"long", "edge"}, {"long"}, {"long"}, {"long", "short"}, {"long"}>>

MCDocuments == <<{Full, Part, Carry, Other, Short}, {Second, Optical}>>
=============================================================================
