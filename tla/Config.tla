------------------------------- MODULE Config -------------------------------
(***************************************************************************)
(* The configuration update: silead_xml.cpp reads it from the parameter    *)
(* files, silead_config.c of the HAL turns it into one buffer and          *)
(* silead_config.c of the TA takes the buffer over into its own tables     *)
(* (both files hold both halves; the HAL's is the newer one).              *)
(*                                                                         *)
(* A document is a pair of files, silead_param.xml and silead_config.xml:  *)
(*   versions, mask  the devices it is for, and which parts of an id count *)
(*   text            by section, the elements it has and their numbers     *)
(*   nodes           the register lists, in their order                    *)
(*   params          the lists of algorithm parameters: count and values   *)
(* A configuration (cf_set_t) is the values of its fields, its tables and  *)
(* its parameters.  A table is built in (no block) or on the heap.         *)
(***************************************************************************)
EXTENDS Naturals, Sequences, FiniteSets, Functions
LOCAL INSTANCE FiniteSetsExt

CONSTANTS
  Devices,   \* devices: [id, optic], the id with its chip, sub and virtual part
  Fields,    \* fields of a configuration: [section, element, conv, group, bit]
  Tables,    \* register tables, in the order of their index
  Params,    \* parameter lists, in the order of their index
  Registers, \* the complete entries of register lists
  NavTypeAt, \* the position of the kind of navigation in the list "navi"
  Documents  \* by directory, the documents found there

None == <<>>

\* Who allocated a block, for which table, and the node it was read from.
Block(by, table, node) == [by |-> by, table |-> table, node |-> node]
NoBlock == Block("nobody", "none", 0)
Default == [data |-> <<"builtin">>, block |-> NoBlock]

Parts == {"SysParam", "op_registers", "pb", "test"}

ASSUME ConfigOK ==
  /\ \A d \in Devices: Len(d.id) = 3 /\ d.optic \in BOOLEAN
  /\ \A f \in Fields: DOMAIN f = {"section", "element", "conv", "group", "bit"} /\ f.section \in Parts
  /\ \A f, g \in Fields: f.group = g.group /\ f.bit = g.bit => f = g
  /\ Tables \in Seq(STRING) /\ \A i, j \in DOMAIN Tables: Tables[i] = Tables[j] => i = j
  /\ Params \in Seq(STRING) /\ \A i, j \in DOMAIN Params: Params[i] = Params[j] => i = j
  /\ Range(Tables) \cap Range(Params) = {} /\ "navi" \in Range(Params)
  /\ NavTypeAt \in Nat \ {0}

\* What may stand in a document.
ASSUME DocumentsOK ==
  \A d \in DOMAIN Documents: \A doc \in Documents[d]:
    /\ DOMAIN doc = {"versions", "mask", "text", "nodes", "params"}
    /\ doc.versions \in Seq(Seq(Nat))
    /\ doc.nodes \in Seq([table : STRING, regs : Seq(Registers \cup {"bad"})])
    /\ \A p \in DOMAIN doc.params: doc.params[p].n \in Nat /\ doc.params[p].values \in Seq(Int)

VARIABLES
  device,  \* the device
  conf,    \* the TA's configuration
  source,  \* the document it was updated from, and what could not be allocated
  leaked   \* the blocks the HAL did not free

configVars == <<device, conf, source, leaked>>
-----------------------------------------------------------------------------
(***************************************************************************)
(* Is a document for this device                                           *)
(***************************************************************************)
\* The ids of the list as they are compared: id[3] is cleared once, so a part
\* that an entry leaves out is that of the last entry before that has it.
Ids(doc) ==
  [i \in DOMAIN doc.versions |-> [k \in 1..3 |->
     LET having == {j \in 1..i : k <= Len(doc.versions[j])} IN
     IF having = {} THEN 0 ELSE doc.versions[Max(having)][k]]]

Mask(doc) == [k \in 1..3 |-> k <= Len(doc.mask) /\ doc.mask[k]]

\* Fault: the virtual id is not compared.
CheckDevVer_Short(doc) ==
  /\ Len(doc.mask) >= 2
  /\ \E i \in DOMAIN doc.versions:
       /\ Len(doc.versions[i]) >= 2
       /\ \A k \in 1..2: Mask(doc)[k] => device.id[k] = Ids(doc)[i][k]

\* _xml_param_check_dev_ver
CheckDevVer(doc) ==
  /\ Len(doc.mask) >= 2
  /\ \E i \in DOMAIN doc.versions:
       /\ Len(doc.versions[i]) >= 2
       /\ \A k \in 1..3: Mask(doc)[k] => device.id[k] = Ids(doc)[i][k]

\* silfp_xml_get_sysparams: the first directory that has a document for this
\* device; within it readdir decides which is met first.
Matching(dir) == {doc \in Documents[dir] : CheckDevVer(doc)}
Found == UNION {Matching(d) : d \in {e \in DOMAIN Documents : \A b \in 1..e - 1: Matching(b) = {}}}
-----------------------------------------------------------------------------
(***************************************************************************)
(* Reading it                                                              *)
(***************************************************************************)
Present(doc, f) == f.element \in DOMAIN doc.text[f.section]

\* _xml_config_uint32_to_far: the index of the first step that is no less.
FarSteps == {m * 10^k : m \in {1, 2, 5}, k \in 0..8} \cup {10^9}
Far(v)   == Cardinality({s \in FarSteps : s < v})

\* The XML_UPD_VALUE macros: a field is set to the width it has.
Convert(conv, v) ==
  CASE conv = "u8"  -> v % 2^8
    [] conv = "u16" -> v % 2^16
    [] conv = "far" -> Far(v)
    [] conv = "u32" -> v

\* Fault: what a table held before is not freed.
Put_Leaks(cf, p) ==
  [cf EXCEPT !.table[p.table] = [data |-> p.data, block |-> p.block], !.heap = @ \cup {p.block}]

\* silfp_cfg_update and silfp_cfg_pb_param_update: a list, in its block.
Put(cf, p) ==
  [cf EXCEPT !.table[p.table] = [data |-> p.data, block |-> p.block],
             !.heap = (@ \ {cf.table[p.table].block}) \cup {p.block}]

\* One list after the other.  One that is empty, or for which malloc fails, is
\* passed over.
PutAll(cf, lists, fails) ==
  LET after[i \in 0..Len(lists)] ==
        IF i = 0 THEN cf
        ELSE IF lists[i].data = <<>> \/ lists[i].block \in fails THEN after[i - 1]
        ELSE Put(after[i - 1], lists[i])
  IN  after[Len(lists)]

\* _xml_get_param_algparam: at most n values, and only if there is one.
ReadParam(doc, p) ==
  IF p \in DOMAIN doc.params
    THEN SubSeq(doc.params[p].values, 1, Min({doc.params[p].n, Len(doc.params[p].values)}))
    ELSE <<>>

ParamLists(doc) ==
  [i \in 1..Len(Params) |->
     [table |-> Params[i], data |-> ReadParam(doc, Params[i]), block |-> Block("hal", Params[i], 0)]]

\* The value of a field, that of nav.type from the parameters.
HasValue(doc, cf, f) ==
  IF f.conv = "navtype" THEN cf.table["navi"].block # NoBlock /\ Len(cf.table["navi"].data) >= NavTypeAt
                        ELSE Present(doc, f)

Value(doc, cf, f) ==
  IF f.conv = "navtype" THEN cf.table["navi"].data[NavTypeAt] % 2^8
                        ELSE Convert(f.conv, doc.text[f.section][f.element])

\* The fields of one section; what was set is marked by its bit.
SetFields(doc, cf, section) ==
  LET set == {f \in Fields : f.section = section /\ HasValue(doc, cf, f)} IN
  [cf EXCEPT !.val  = [f \in Fields |-> IF f \in set THEN Value(doc, cf, f) ELSE @[f]],
             !.bits = @ \cup {<<f.group, f.bit>> : f \in set}]

\* _xml_param_get_sysparam, _xml_param_get_op_registers, and the two of silead_config.xml.
SysParam(doc, cf, fails) == SetFields(doc, PutAll(cf, ParamLists(doc), fails), "SysParam")
OpRegisters(doc, cf)     == SetFields(doc, cf, "op_registers")
PbConfig(doc, cf)        == SetFields(doc, cf, "pb")
TestConfig(doc, cf)      == SetFields(doc, cf, "test")

\* The complete entries of a register list.
Entries(node) ==
  LET upto[i \in 0..Len(node.regs)] ==
        IF i = 0 THEN <<>>
        ELSE IF node.regs[i] = "bad" THEN upto[i - 1] ELSE Append(upto[i - 1], node.regs[i])
  IN  upto[Len(node.regs)]

\* _xml_param_get_registers: a list that nobody knows is passed over.
RegisterLists(doc) ==
  [i \in 1..Len(doc.nodes) |->
     LET node == doc.nodes[i] IN
     [table |-> node.table,
      data  |-> IF node.table \in Range(Tables) THEN Entries(node) ELSE <<>>,
      block |-> Block("hal", node.table, i)]]

\* silfp_cfg_malloc
Blank(default) ==
  [val   |-> [f \in Fields |-> 0],
   bits  |-> {},
   table |-> [t \in Range(Tables) \cup Range(Params) |-> default],
   heap  |-> {}]

\* _xml_param_get_from_xml
ReadParamFile(doc, fails) ==
  OpRegisters(doc, PutAll(SysParam(doc, Blank([data |-> <<>>, block |-> NoBlock]), fails),
                          RegisterLists(doc), fails))

\* _xml_config_get_from_xml after it
Read(doc, fails) == TestConfig(doc, PbConfig(doc, ReadParamFile(doc, fails)))
-----------------------------------------------------------------------------
(***************************************************************************)
(* The buffer                                                              *)
(***************************************************************************)
Order == Tables \o Params

\* What is sent of a table: nothing if it was not updated.
Sent(cf, t) == IF cf.table[t].block = NoBlock THEN <<>> ELSE cf.table[t].data

\* The tables one behind the other.
Content(cf) ==
  LET upto[i \in 0..Len(Order)] == IF i = 0 THEN <<>> ELSE upto[i - 1] \o Sent(cf, Order[i])
  IN  upto[Len(Order)]

\* silfp_cfg_get_update_length and silfp_cfg_get_update_buffer: the head with
\* the fields and the lengths, then the tables that are updated.
Encode(cf) ==
  [id      |-> device.id, val |-> cf.val, bits |-> cf.bits,
   len     |-> [t \in Range(Order) |-> Len(Sent(cf, t))],
   content |-> Content(cf)]

\* Where each table of the content ends, by the lengths in the head.
Offset(upd) ==
  LET at[i \in 0..Len(Order)] == IF i = 0 THEN 0 ELSE at[i - 1] + upd.len[Order[i]]
  IN  at

Length(upd) == Offset(upd)[Len(Order)]

SentLists(upd) ==
  [i \in 1..Len(Order) |->
     [table |-> Order[i],
      data  |-> SubSeq(upd.content, Offset(upd)[i - 1] + 1, Offset(upd)[i]),
      block |-> Block("ta", Order[i], 0)]]

\* Fault: a field is looked for under the bit of the one before it.
Taken_Shifted(upd, f) == <<f.group, f.bit - 1>> \in upd.bits

Taken(upd, f) == <<f.group, f.bit>> \in upd.bits

\* The fields whose bits are set.
TakeFields(upd, cf) == [cf EXCEPT !.val = [f \in Fields |-> IF Taken(upd, f) THEN upd.val[f] ELSE @[f]]]

\* silfp_cfg_update_config of the TA.  Nothing is taken for another device or at
\* another length.
Decode(upd, cf, fails) ==
  IF upd.id # device.id \/ Length(upd) # Len(upd.content) THEN cf
  ELSE PutAll(TakeFields(upd, cf), SentLists(upd), fails)

\* silfp_cfg_free: what is left of a configuration's blocks.
Released(cf) == cf.heap \ {cf.table[t].block : t \in DOMAIN cf.table}
-----------------------------------------------------------------------------
(***************************************************************************)
(* At the start of the TA                                                  *)
(***************************************************************************)
\* What may fail to be allocated, at most once on each side.
Failures(lists)  == {{}} \cup {{p.block} : p \in {q \in Range(lists) : q.data # <<>>}}
HalFailures(doc) == Failures(ParamLists(doc) \o RegisterLists(doc))

Unused     == [doc |-> None, fails |-> {}]
ConfigInit == device \in Devices /\ conf = Blank(Default) /\ source = Unused /\ leaked = {}

\* A TA that starts has its built-in configuration.  _fp_update_cfg, if the TA
\* asks for it: any of its allocations may fail, or the TA may not take it.
\* Its result is ignored.
FpUpdateCfg ==
  /\ \/ /\ conf' = Blank(Default) /\ source' = Unused
        /\ UNCHANGED leaked
     \/ \E doc \in Found: \E hal \in HalFailures(doc):
          LET upd == Encode(Read(doc, hal)) IN
          \E ta \in Failures(SentLists(upd)):
            /\ conf'   = Decode(upd, Blank(Default), ta)
            /\ source' = [doc |-> doc, fails |-> hal \cup ta]
            /\ leaked' = leaked \cup Released(Read(doc, hal))
  /\ UNCHANGED device
-----------------------------------------------------------------------------
(***************************************************************************)
(* Properties                                                              *)
(***************************************************************************)
\* What the document says of a parameter list, a register list (the last one
\* counts) and a field, when the HAL could not allocate the blocks "fails".
NamedParam(doc, fails, p) == IF Block("hal", p, 0) \in fails THEN <<>> ELSE ReadParam(doc, p)
NamedNodes(doc, fails, t) ==
  {i \in 1..Len(doc.nodes) :
     doc.nodes[i].table = t /\ Entries(doc.nodes[i]) # <<>> /\ Block("hal", t, i) \notin fails}
NamedList(doc, fails, t) ==
  IF t \in Range(Params) THEN NamedParam(doc, fails, t)
  ELSE LET nodes == NamedNodes(doc, fails, t) IN IF nodes = {} THEN <<>> ELSE Entries(doc.nodes[Max(nodes)])
NamedValue(doc, fails, f) ==
  LET navi == NamedParam(doc, fails, "navi") IN
  IF f.conv = "navtype" THEN IF Len(navi) >= NavTypeAt THEN navi[NavTypeAt] % 2^8 ELSE 0
  ELSE IF Present(doc, f) THEN Convert(f.conv, doc.text[f.section][f.element]) ELSE 0

\* The TA's configuration is its built-in one, with each field and list that
\* the document names replaced by what the document says, and with nothing
\* else changed: what one file wrote and the other side reads back agree, also
\* after an allocation failed (silead_xml.cpp:415-907, silead_config.c:303-665).
TakesDocument ==
  IF source.doc = None THEN conf = Blank(Default)
  ELSE /\ \A f \in Fields: conf.val[f] = NamedValue(source.doc, source.fails, f)
       /\ \A t \in Range(Order):
            conf.table[t].data = LET list == NamedList(source.doc, source.fails, t) IN
                                 IF list = <<>> \/ Block("ta", t, 0) \in source.fails THEN Default.data ELSE list

\* The configuration the TA works with is one for this very device, unless an
\* entry that leaves out the virtual id follows one that has it
\* (silead_xml.cpp:389), or the mask says that the part does not count.
OwnConfiguration ==
  source.doc # None =>
    \/ \E i \in DOMAIN source.doc.versions: \A k \in 1..3:
         Mask(source.doc)[k] =>
           device.id[k] = (IF k <= Len(source.doc.versions[i]) THEN source.doc.versions[i][k] ELSE 0)
    \/ \E i, j \in DOMAIN source.doc.versions:
         i < j /\ Len(source.doc.versions[i]) > Len(source.doc.versions[j])

\* Every block is freed by the HAL, and the TA keeps those of its tables only.
BlocksReleased ==
  /\ leaked = {}
  /\ conf.heap = {conf.table[t].block : t \in DOMAIN conf.table} \ {NoBlock}
=============================================================================
