--------------------------------- MODULE Json ---------------------------------
(***************************************************************************)
(* How the report of a version outlives a run of nbuild: objects described *)
(* by their types (src/core/dbind.c), written as JSON and read again       *)
(* (src/encode/json.c), possibly by a program whose types have changed,    *)
(* and a file on the drive that is replaced by a copy that may stop in the *)
(* middle (i_save_report and i_run of src/nbuild/workflow.c).              *)
(*                                                                         *)
(* A document is its sequence of tokens.  Of the types, those that nbuild  *)
(* registers are here: booleans, unsigned integers, strings, structs by    *)
(* value and the two kinds of arrays.                                      *)
(***************************************************************************)
EXTENDS Integers, Sequences, TLC
LOCAL INSTANCE SequencesExt

CONSTANTS
    UintMax,        \* the largest unsigned integer
    ReportType,     \* the struct that this version of nbuild stores
    Reports,        \* the values of it that a run can make
    OldFiles        \* what another version of nbuild has stored: [type, obj]

-----------------------------------------------------------------------------
(* Types and values.                                                       *)

BoolType(def)     == [k |-> "bool", def |-> <<"bool", def>>]
UintType(def)     == [k |-> "uint", def |-> <<"uint", def>>]
StringType        == [k |-> "str"]
StructType(mem)   == [k |-> "struct", mem |-> mem]      \* pairs of a name and a type
ArrayType(elem, ptr) == [k |-> "arr", elem |-> elem, ptr |-> ptr]   \* ArrPt or ArrSt

Null == <<"null">>

\* i_create and i_init_struct_data: what a new object holds.
RECURSIVE Create(_)
Create(t) ==
    CASE t.k = "str"    -> <<"str", "">>
      [] t.k = "struct" -> <<"struct", [n \in DOMAIN t.mem |-> Create(t.mem[n][2])]>>
      [] t.k = "arr"    -> <<"arr", <<>>>>
      [] OTHER          -> t.def

\* i_remove_struct_data: what is left of a struct are its numbers.
RECURSIVE RemoveData(_, _)
RemoveData(t, v) ==
    CASE t.k = "struct" -> <<"struct", [n \in DOMAIN t.mem |-> RemoveData(t.mem[n][2], v[2][n])]>>
      [] t.k \in {"str", "arr"} -> Null
      [] OTHER -> v

\* dbind_set_value_null and dbind_st_set_value_null.
SetNull(t, v) ==
    CASE t.k = "bool" -> <<"bool", FALSE>>
      [] t.k = "uint" -> <<"uint", 0>>
      [] OTHER        -> RemoveData(t, v)

NotAllowed == <<>>

\* i_set_int.
Wrap(n) == n % (UintMax + 1)

\* dbind_set_value_bool, dbind_set_value_real and dbind_set_value_str.
SetBool(t, b) ==
    CASE t.k = "bool" -> <<"bool", b>>
      [] t.k = "uint" -> <<"uint", IF b THEN 1 ELSE 0>>
      [] t.k = "str"  -> <<"str", IF b THEN "true" ELSE "false">>
      [] OTHER        -> NotAllowed

SetReal(t, n) ==
    CASE t.k = "bool" -> <<"bool", n # 0>>
      [] t.k = "uint" -> <<"uint", Wrap(n)>>
      [] t.k = "str"  -> <<"str", ToString(n)>>
      [] OTHER        -> NotAllowed

SetString(t, s) ==
    CASE t.k = "bool" -> <<"bool", s \in {"true", "yes", "on", "y"}>>
      [] t.k = "uint" /\ \E n \in 0..UintMax : ToString(n) = s ->
            <<"uint", CHOOSE n \in 0..UintMax : ToString(n) = s>>
      [] t.k = "str"  -> <<"str", s>>
      [] OTHER        -> NotAllowed

-----------------------------------------------------------------------------
(* json_write.                                                             *)

Symbol(s) == <<s>>
Joined(parts) ==
    FlattenSeq([n \in DOMAIN parts |-> IF n = 1 THEN parts[n] ELSE <<Symbol(",")>> \o parts[n]])

\* i_write_escape_str drops the control characters that have no escape, such as
\* those of the colours in the log of a command.
Escaped(s) == IF s = "coloured log" THEN "log" ELSE s

RECURSIVE Written(_, _)
Written(t, v) ==
    IF v = Null THEN <<Symbol("null")>>
    ELSE CASE t.k = "bool" -> <<Symbol(IF v[2] THEN "true" ELSE "false")>>
           [] t.k = "uint" -> <<<<"number", v[2]>>>>
           [] t.k = "str"  -> <<<<"string", Escaped(v[2])>>>>
           [] t.k = "arr"  ->
                 <<Symbol("[")>>
                 \o Joined([n \in DOMAIN v[2] |-> Written(t.elem, v[2][n])])
                 \o <<Symbol("]")>>
           [] t.k = "struct" ->
                 <<Symbol("{")>>
                 \o Joined([n \in DOMAIN t.mem |->
                       <<<<"string", t.mem[n][1]>>, Symbol(":")>> \o Written(t.mem[n][2], v[2][n])])
                 \o <<Symbol("}")>>

-----------------------------------------------------------------------------
(* json_read.  Every operator gets the document and the position of the    *)
(* last token read, and gives the position of the last token it has read.  *)

Token(doc, i) == IF i \in DOMAIN doc THEN doc[i] ELSE Symbol("unknown")
Is(doc, i, s) == Token(doc, i)[1] = s

\* Mutant of ObjectEnds: the end of the document ends the object too.
DocumentEnds(doc, i, comma) == Is(doc, i, "}") \/ i > Len(doc)

\* No member follows, and the last comma has one after it.
ObjectEnds(doc, i, comma) == Is(doc, i, "}") /\ ~comma

\* i_jump_json_value, i_jump_json_array and i_jump_json_object.
RECURSIVE JumpValue(_, _), JumpArray(_, _), JumpElements(_, _), JumpObject(_, _, _)
JumpValue(doc, i) ==
    LET s == Token(doc, i + 1)[1]
    IN  CASE s = "["  -> JumpArray(doc, i + 1)
          [] s = "{"  -> JumpObject(doc, i + 1, FALSE)
          [] OTHER    -> [ok |-> s \in {"true", "false", "null", "number", "string"}, i |-> i + 1]

\* Mutant of JumpArray: an empty array is an error.
JumpFullArray(doc, i) ==
    LET first == JumpValue(doc, i)
    IN  IF first.ok THEN JumpElements(doc, first.i) ELSE first

JumpArray(doc, i) ==
    LET first == JumpValue(doc, i)
    IN  IF first.ok THEN JumpElements(doc, first.i)
        ELSE [ok |-> Is(doc, first.i, "]"), i |-> first.i]

JumpElements(doc, i) ==
    IF Is(doc, i + 1, ",") THEN JumpElements(doc, JumpValue(doc, i + 1).i)
    ELSE [ok |-> Is(doc, i + 1, "]"), i |-> i + 1]

JumpObject(doc, i, comma) ==
    CASE Is(doc, i + 1, ",") /\ ~comma -> JumpObject(doc, i + 1, TRUE)
      [] Is(doc, i + 1, "string") /\ Is(doc, i + 2, ":") ->
            LET value == JumpValue(doc, i + 2)
            IN  IF value.ok THEN JumpObject(doc, value.i, FALSE) ELSE value
      [] OTHER -> [ok |-> ObjectEnds(doc, i + 1, comma), i |-> i + 1]

\* The value of a scalar, if the type allows it.
Scalar(t, v, new, i) ==
    IF new = NotAllowed THEN [ok |-> FALSE, i |-> i, v |-> v, null |-> FALSE]
    ELSE [ok |-> TRUE, i |-> i, v |-> new, null |-> FALSE]

Parsed(ok, i, v) == [ok |-> ok, i |-> i, v |-> v, null |-> FALSE]

RECURSIVE ParseValue(_, _, _, _), ParseArray(_, _, _, _), ParseElements(_, _, _, _),
          ParseObject(_, _, _, _, _)

\* i_create_type: a new object, or NULL.
CreateFrom(t, doc, i) ==
    LET p == ParseValue(t, Create(t), doc, i)
    IN  [i |-> p.i, v |-> IF p.ok /\ ~p.null THEN p.v ELSE Null]

\* i_parse_json_value.  A value of another shape is jumped over.
ParseValue(t, v, doc, i) ==
    LET s    == Token(doc, i + 1)[1]
        x    == Token(doc, i + 1)
    IN  CASE s \in {"true", "false"} -> Scalar(t, v, SetBool(t, s = "true"), i + 1)
          [] s = "null"   -> [ok |-> TRUE, i |-> i + 1, v |-> SetNull(t, v), null |-> TRUE]
          [] s = "number" -> Scalar(t, v, SetReal(t, x[2]), i + 1)
          [] s = "string" -> Scalar(t, v, SetString(t, x[2]), i + 1)
          [] s = "["      -> IF t.k = "arr" THEN ParseArray(t, v, doc, i + 1)
                             ELSE Parsed(FALSE, JumpArray(doc, i + 1).i, v)
          [] s = "{"      -> IF t.k = "struct" THEN ParseObject(t, v, doc, i + 1, FALSE)
                             ELSE Parsed(FALSE, JumpObject(doc, i + 1, FALSE).i, v)
          [] OTHER        -> Parsed(FALSE, i + 1, v)

\* An element of an ArrPt is an object of its own or NULL, one of an ArrSt is
\* created first and set to null when it cannot be read.
Element(t, doc, i) ==
    LET p == ParseValue(t.elem, Create(t.elem), doc, i)
    IN  IF t.ptr THEN CreateFrom(t.elem, doc, i)
        ELSE [i |-> p.i, v |-> IF p.ok THEN p.v ELSE SetNull(t.elem, p.v)]

\* i_parse_json_array and i_parse_json_arrpt: a first element that cannot be read
\* and ends in "]" is an empty array.
ParseArray(t, v, doc, i) ==
    LET e      == Element(t, doc, i)
        failed == ~ParseValue(t.elem, Create(t.elem), doc, i).ok
    IN  IF failed /\ Is(doc, e.i, "]") THEN Parsed(TRUE, e.i, v)
        ELSE ParseElements(t, <<"arr", Append(v[2], e.v)>>, doc, e.i)

ParseElements(t, v, doc, i) ==
    LET e == Element(t, doc, i + 1)
    IN  IF Is(doc, i + 1, ",") THEN ParseElements(t, <<"arr", Append(v[2], e.v)>>, doc, e.i)
        ELSE Parsed(Is(doc, i + 1, "]"), i + 1, v)

\* i_parse_json_object.
ParseObject(t, v, doc, i, comma) ==
    LET name   == Token(doc, i + 1)
        Ids    == {n \in DOMAIN t.mem : t.mem[n][1] = name[2]}      \* dbind_st_member_id
        jumped == JumpValue(doc, i + 2)
    IN  CASE Is(doc, i + 1, ",") /\ ~comma -> ParseObject(t, v, doc, i + 1, TRUE)
          [] Is(doc, i + 1, "string") /\ Is(doc, i + 2, ":") ->
                IF Ids # {}
                THEN LET n    == CHOOSE n \in Ids : TRUE
                         p    == ParseValue(t.mem[n][2], v[2][n], doc, i + 2)
                         new  == IF p.ok /\ ~p.null THEN p.v ELSE SetNull(t.mem[n][2], p.v)
                     IN  ParseObject(t, <<"struct", [v[2] EXCEPT ![n] = new]>>, doc, p.i, FALSE)
                ELSE IF jumped.ok THEN ParseObject(t, v, doc, jumped.i, FALSE)
                     ELSE Parsed(FALSE, jumped.i, v)
          [] OTHER -> Parsed(ObjectEnds(doc, i + 1, comma), i + 1, v)

ReadFrom(t, doc) == CreateFrom(t, doc, 0).v

-----------------------------------------------------------------------------
(* The report of a version, in the memory of a run and on the drive.       *)

VARIABLES
    mem,        \* the report of the run: Idle when nothing runs, Null when it cannot be read
    disk,       \* the tokens of report.json
    stored,     \* the report that was written last, [type, obj], if there is one
    torn        \* whether only the beginning of it is on the drive

json_vars == <<mem, disk, stored, torn>>

Idle == <<"idle">>

JsonInit ==
    /\ mem = Idle
    /\ \/ stored = {} /\ disk = <<>>
       \/ \E f \in OldFiles : stored = {f} /\ disk = Written(f.type, f.obj)
    /\ torn = FALSE

\* i_run: report.json is read, or a new report is made.
LoadReport ==
    /\ mem = Idle
    /\ mem' = IF stored = {} THEN Create(ReportType) ELSE ReadFrom(ReportType, disk)
    /\ UNCHANGED <<disk, stored, torn>>

Running == mem \notin {Idle, Null}

\* What the steps of the workflow write in the report.
ChangeReport(r) == Running /\ mem' = r /\ UNCHANGED <<disk, stored, torn>>

\* i_save_report.
SaveReport ==
    /\ Running
    /\ disk' = Written(ReportType, mem)
    /\ stored' = {[type |-> ReportType, obj |-> mem]}
    /\ torn' = FALSE
    /\ UNCHANGED mem

\* The run is killed, or the drive fails, in the middle of i_save_report: the last
\* token may be cut too, and is a token only when it is a number.
SaveIsCut ==
    LET doc == Written(ReportType, mem)
        Cut(x) == {<<>>} \cup (IF x[1] = "number" THEN {<<<<"number", m>>>> : m \in 0..(x[2] - 1)} ELSE {})
    IN  /\ Running
        /\ \E n \in 1..Len(doc) : \E last \in Cut(doc[n]) :
              disk' = SubSeq(doc, 1, n - 1) \o last
        /\ stored' = {[type |-> ReportType, obj |-> mem]}
        /\ torn' = TRUE
        /\ mem' = Idle

\* The run ends, or stops at a report that it cannot read.
EndRun == mem # Idle /\ mem' = Idle /\ UNCHANGED <<disk, stored, torn>>

JsonNext ==
    \/ LoadReport \/ SaveReport \/ SaveIsCut \/ EndRun
    \/ \E r \in Reports : ChangeReport(r)

JsonSpec == JsonInit /\ [][JsonNext]_json_vars

-----------------------------------------------------------------------------
\* What is expected of a value of type "to" that is read where a value x of type
\* "from" was written: the same value, without the characters that have no escape;
\* members that "from" lacks hold their defaults, and nothing is said of those whose
\* kind has changed.
RECURSIVE Agrees(_, _, _, _)
Agrees(to, from, x, r) ==
    \/ to.k # from.k
    \/ r = x
    \/ to.k = "str" /\ x # Null /\ r = <<"str", Escaped(x[2])>>
    \/ /\ to.k = "arr" /\ x # Null
       /\ to.elem.k = from.elem.k =>
             /\ Len(r[2]) = Len(x[2])
             /\ \A n \in DOMAIN x[2] : Agrees(to.elem, from.elem, x[2][n], r[2][n])
    \/ /\ to.k = "struct"
       /\ \A n \in DOMAIN to.mem :
             LET Same == {m \in DOMAIN from.mem : from.mem[m][1] = to.mem[n][1]}
             IN  IF Same = {} THEN r[2][n] = Create(to.mem[n][2])
                 ELSE \A m \in Same : Agrees(to.mem[n][2], from.mem[m][2], x[2][m], r[2][n])

\* A report that was written whole reads back, also after its type has got, lost or
\* changed members (json_write, json_read and the defaults of dbind.c).
ReportSurvives ==
    ~torn => \A f \in stored :
        LET r == ReadFrom(ReportType, disk)
        IN  r # Null /\ Agrees(ReportType, f.type, f.obj, r)

\* Of a report that was written in part nothing is taken for a report, wherever the
\* writing stopped (the error paths of json_read).
TornIsRefused == torn => ReadFrom(ReportType, disk) = Null
==============================================================================
