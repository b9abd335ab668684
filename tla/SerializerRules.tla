----------------------------- MODULE SerializerRules -----------------------------
(***************************************************************************)
(* What djaudit's rules about serializers (DJA-008 to DJA-012) read of one *)
(* (api/serializers.py), next to what the framework makes of it: which     *)
(* fields a response holds and which a request may set.                    *)
(*                                                                         *)
(* Three ModelSerializers of the user model, whose owner is a user too:    *)
(* "base", the "child" that inherits from it, and "other", that the first  *)
(* two may nest.  Their authors write one thing at a time: a field, a      *)
(* Meta, an option of a Meta.                                              *)
(***************************************************************************)
EXTENDS Naturals, FiniteSets

CONSTANTS
  Listings,      \* bound: the field lists a Meta may have
  MaxWritten     \* bound: the things written

VARIABLES
  body,     \* of every serializer and name: what its class assigns to it
  meta,     \* of every serializer: the Meta of its own
  fixed,    \* the columns of the model that are not editable
  written

serializerVars == <<body, meta, fixed, written>>

SECRET_FIELDS == {"password"}
PRIVILEGE_FIELDS == {"is_staff"}
OWNERSHIP_FIELDS == {"owner"}
Column_names == SECRET_FIELDS \cup PRIVILEGE_FIELDS \cup OWNERSHIP_FIELDS
(* With Meta.depth, the owner is expanded into the columns of a user. *)
Expanded(n) == IF n \in OWNERSHIP_FIELDS THEN SECRET_FIELDS ELSE {}

Parent(c) == IF c = "child" THEN {"base"} ELSE {}

NotWritten == [kind |-> "not written", read_only |-> FALSE, write_only |-> FALSE]
Is(kind) == [NotWritten EXCEPT !.kind = kind]
Fields ==
  {Is("CharField"), [Is("CharField") EXCEPT !.read_only = TRUE], [Is("CharField") EXCEPT !.write_only = TRUE],
   Is("ReadOnlyField"), Is("HiddenField")}
Nested == {Is("OtherSerializer"), [Is("OtherSerializer") EXCEPT !.write_only = TRUE]}
IsField(d) == d.kind \notin {"not written", "None"}

NoMeta == [own |-> FALSE, extends |-> FALSE, mode |-> "unset", names |-> {}, read_only_fields |-> {},
           read |-> {}, write |-> {}, depth |-> 0]

-----------------------------------------------------------------------------
(* build_serializer.                                                           *)

(* Nearest declaration wins; an assignment that is not a call is no declaration. *)
declared(c, n) ==
  IF IsField(body[c][n]) \/ Parent(c) = {} THEN body[c][n] ELSE body["base"][n]
declares(c, n) == IsField(declared(c, n))

meta_inherited(c) == ~meta[c].own
fields(c) == IF meta[c].mode = "explicit" THEN meta[c].names ELSE {}

(* Mutated: only the list of Meta is looked at. *)
is_read_only_listed(c, n) == n \in meta[c].read_only_fields
is_read_only(c, n) ==
  n \in meta[c].read_only_fields \cup meta[c].read \/ (declares(c, n) /\ declared(c, n).read_only)
(* Mutated: extra_kwargs are not looked at. *)
is_write_only_declared(c, n) == declares(c, n) /\ declared(c, n).write_only
is_write_only(c, n) == n \in meta[c].write \/ (declares(c, n) /\ declared(c, n).write_only)

-----------------------------------------------------------------------------
(* The rules, each of a serializer with a Meta of its own.                     *)

OpenFieldList(c) == ~meta_inherited(c) /\ meta[c].mode = "all"
ExcludeFieldList(c) == ~meta_inherited(c) /\ meta[c].mode = "exclude"

SensitiveField(c, n) ==
  ~meta_inherited(c) /\ n \in fields(c) /\ ~is_write_only(c, n) /\ n \in SECRET_FIELDS \cup PRIVILEGE_FIELDS

unwritable(c, n) == declared(c, n).kind = "HiddenField" \/ n \in fixed
WritableOwnership(c, n) ==
  /\ ~meta_inherited(c) /\ n \in fields(c) \cap OWNERSHIP_FIELDS
  /\ ~is_read_only(c, n) /\ ~unwritable(c, n)

Nesting(c, n, f) ==
  /\ n \in fields(c) /\ declared(c, n).kind = "OtherSerializer"
  /\ f \in fields("other") \cap SECRET_FIELDS /\ ~is_write_only("other", f)
by_depth(c, n, f) ==
  meta[c].depth > 0 /\ (n \in fields(c) \/ meta[c].mode # "explicit") /\ f \in Expanded(n)
NestedSensitiveField(c, n, f) == ~meta_inherited(c) /\ (Nesting(c, n, f) \/ by_depth(c, n, f))

-----------------------------------------------------------------------------
(* ModelSerializer.get_fields.                                                 *)

(* SerializerMetaclass: whatever a class assigns to a name hides the field of a parent. *)
Collected(c, n) ==
  IF body[c][n] = NotWritten /\ Parent(c) # {} THEN body["base"][n] ELSE body[c][n]
Explicit(c, n) == IsField(Collected(c, n))

(* A Meta is an attribute of its class, and its options are attributes of it. *)
MetaOf(c) ==
  LET own == meta[c]
      old == meta["base"] IN
  IF ~own.own THEN (IF c = "child" THEN old ELSE own)
  ELSE IF ~own.extends THEN own
  ELSE [own EXCEPT !.mode = IF @ = "unset" THEN old.mode ELSE @,
                   !.names = IF own.mode = "unset" THEN old.names ELSE @,
                   !.read_only_fields = IF @ = {} THEN old.read_only_fields ELSE @,
                   !.read = IF own.read \cup own.write = {} THEN old.read ELSE @,
                   !.write = IF own.read \cup own.write = {} THEN old.write ELSE @,
                   !.depth = IF @ = 0 THEN old.depth ELSE @]

Rendering(c) ==
  LET m == MetaOf(c) IN
  CASE m.mode = "explicit" -> m.names [] m.mode = "exclude" -> Column_names \ m.names [] OTHER -> Column_names

(* Neither read_only_fields nor extra_kwargs reach a field that is declared. *)
Expands(c, n) == ~Explicit(c, n) /\ MetaOf(c).depth > 0 /\ Expanded(n) # {}
RefusesWrites(c, n) ==
  IF Explicit(c, n) THEN Collected(c, n).read_only \/ Collected(c, n).kind = "ReadOnlyField"
  ELSE n \in MetaOf(c).read_only_fields \cup MetaOf(c).read \cup fixed \/ Expands(c, n)
HidesValue(c, n) ==
  IF Explicit(c, n) THEN Collected(c, n).write_only \/ Collected(c, n).kind = "HiddenField"
  ELSE n \in MetaOf(c).write

(* What it refuses: a class without a list, a field declared and not listed, one declared *)
(* and excluded, one that is neither returned nor accepted.                               *)
Builds(c) ==
  LET m == MetaOf(c) IN
  /\ m.mode # "unset"
  /\ m.mode = "explicit" =>
       \A n \in Column_names : IsField(body[c][n]) /\ (\A p \in Parent(c) : ~IsField(body[p][n])) => n \in m.names
  /\ m.mode = "exclude" => \A n \in m.names : ~Explicit(c, n)
  /\ \A n \in Rendering(c) : ~Explicit(c, n) => ~(RefusesWrites(c, n) /\ HidesValue(c, n))

Returned(c) == {n \in Rendering(c) : ~HidesValue(c, n)}
Accepts(c, n) == n \in Rendering(c) /\ ~RefusesWrites(c, n) /\ Collected(c, n).kind # "HiddenField"

(* A name of the response, or a name under one: of what is nested in it. *)
Under(c, n) ==
  IF Explicit(c, n) /\ Collected(c, n).kind = "OtherSerializer" THEN Returned("other")
  ELSE IF Expands(c, n) THEN Expanded(n) ELSE {}

-----------------------------------------------------------------------------
Shape(names, write) == [NoMeta EXCEPT !.own = TRUE, !.mode = "explicit", !.names = names, !.write = write]
OpenShape == [NoMeta EXCEPT !.own = TRUE, !.mode = "all"]

SerializersInit ==
  /\ body = [c \in {"base", "child", "other"} |-> [n \in Column_names |-> NotWritten]]
  /\ \E shape \in {Shape({"password"}, {}), Shape({"password"}, {"password"}), Shape({"is_staff"}, {}), OpenShape} :
        meta = [c \in {"base", "child", "other"} |-> IF c = "other" THEN shape ELSE NoMeta]
  /\ fixed \in SUBSET OWNERSHIP_FIELDS
  /\ written = 0

Author(c) == c \in {"base", "child"} /\ written < MaxWritten /\ written' = written + 1 /\ UNCHANGED fixed

WriteField(c, n) ==
  /\ Author(c) /\ body[c][n] = NotWritten /\ UNCHANGED meta
  /\ \E d \in Fields \cup (IF n \in OWNERSHIP_FIELDS THEN Nested ELSE {}) \cup {Is("None")} :
        body' = [body EXCEPT ![c][n] = d]

WriteMeta(c) ==
  /\ Author(c) /\ ~meta[c].own /\ UNCHANGED body
  /\ \E extends \in {FALSE} \cup {meta[p].own : p \in Parent(c)}, mode \in {"explicit", "exclude", "all", "unset"},
       names \in Listings \cup {{}} :
        /\ names = {} <=> mode \in {"all", "unset"}
        /\ mode = "exclude" => Cardinality(names) = 1
        /\ mode = "unset" => extends
        /\ meta' = [meta EXCEPT ![c] = [NoMeta EXCEPT !.own = TRUE, !.extends = extends, !.mode = mode, !.names = names]]

WriteReadOnlyFields(c) ==
  /\ Author(c) /\ meta[c].own /\ meta[c].read_only_fields = {} /\ UNCHANGED body
  /\ \E n \in Column_names : meta' = [meta EXCEPT ![c].read_only_fields = {n}]

WriteExtraKwargs(c) ==
  /\ Author(c) /\ meta[c].own /\ meta[c].read \cup meta[c].write = {} /\ UNCHANGED body
  /\ \E n \in Column_names : meta' \in {[meta EXCEPT ![c].read = {n}], [meta EXCEPT ![c].write = {n}]}

WriteDepth(c) ==
  /\ Author(c) /\ meta[c].own /\ meta[c].depth = 0 /\ UNCHANGED body
  /\ meta' = [meta EXCEPT ![c].depth = 1]

SerializersNext ==
  \E c \in {"base", "child"} :
    \/ \E n \in Column_names : WriteField(c, n)
    \/ WriteMeta(c) \/ WriteReadOnlyFields(c) \/ WriteExtraKwargs(c) \/ WriteDepth(c)

SerializersSpec == SerializersInit /\ [][SerializersNext]_serializerVars

-----------------------------------------------------------------------------
(* What the reading of a serializer does not see.                              *)

Overruled(c, n) ==
  Explicit(c, n) /\ n \in meta[c].read_only_fields \cup meta[c].read \cup meta[c].write
Removed(c, n) == body[c][n].kind = "None"
HalfInherited(c) == meta[c].own /\ MetaOf(c) # meta[c]
ListInherited(c) == meta[c].mode = "unset"

NamedAt(c, n) == SensitiveField(c, n) \/ OpenFieldList(c) \/ ExcludeFieldList(c)
NamedUnder(c, n, f) == NestedSensitiveField(c, n, f) \/ OpenFieldList(c) \/ ExcludeFieldList(c) \/ NamedAt("other", f)

(* Whatever a response holds of a secret, in its own name or under another, is named by a *)
(* rule of the serializer, or of the one it nests, or by its whole list being open; and   *)
(* what is named is returned.  But for a field that is declared where the options of Meta *)
(* do not reach it, one that None takes back, and a Meta that is in part another's.       *)
ResponsesAreJudged ==
  \A c \in {s \in {"base", "child"} : Builds(s) /\ ~ListInherited(s) /\ ~HalfInherited(s)} :
    \A n \in {k \in Column_names : ~Overruled(c, k) /\ ~Removed(c, k)} :
      /\ n \in Returned(c) \cap (SECRET_FIELDS \cup PRIVILEGE_FIELDS) => NamedAt(c, n)
      /\ n \in Returned(c) => \A f \in Under(c, n) \cap SECRET_FIELDS : NamedUnder(c, n, f)
      /\ SensitiveField(c, n) => n \in Returned(c) \/ Collected(c, n).kind = "HiddenField"
      /\ \A f \in SECRET_FIELDS : NestedSensitiveField(c, n, f) =>
           \/ (n \in Returned(c) /\ f \in Under(c, n))
           \/ Explicit(c, n) \/ n \notin Rendering(c) \/ HidesValue(c, n)

(* DJA-011 names the owner that a request may choose, and that only; but for a field that *)
(* takes no input by its class, the cases above, and an expanded owner, which is read.    *)
OwnersAreJudged ==
  \A c \in {s \in {"base", "child"} : Builds(s) /\ ~ListInherited(s) /\ ~HalfInherited(s)} :
    \A n \in {k \in OWNERSHIP_FIELDS : ~Overruled(c, k) /\ ~Removed(c, k)} :
      /\ Accepts(c, n) => WritableOwnership(c, n) \/ OpenFieldList(c) \/ ExcludeFieldList(c) \/ (Explicit(c, n) /\ n \in fixed)
      /\ WritableOwnership(c, n) => Accepts(c, n) \/ Collected(c, n).kind = "ReadOnlyField" \/ Expands(c, n)

(* Both, of whatever three serializers can be made of the things written. *)
SerializersAreJudged == ResponsesAreJudged /\ OwnersAreJudged

(* "Whether DRF will refuse writes to name.  Three spellings mean the same thing." *)
ReadOnlyIsRefused ==
  \A c \in {s \in {"base", "child"} : Builds(s) /\ ~meta_inherited(s)}, n \in Column_names :
    is_read_only(c, n) /\ ~Removed(c, n) => ~Accepts(c, n)
=============================================================================
