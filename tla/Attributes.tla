----------------------------- MODULE Attributes -----------------------------
(***************************************************************************)
(* How #[derive(Delta)] reads its attributes: the container's, then each   *)
(* field's, group by group (a struct is one group, an enum one for each    *)
(* variant), and what becomes of what it cannot read.                      *)
(*                                                                         *)
(* An attribute is "skipped" (of another path, or not a list), "unparsed"  *)
(* (a list syn cannot split) or a "list" of entries: key and value of      *)
(* name = "string", or Junk.                                               *)
(*                                                                         *)
(* An operator named A_B is a mutation of the operator A that follows it,  *)
(* never used by the model.                                                *)
(***************************************************************************)
EXTENDS Option, Naturals, Sequences

CONSTANTS
  Lists,     \* the attributes a field may carry
  Sources,   \* the types the derive may be put on: [kind, container, groups]
  Untokened  \* strings that do not lex as tokens

ASSUME SourcesAssumption == \A s \in Sources : s.groups \in Seq(Seq(Lists))
ASSUME ListsAssumption ==
  \A attrs \in Lists :
    /\ DOMAIN attrs \subseteq Nat \ {0}
    /\ \A k \in DOMAIN attrs : attrs[k].form \in {"skipped", "unparsed", "list"}

Junk == [key |-> None, value |-> None]

VARIABLES
  source,
  phase,      \* "container", "fields", "generated", "aborted" or "panicked"
  default,    \* default_field_type
  read,       \* the groups read so far
  seen,       \* how many fields of the next group collect_results has folded
  collected,  \* its accumulator
  report      \* the bad fields the abort names, if it is about fields

vars == <<source, phase, default, read, seen, collected, report>>

FieldTypes == {"ordered", "unordered", "unordered-delta", "scalar", "delta"}

Nothing == [ok |-> TRUE, fields |-> <<>>]

Init ==
  /\ source \in Sources
  /\ phase = "container" /\ default = None
  /\ read = <<>> /\ seen = 0 /\ collected = Nothing /\ report = None

-----------------------------------------------------------------------------
(* One attribute list *)

\* Index of the first list attribute of ours, 0 if there is none: the
\* function returns from inside its loop, so that later ones are not read.
FirstOurs(attrs) ==
  LET ours == {k \in DOMAIN attrs : attrs[k].form # "skipped"}
  IN IF ours = {} THEN 0 ELSE CHOOSE k \in ours : \A j \in ours : k <= j

string_to_fieldtype(spelling) == IF spelling \in FieldTypes THEN spelling ELSE None

\* What the last entry of a key says; no delta_leader is the empty string.
LastValue(entries, key) ==
  LET said == {k \in DOMAIN entries : entries[k].key = key}
  IN IF said = {} THEN None
     ELSE entries[CHOOSE k \in said : \A j \in said : j <= k].value

Unreadable(attr) ==
  attr.form = "unparsed" \/ \E k \in DOMAIN attr.entries : attr.entries[k] = Junk

\* A key that is not expected here is passed over.
Unrecognized_Ignored(entries, attr_name) == FALSE

Unrecognized(entries, attr_name) ==
  \E n \in DOMAIN entries : entries[n].key \notin {attr_name, "delta_leader"}

\* What get_fieldtype_from_attrs makes of a list, or that it aborts.
get_fieldtype_from_attrs(attrs, attr_name) ==
  LET k == FirstOurs(attrs)
      entries == attrs[k].entries
  IN CASE k = 0 -> [got |-> "values", type |-> None, leader |-> None]
       [] k # 0 /\ Unreadable(attrs[k]) -> [got |-> "error"]
       [] k # 0 /\ ~ Unreadable(attrs[k]) ->
            IF Unrecognized(entries, attr_name)
            THEN [got |-> "abort"]
            ELSE [got |-> "values",
                  type |-> string_to_fieldtype(LastValue(entries, attr_name)),
                  leader |-> LastValue(entries, "delta_leader")]

-----------------------------------------------------------------------------
(* The container *)

ContainerAttrs == get_fieldtype_from_attrs(source.container, "default")

Acceptable ==
  /\ ContainerAttrs.got = "values"
  /\ ContainerAttrs.leader \notin Untokened
  /\ source.kind # "union"
  /\ source.kind = "enum" => source.groups # <<>>

ReadContainer ==
  /\ phase = "container" /\ Acceptable
  /\ default' = IF ContainerAttrs.type = None THEN "scalar" ELSE ContainerAttrs.type
  /\ phase' = "fields"
  /\ UNCHANGED <<source, read, seen, collected, report>>

RefuseContainer ==
  /\ phase = "container" /\ ~ Acceptable
  /\ phase' = "aborted"
  /\ UNCHANGED <<source, default, read, seen, collected, report>>

-----------------------------------------------------------------------------
(* The fields *)

Group == source.groups[Len(read) + 1]

FieldAttrs == get_fieldtype_from_attrs(Group[seen + 1], "field_type")

\* The field before decides what a field that names no type is.
Resolved_Sticky(parsed) ==
  [leader |-> parsed.leader,
   type |-> IF parsed.type # None THEN parsed.type
            ELSE IF seen # 0 /\ collected.ok THEN collected.fields[seen].type ELSE default]

Resolved(parsed) ==
  [leader |-> parsed.leader,
   type |-> IF parsed.type = None THEN default ELSE parsed.type]

\* Err(v) stays as it is.
Worsened_FirstOnly(field) == collected

Worsened(field) == [ok |-> FALSE, fields |-> Append(collected.fields, field)]

\* One step of collect_results' fold; a field's name is its place.
Collect(parsed) ==
  CASE parsed.got = "values" /\ collected.ok ->
         [ok |-> TRUE, fields |-> Append(collected.fields, Resolved(parsed))]
    [] parsed.got = "values" /\ ~ collected.ok -> collected
    [] parsed.got = "error" /\ collected.ok -> [ok |-> FALSE, fields |-> <<seen + 1>>]
    [] parsed.got = "error" /\ ~ collected.ok -> Worsened(seen + 1)

InGroup == phase = "fields" /\ Len(read) < Len(source.groups)

ReadField ==
  /\ InGroup /\ seen < Len(Group)
  /\ FieldAttrs.got # "abort"
  /\ collected' = Collect(FieldAttrs)
  /\ seen' = seen + 1
  /\ UNCHANGED <<source, phase, default, read, report>>

AbortOnKey ==
  /\ InGroup /\ seen < Len(Group)
  /\ FieldAttrs.got = "abort"
  /\ phase' = "aborted"
  /\ UNCHANGED <<source, default, read, seen, collected, report>>

FinishGroup ==
  /\ InGroup /\ seen = Len(Group)
  /\ collected.ok
  /\ read' = Append(read, collected.fields)
  /\ seen' = 0 /\ collected' = Nothing
  /\ UNCHANGED <<source, phase, default, report>>

RefuseGroup ==
  /\ InGroup /\ seen = Len(Group)
  /\ ~ collected.ok
  /\ report' = collected.fields
  /\ phase' = "aborted"
  /\ UNCHANGED <<source, default, read, seen, collected>>

\* The leaders of fields are lexed last, with an unwrap.
Generate ==
  /\ phase = "fields" /\ Len(read) = Len(source.groups)
  /\ phase' = IF \E g \in DOMAIN read : \E f \in DOMAIN read[g] :
                   read[g][f].leader \in Untokened
              THEN "panicked" ELSE "generated"
  /\ UNCHANGED <<source, default, read, seen, collected, report>>

Next ==
  \/ ReadContainer \/ RefuseContainer
  \/ ReadField \/ AbortOnKey \/ FinishGroup \/ RefuseGroup \/ Generate

Spec == Init /\ [][Next]_vars

-----------------------------------------------------------------------------
(* Properties *)

\* All that the lists of ours among attrs say.
Written(attrs) ==
  UNION {{attrs[k].entries[n] : n \in DOMAIN attrs[k].entries} :
           k \in {j \in DOMAIN attrs : attrs[j].form = "list"}}

BadFields(group) ==
  {f \in DOMAIN group :
     FirstOurs(group[f]) # 0 /\ Unreadable(group[f][FirstOurs(group[f])])}

\* "collecting every bad field rather than stopping at the first, so one
\* compile reports them all" (macros lib.rs:805-807): the abort names each
\* unreadable field of its group once, in order, and no other; no group before
\* it had one.
OneReportForAll ==
  report # None =>
    /\ {report[n] : n \in DOMAIN report} = BadFields(Group) /\ report # <<>>
    /\ \A m, n \in DOMAIN report : m < n => report[m] < report[n]
    /\ \A g \in 1 .. Len(read) : BadFields(source.groups[g]) = {}

\* Code is generated only if everything in the attributes that rule was read:
\* an entry is kept or refused, never passed over, wherever it stands.
NothingPassedOver ==
  phase \in {"generated", "panicked"} =>
    \A g \in DOMAIN source.groups : \A f \in DOMAIN source.groups[g] :
      LET attrs == source.groups[g][f]
          ours == IF FirstOurs(attrs) = 0 THEN <<>> ELSE <<attrs[FirstOurs(attrs)]>>
      IN /\ \A k \in DOMAIN ours : ours[k].form = "list"
         /\ \A entry \in Written(ours) : entry.key \in {"field_type", "delta_leader"}

\* What is generated for a field depends on its own attributes and the
\* container's alone: not on its neighbours, its place or its variant, and
\* none is lost on the way.
OnItsOwn ==
  phase = "generated" =>
    /\ DOMAIN read = DOMAIN source.groups
    /\ \A g, h \in DOMAIN read :
         /\ Len(read[g]) = Len(source.groups[g])
         /\ \A m \in DOMAIN read[g], n \in DOMAIN read[h] :
              source.groups[g][m] = source.groups[h][n] => read[g][m] = read[h][n]

\* field_type "Overrides the container's default" (macros lib.rs:90), and
\* default is the "Field type for fields that don't specify one" (83): what a
\* field specifies is what it gets, if the derive accepts it at all.
Overrides ==
  phase = "generated" =>
    \A g \in DOMAIN read : \A f \in DOMAIN read[g] :
      \A entry \in Written(source.groups[g][f]) :
        entry.key = "field_type" => read[g][f].type = entry.value
=============================================================================
