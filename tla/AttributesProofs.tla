-------------------------- MODULE AttributesProofs --------------------------
(***************************************************************************)
(* Attributes for types with any number of fields and variants and any     *)
(* attributes on them.  The strengthening says what collect_results has    *)
(* folded of the group at hand (FoldInv) and what is kept of the groups    *)
(* before it (ReadInv); what a list reads as is left unexpanded, but for   *)
(* which of them are errors.                                               *)
(***************************************************************************)
EXTENDS Attributes, WellFoundedInduction, TLAPS

Parsed(attrs) == get_fieldtype_from_attrs(attrs, "field_type")

\* What a field is generated from.
Outcome(attrs) == Resolved(Parsed(attrs))
Outcomes == {Outcome(attrs) : attrs \in Lists}

FoldInv ==
  /\ collected.ok \in BOOLEAN
  /\ seen \in Nat
  /\ collected.ok =>
       /\ collected.fields \in Seq(Outcomes)
       /\ Len(collected.fields) = seen
       /\ \A n \in 1 .. seen : /\ collected.fields[n] = Outcome(Group[n])
                               /\ n \notin BadFields(Group)
                               /\ Parsed(Group[n]).got = "values"
  /\ ~ collected.ok =>
       /\ collected.fields \in Seq(Nat) /\ collected.fields # <<>>
       /\ \A n \in 1 .. Len(collected.fields) :
            collected.fields[n] \in BadFields(Group) \cap 1 .. seen
       /\ \A f \in BadFields(Group) \cap 1 .. seen :
            \E n \in 1 .. Len(collected.fields) : collected.fields[n] = f
       /\ \A m, n \in 1 .. Len(collected.fields) :
            m < n => collected.fields[m] < collected.fields[n]

ReadInv ==
  /\ read \in Seq(Seq(Outcomes))
  /\ Len(read) <= Len(source.groups)
  /\ \A g \in 1 .. Len(read) :
       /\ BadFields(source.groups[g]) = {}
       /\ Len(read[g]) = Len(source.groups[g])
       /\ \A n \in 1 .. Len(read[g]) :
            /\ read[g][n] = Outcome(source.groups[g][n])
            /\ Parsed(source.groups[g][n]).got = "values"

PhaseInv ==
  /\ source \in Sources
  /\ phase = "container" => read = <<>> /\ seen = 0 /\ collected = Nothing
  /\ phase \in {"generated", "panicked"} => Len(read) = Len(source.groups)
  /\ report # None =>
       /\ report = collected.fields /\ ~ collected.ok
       /\ Len(read) < Len(source.groups) /\ seen = Len(Group)

IInv == FoldInv /\ ReadInv /\ PhaseInv

-----------------------------------------------------------------------------

LEMMA GroupFacts ==
  ASSUME IInv
  PROVE  /\ source.groups \in Seq(Seq(Lists))
         /\ Len(read) \in Nat /\ Len(source.groups) \in Nat
         /\ Len(read) < Len(source.groups) =>
              Group \in Seq(Lists) /\ Len(Group) \in Nat
<1>1. source.groups \in Seq(Seq(Lists)) /\ Len(read) \in Nat
  BY SourcesAssumption DEF IInv, PhaseInv, ReadInv
<1> QED
  BY <1>1 DEF Group

Error(attrs) == FirstOurs(attrs) # 0 /\ Unreadable(attrs[FirstOurs(attrs)])

Understood(attrs) ==
  LET attr == attrs[FirstOurs(attrs)]
  IN ~ Unreadable(attr) /\ ~ Unrecognized(attr.entries, "field_type")

LEMMA ParsedFacts ==
  ASSUME NEW attrs
  PROVE  /\ Parsed(attrs).got \in {"values", "error", "abort"}
         /\ Parsed(attrs).got = "error" <=> Error(attrs)
         /\ Parsed(attrs).got = "values" => FirstOurs(attrs) = 0 \/ Understood(attrs)
<1> DEFINE k == FirstOurs(attrs)
           entries == attrs[k].entries
<1>1. Parsed(attrs) =
        CASE k = 0 -> [got |-> "values", type |-> None, leader |-> None]
          [] k # 0 /\ Unreadable(attrs[k]) -> [got |-> "error"]
          [] k # 0 /\ ~ Unreadable(attrs[k]) ->
               IF Unrecognized(entries, "field_type")
               THEN [got |-> "abort"]
               ELSE [got |-> "values",
                     type |-> string_to_fieldtype(LastValue(entries, "field_type")),
                     leader |-> LastValue(entries, "delta_leader")]
  BY DEF Parsed, get_fieldtype_from_attrs
<1>2. Error(attrs) <=> k # 0 /\ Unreadable(attrs[k])
  BY DEF Error
<1>6. k # 0 /\ ~ Unreadable(attrs[k]) /\ ~ Unrecognized(entries, "field_type")
        => Understood(attrs)
  BY DEF Understood
<1> HIDE DEF entries
<1>7. FirstOurs(attrs) = k
  OBVIOUS
<1> HIDE DEF k
<1>3. CASE k = 0
  <2>1. Parsed(attrs) = [got |-> "values", type |-> None, leader |-> None]
    BY <1>1, <1>3
  <2> QED
    BY <1>2, <1>3, <1>7, <2>1
<1>4. CASE k # 0 /\ Unreadable(attrs[k])
  <2>1. Parsed(attrs) = [got |-> "error"]
    BY <1>1, <1>4
  <2> QED
    BY <1>2, <1>4, <2>1
<1>5. CASE k # 0 /\ ~ Unreadable(attrs[k])
  <2>1. Parsed(attrs) =
          IF Unrecognized(entries, "field_type")
          THEN [got |-> "abort"]
          ELSE [got |-> "values",
                type |-> string_to_fieldtype(LastValue(entries, "field_type")),
                leader |-> LastValue(entries, "delta_leader")]
    BY <1>1, <1>5, Zenon
  <2>2. /\ Parsed(attrs).got \in {"values", "abort"}
        /\ Parsed(attrs).got = "values" => ~ Unrecognized(entries, "field_type")
    BY <2>1
  <2> QED
    BY <1>2, <1>5, <1>6, <2>2
<1> QED
  BY <1>3, <1>4, <1>5

\* A list is an error exactly when its field counts as bad.
LEMMA BadFacts ==
  ASSUME NEW group, NEW f \in DOMAIN group
  PROVE  f \in BadFields(group) <=> Error(group[f])
BY DEF BadFields, Error

LEMMA InitIInv == Init => IInv
<1> SUFFICES ASSUME Init PROVE IInv
  OBVIOUS
<1>1. \A S : <<>> \in Seq(S) /\ Len(<<>>) = 0
  OBVIOUS
<1>2. source.groups \in Seq(Seq(Lists)) /\ Len(source.groups) \in Nat
  BY SourcesAssumption DEF Init
<1> QED
  BY <1>1, <1>2 DEF Init, IInv, FoldInv, ReadInv, PhaseInv, Nothing

\* What has been read of the source does not depend on the rest of the state.
LEMMA Frame ==
  ASSUME UNCHANGED <<source, default, read>>
  PROVE  /\ UNCHANGED Group /\ Outcomes' = Outcomes
         /\ \A attrs : Outcome(attrs)' = Outcome(attrs)
<1>1. \A attrs : Outcome(attrs)' = Outcome(attrs)
  BY DEF Outcome, Resolved
<1> QED
  BY <1>1 DEF Group, Outcomes

LEMMA ReadContainerKeepsIInv == IInv /\ ReadContainer => IInv'
<1> SUFFICES ASSUME IInv, ReadContainer PROVE IInv'
  OBVIOUS
<1>1. /\ UNCHANGED <<source, read, seen, collected, report>> /\ phase' = "fields"
      /\ read = <<>> /\ seen = 0 /\ collected = Nothing
  BY DEF ReadContainer, IInv, PhaseInv
<1>2. \A S : <<>> \in Seq(S) /\ Len(<<>>) = 0
  OBVIOUS
<1>3. FoldInv' /\ ReadInv'
  BY <1>1, <1>2, GroupFacts DEF FoldInv, ReadInv, Nothing
<1>4. PhaseInv'
  BY <1>1 DEF IInv, PhaseInv, Group
<1> QED
  BY <1>3, <1>4 DEF IInv

LEMMA ReadFieldKeepsIInv == IInv /\ ReadField => IInv'
<1> SUFFICES ASSUME IInv, ReadField PROVE IInv'
  OBVIOUS
<1> DEFINE parsed == Parsed(Group[seen + 1])
<1>1. /\ UNCHANGED <<source, phase, default, read, report>> /\ phase = "fields"
      /\ Len(read) < Len(source.groups) /\ seen < Len(Group) /\ seen' = seen + 1
      /\ parsed.got # "abort" /\ collected' = Collect(parsed)
  BY DEF ReadField, InGroup, FieldAttrs, Parsed
<1>2. UNCHANGED Group /\ Outcomes' = Outcomes /\ \A a : Outcome(a)' = Outcome(a)
  BY <1>1, Frame
<1>3. Group \in Seq(Lists) /\ Len(Group) \in Nat /\ seen \in Nat /\ seen + 1 \in 1 .. Len(Group)
  <2>1. Group \in Seq(Lists) /\ Len(Group) \in Nat
    BY <1>1, GroupFacts
  <2>2. seen \in Nat
    BY DEF IInv, FoldInv
  <2> QED
    BY <1>1, <2>1, <2>2
<1>4. /\ parsed.got \in {"values", "error"}
      /\ parsed.got = "error" <=> seen + 1 \in BadFields(Group)
  <2>1. parsed.got \in {"values", "error"} /\ (parsed.got = "error" <=> Error(Group[seen + 1]))
    BY <1>1, ParsedFacts
  <2>2. seen + 1 \in DOMAIN Group
    BY <1>3
  <2> QED
    BY <2>1, <2>2, BadFacts
<1>5. Group[seen + 1] \in Lists /\ Resolved(parsed) = Outcome(Group[seen + 1])
  BY <1>3 DEF Outcome
<1> HIDE DEF parsed
<1>6. \A n \in 1 .. seen + 1 : n \in 1 .. seen \/ n = seen + 1
  BY <1>3
<1>7. FoldInv'
  <2>1. CASE parsed.got = "values" /\ collected.ok
    <3>1. collected' = [ok |-> TRUE, fields |-> Append(collected.fields, Outcome(Group[seen + 1]))]
      BY <1>1, <1>5, <2>1 DEF Collect
    <3>2. collected.fields \in Seq(Outcomes) /\ Outcome(Group[seen + 1]) \in Outcomes
      BY <1>5, <2>1 DEF IInv, FoldInv, Outcomes
    <3>3. /\ collected'.ok = TRUE
          /\ collected'.fields = Append(collected.fields, Outcome(Group[seen + 1]))
      BY <3>1
    <3>4. Len(collected.fields) = seen
      BY <2>1 DEF IInv, FoldInv
    <3>5. /\ Len(collected'.fields) = seen + 1 /\ collected'.fields \in Seq(Outcomes)
          /\ \A n \in 1 .. seen : collected'.fields[n] = collected.fields[n]
          /\ collected'.fields[seen + 1] = Outcome(Group[seen + 1])
      BY <1>3, <3>2, <3>3, <3>4
    <3>6. seen + 1 \notin BadFields(Group)
      BY <1>4, <2>1
    <3>7. \A n \in 1 .. seen : /\ collected.fields[n] = Outcome(Group[n])
                               /\ n \notin BadFields(Group)
                               /\ Parsed(Group[n]).got = "values"
      BY <2>1 DEF IInv, FoldInv
    <3>8. \A n \in 1 .. seen + 1 : /\ collected'.fields[n] = Outcome(Group[n])
                                   /\ n \notin BadFields(Group)
                                   /\ Parsed(Group[n]).got = "values"
      BY <1>6, <2>1, <3>5, <3>6, <3>7 DEF parsed
    <3>9. BadFields(Group)' = BadFields(Group)
      BY <1>2 DEF BadFields
    <3>10. collected'.fields \in Seq(Outcomes')
      BY <1>2, <3>5
    <3>11. \A n \in 1 .. seen' : /\ collected'.fields[n] = Outcome(Group[n])'
                                 /\ n \notin BadFields(Group)'
                                 /\ Parsed(Group'[n]).got = "values"
      BY <1>1, <1>2, <3>8, <3>9
    <3>12. seen' \in Nat /\ Len(collected'.fields) = seen'
      BY <1>1, <1>3, <3>5
    <3> QED
      BY <3>3, <3>10, <3>11, <3>12 DEF FoldInv, Parsed
  <2>2. CASE parsed.got = "values" /\ ~ collected.ok
    <3>1. collected' = collected
      BY <1>1, <2>2 DEF Collect
    <3>2. BadFields(Group) \cap 1 .. seen + 1 = BadFields(Group) \cap 1 .. seen
      BY <1>3, <1>4, <1>6, <2>2
    <3>3. BadFields(Group)' = BadFields(Group)
      BY <1>2 DEF BadFields
    <3>4. /\ collected.ok = FALSE
          /\ collected.fields \in Seq(Nat) /\ collected.fields # <<>>
          /\ \A n \in 1 .. Len(collected.fields) :
               collected.fields[n] \in BadFields(Group) \cap 1 .. seen
          /\ \A f \in BadFields(Group) \cap 1 .. seen :
               \E n \in 1 .. Len(collected.fields) : collected.fields[n] = f
          /\ \A m, n \in 1 .. Len(collected.fields) :
               m < n => collected.fields[m] < collected.fields[n]
      BY <2>2 DEF IInv, FoldInv
    <3>5. seen' = seen + 1 /\ seen' \in Nat
      BY <1>1, <1>3
    <3> QED
      BY <3>1, <3>2, <3>3, <3>4, <3>5 DEF FoldInv
  <2>3. CASE parsed.got = "error" /\ collected.ok
    <3>1. collected' = [ok |-> FALSE, fields |-> <<seen + 1>>]
      BY <1>1, <2>3 DEF Collect
    <3>2. BadFields(Group) \cap 1 .. seen + 1 = {seen + 1}
      BY <1>3, <1>4, <1>6, <2>3 DEF IInv, FoldInv
    <3>3. <<seen + 1>> \in Seq(Nat) /\ Len(<<seen + 1>>) = 1 /\ <<seen + 1>>[1] = seen + 1
      BY <1>3
    <3>4. BadFields(Group)' = BadFields(Group)
      BY <1>2 DEF BadFields
    <3> QED
      BY <1>1, <1>2, <1>3, <3>1, <3>2, <3>3, <3>4 DEF FoldInv
  <2>4. CASE parsed.got = "error" /\ ~ collected.ok
    <3> DEFINE v == collected.fields
               w == Append(v, seen + 1)
    <3>1. collected' = [ok |-> FALSE, fields |-> w]
      BY <1>1, <2>4 DEF Collect, Worsened
    <3>2. v \in Seq(Nat) /\ v # <<>>
      BY <2>4 DEF IInv, FoldInv
    <3>3. /\ \A n \in 1 .. Len(v) : v[n] \in BadFields(Group) \cap 1 .. seen
          /\ \A f \in BadFields(Group) \cap 1 .. seen : \E n \in 1 .. Len(v) : v[n] = f
          /\ \A m, n \in 1 .. Len(v) : m < n => v[m] < v[n]
      BY <2>4 DEF IInv, FoldInv
    <3>4. /\ w \in Seq(Nat) /\ Len(w) = Len(v) + 1 /\ w[Len(w)] = seen + 1
          /\ \A n \in 1 .. Len(v) : w[n] = v[n]
          /\ Len(v) \in Nat
      BY <1>3, <3>2
    <3> HIDE DEF v, w
    <3>6. \A n \in 1 .. Len(w) : n \in 1 .. Len(v) \/ n = Len(w)
      BY <3>4
    <3>7. \A n \in 1 .. Len(w) : w[n] \in BadFields(Group) \cap 1 .. seen + 1
      <4>1. seen + 1 \in BadFields(Group) \cap 1 .. seen + 1
        BY <1>3, <1>4, <2>4
      <4>2. BadFields(Group) \cap 1 .. seen \subseteq BadFields(Group) \cap 1 .. seen + 1
        BY <1>3
      <4>3. \A n \in 1 .. Len(v) : w[n] \in BadFields(Group) \cap 1 .. seen
        BY <3>3, <3>4
      <4> QED
        BY <3>4, <3>6, <4>1, <4>2, <4>3
    <3>8. ASSUME NEW f \in BadFields(Group) \cap 1 .. seen + 1
          PROVE  \E n \in 1 .. Len(w) : w[n] = f
      BY <1>6, <3>3, <3>4
    <3>9. \A m, n \in 1 .. Len(w) : m < n => w[m] < w[n]
      <4>1. \A m \in 1 .. Len(v) : w[m] < w[Len(w)]
        BY <1>3, <3>3, <3>4
      <4>2. \A m \in 1 .. Len(w) : m < Len(w) => m \in 1 .. Len(v)
        BY <3>4
      <4>3. \A n \in 1 .. Len(v), m \in 1 .. Len(w) : m < n => m \in 1 .. Len(v)
        BY <3>4
      <4>4. \A m, n \in 1 .. Len(v) : m < n => w[m] < w[n]
        BY <3>3, <3>4
      <4>5. ASSUME NEW m \in 1 .. Len(w), NEW n \in 1 .. Len(w), m < n
            PROVE  w[m] < w[n]
        BY <3>6, <4>1, <4>2, <4>3, <4>4, <4>5
      <4> QED
        BY <4>5
    <3>10. BadFields(Group)' = BadFields(Group) /\ w # <<>>
      BY <1>2, <3>4 DEF BadFields
    <3> QED
      BY <1>1, <1>2, <1>3, <3>1, <3>4, <3>7, <3>8, <3>9, <3>10 DEF FoldInv
  <2> QED
    BY <1>4, <2>1, <2>2, <2>3, <2>4 DEF IInv, FoldInv
<1>8. ReadInv'
  BY <1>1, <1>2 DEF IInv, ReadInv, BadFields
<1>9. PhaseInv'
  <2>1. report = None
    BY <1>1 DEF IInv, PhaseInv
  <2> QED
    BY <1>1, <2>1 DEF IInv, PhaseInv
<1> QED
  BY <1>7, <1>8, <1>9 DEF IInv

LEMMA FinishGroupKeepsIInv == IInv /\ FinishGroup => IInv'
<1> SUFFICES ASSUME IInv, FinishGroup PROVE IInv'
  OBVIOUS
<1>1. /\ phase = "fields" /\ Len(read) < Len(source.groups) /\ seen = Len(Group)
      /\ collected.ok /\ read' = Append(read, collected.fields)
      /\ seen' = 0 /\ collected' = Nothing
      /\ UNCHANGED <<source, phase, default, report>>
  BY DEF FinishGroup, InGroup
<1>2. \A a : Outcome(a)' = Outcome(a)
  BY <1>1 DEF Outcome, Resolved
<1>3. Outcomes' = Outcomes
  BY <1>2 DEF Outcomes
<1>4. FoldInv'
  <2>1. \A S : <<>> \in Seq(S) /\ Len(<<>>) = 0
    OBVIOUS
  <2> QED
    BY <1>1, <2>1 DEF FoldInv, Nothing
<1>5. Group \in Seq(Lists) /\ Len(Group) \in Nat /\ Len(read) \in Nat /\ Len(source.groups) \in Nat
  BY <1>1, GroupFacts
<1>6. /\ collected.fields \in Seq(Outcomes) /\ Len(collected.fields) = Len(Group)
      /\ \A n \in 1 .. Len(Group) : /\ collected.fields[n] = Outcome(Group[n])
                                    /\ n \notin BadFields(Group)
                                    /\ Parsed(Group[n]).got = "values"
  BY <1>1 DEF IInv, FoldInv
<1>7. BadFields(Group) = {}
  BY <1>5, <1>6 DEF BadFields
<1>8. /\ read' \in Seq(Seq(Outcomes)) /\ Len(read') = Len(read) + 1
      /\ read'[Len(read) + 1] = collected.fields
      /\ \A g \in 1 .. Len(read) : read'[g] = read[g]
  BY <1>1, <1>6 DEF IInv, ReadInv
<1>9. ReadInv'
  <2>1. \A g \in 1 .. Len(read') : g \in 1 .. Len(read) \/ g = Len(read) + 1
    BY <1>5, <1>8
  <2>2. \A g \in 1 .. Len(read) :
          /\ BadFields(source.groups[g]) = {}
          /\ Len(read'[g]) = Len(source.groups[g])
          /\ \A n \in 1 .. Len(read'[g]) :
               /\ read'[g][n] = Outcome(source.groups[g][n])
               /\ Parsed(source.groups[g][n]).got = "values"
    BY <1>8 DEF IInv, ReadInv
  <2>3. /\ BadFields(source.groups[Len(read) + 1]) = {}
        /\ Len(read'[Len(read) + 1]) = Len(source.groups[Len(read) + 1])
        /\ \A n \in 1 .. Len(read'[Len(read) + 1]) :
             /\ read'[Len(read) + 1][n] = Outcome(source.groups[Len(read) + 1][n])
             /\ Parsed(source.groups[Len(read) + 1][n]).got = "values"
    BY <1>6, <1>7, <1>8 DEF Group
  <2>4. \A g : BadFields(source.groups[g])' = BadFields(source.groups[g])
    BY <1>1 DEF BadFields
  <2>5. read' \in Seq(Seq(Outcomes'))
    BY <1>3, <1>8
  <2>6. \A g \in 1 .. Len(read') :
          /\ BadFields(source.groups[g]) = {}
          /\ Len(read'[g]) = Len(source.groups[g])
          /\ \A n \in 1 .. Len(read'[g]) :
               /\ read'[g][n] = Outcome(source.groups[g][n])
               /\ Parsed(source.groups[g][n]).got = "values"
    BY <2>1, <2>2, <2>3
  <2>7. Len(read') <= Len(source.groups)
    BY <1>1, <1>5, <1>8
  <2> QED
    BY <1>1, <1>2, <2>4, <2>5, <2>6, <2>7 DEF ReadInv
<1>10. PhaseInv'
  <2>1. report = None
    BY <1>1 DEF IInv, PhaseInv
  <2> QED
    BY <1>1, <2>1 DEF IInv, PhaseInv
<1> QED
  BY <1>4, <1>9, <1>10 DEF IInv

\* The steps that leave what was read alone.
LEMMA EndKeepsIInv ==
  ASSUME IInv,
         \/ RefuseContainer \/ AbortOnKey \/ RefuseGroup \/ Generate
         \/ UNCHANGED vars
  PROVE  IInv'
<1>1. UNCHANGED <<source, read, seen, collected, default>>
  BY DEF RefuseContainer, AbortOnKey, RefuseGroup, Generate, vars
<1>2. UNCHANGED Group /\ Outcomes' = Outcomes /\ \A a : Outcome(a)' = Outcome(a)
  BY <1>1, Frame
<1>3. BadFields(Group)' = BadFields(Group)
  BY <1>2 DEF BadFields
<1>4. FoldInv'
  BY <1>1, <1>2, <1>3 DEF IInv, FoldInv
<1>5. ReadInv'
  <2>1. \A g : BadFields(source.groups[g])' = BadFields(source.groups[g])
    BY <1>1 DEF BadFields
  <2> QED
    BY <1>1, <1>2, <2>1 DEF IInv, ReadInv
<1>6. PhaseInv'
  BY <1>1, <1>2 DEF IInv, PhaseInv, RefuseContainer, AbortOnKey, RefuseGroup,
                    InGroup, Generate, vars
<1> QED
  BY <1>4, <1>5, <1>6 DEF IInv

-----------------------------------------------------------------------------

\* The strengthening holds while the attributes of a type are read (macros
\* lib.rs:272-348, :805-826).
THEOREM Invariance == Spec => []IInv
<1>1. IInv /\ [Next]_vars => IInv'
  BY ReadContainerKeepsIInv, ReadFieldKeepsIInv, FinishGroupKeepsIInv,
     EndKeepsIInv DEF Next
<1> QED
  BY InitIInv, <1>1, PTL DEF Spec

\* An abort over unreadable attributes names every such field of its struct or
\* variant, each once and in order, and nothing else (macros lib.rs:805-826).
THEOREM EveryBadFieldIsReported == Spec => []OneReportForAll
<1>1. IInv => OneReportForAll
  <2> SUFFICES ASSUME IInv, report # None
               PROVE  /\ {report[n] : n \in DOMAIN report} = BadFields(Group)
                      /\ report # <<>>
                      /\ \A m, n \in DOMAIN report : m < n => report[m] < report[n]
                      /\ \A g \in 1 .. Len(read) : BadFields(source.groups[g]) = {}
    BY DEF OneReportForAll
  <2>1. /\ report = collected.fields /\ ~ collected.ok
        /\ Len(read) < Len(source.groups) /\ seen = Len(Group)
    BY DEF IInv, PhaseInv
  <2>2. report \in Seq(Nat) /\ DOMAIN report = 1 .. Len(report)
    <3>1. report \in Seq(Nat)
      BY <2>1 DEF IInv, FoldInv
    <3> QED
      BY <3>1
  <2>3. BadFields(Group) \subseteq 1 .. seen
    BY <2>1, GroupFacts DEF BadFields
  <2>4. /\ report # <<>>
        /\ \A n \in 1 .. Len(report) : report[n] \in BadFields(Group)
        /\ \A f \in BadFields(Group) : \E n \in 1 .. Len(report) : report[n] = f
        /\ \A m, n \in 1 .. Len(report) : m < n => report[m] < report[n]
    BY <2>1, <2>3 DEF IInv, FoldInv
  <2>5. \A g \in 1 .. Len(read) : BadFields(source.groups[g]) = {}
    BY DEF IInv, ReadInv
  <2> QED
    BY <2>2, <2>4, <2>5
<1> QED
  BY <1>1, Invariance, PTL

\* What is generated for a field depends on nothing but its own attributes and
\* the container's (macros lib.rs:805-826).
THEOREM FieldsAreIndependent == Spec => []OnItsOwn
<1>1. IInv => OnItsOwn
  <2> SUFFICES ASSUME IInv, phase = "generated" PROVE OnItsOwn
    BY DEF OnItsOwn
  <2>1. /\ source.groups \in Seq(Seq(Lists)) /\ read \in Seq(Seq(Outcomes))
        /\ Len(read) = Len(source.groups)
    BY GroupFacts DEF IInv, PhaseInv, ReadInv
  <2>2. DOMAIN read = DOMAIN source.groups /\ DOMAIN read = 1 .. Len(read)
    BY <2>1
  <2>3. \A g \in DOMAIN read :
          /\ Len(read[g]) = Len(source.groups[g])
          /\ \A n \in DOMAIN read[g] : read[g][n] = Outcome(source.groups[g][n])
    <3>1. \A g \in DOMAIN read : DOMAIN read[g] = 1 .. Len(read[g])
      BY <2>1
    <3> QED
      BY <2>2, <3>1 DEF IInv, ReadInv
  <2> QED
    BY <2>2, <2>3 DEF OnItsOwn
<1> QED
  BY <1>1, Invariance, PTL

LEMMA Least ==
  ASSUME NEW S \in SUBSET Nat, S # {}
  PROVE  \E k \in S : \A j \in S : k <= j
<1> DEFINE R == {p \in Nat \X Nat : p[1] < p[2]}
<1>1. IsWellFoundedOn(R, Nat)
  BY NatLessThanWellFounded DEF OpToRel
<1>2. \E x \in S : \A y \in S : ~ (<<y, x>> \in R)
  <2> HIDE DEF R
  <2> QED
    BY <1>1, WFMin
<1>3. PICK x \in S : \A y \in S : ~ (<<y, x>> \in R)
  BY <1>2
<1>4. \A y \in S : ~ (y < x)
  BY <1>3
<1> QED
  BY <1>4

LEMMA OursFacts ==
  ASSUME NEW attrs \in Lists, FirstOurs(attrs) # 0
  PROVE  /\ FirstOurs(attrs) \in DOMAIN attrs
         /\ attrs[FirstOurs(attrs)].form \in {"unparsed", "list"}
<1> DEFINE ours == {k \in DOMAIN attrs : attrs[k].form # "skipped"}
<1>1. FirstOurs(attrs) =
        IF ours = {} THEN 0 ELSE CHOOSE k \in ours : \A j \in ours : k <= j
  BY DEF FirstOurs
<1>2. ours \in SUBSET Nat /\ ours # {}
  BY <1>1, ListsAssumption
<1>3. \E k \in ours : \A j \in ours : k <= j
  <2> HIDE DEF ours
  <2> QED
    BY <1>2, Least
<1>4. FirstOurs(attrs) \in ours
  <2> HIDE DEF ours
  <2> QED
    BY <1>1, <1>2, <1>3
<1> QED
  BY <1>4, ListsAssumption

\* Of the attributes that rule a field nothing is passed over when code is
\* generated: an entry is kept or the derive refuses (macros lib.rs:866-926).
THEOREM NothingIsPassedOver == Spec => []NothingPassedOver
<1>1. IInv => NothingPassedOver
  <2> SUFFICES ASSUME IInv, phase \in {"generated", "panicked"},
                      NEW g \in DOMAIN source.groups,
                      NEW f \in DOMAIN source.groups[g]
               PROVE  LET attrs == source.groups[g][f]
                          ours == IF FirstOurs(attrs) = 0 THEN <<>>
                                  ELSE <<attrs[FirstOurs(attrs)]>>
                      IN /\ \A k \in DOMAIN ours : ours[k].form = "list"
                         /\ \A entry \in Written(ours) :
                              entry.key \in {"field_type", "delta_leader"}
    BY DEF NothingPassedOver
  <2> DEFINE attrs == source.groups[g][f]
             attr == attrs[FirstOurs(attrs)]
             ours == IF FirstOurs(attrs) = 0 THEN <<>> ELSE <<attr>>
  <2>1. source.groups \in Seq(Seq(Lists)) /\ Len(read) = Len(source.groups)
    BY GroupFacts DEF IInv, PhaseInv
  <2>2. attrs \in Lists /\ g \in 1 .. Len(read) /\ f \in 1 .. Len(source.groups[g])
    BY <2>1
  <2>3. Parsed(attrs).got = "values"
    BY <2>2 DEF IInv, ReadInv
  <2>4. FirstOurs(attrs) = 0 \/ Understood(attrs)
    BY <2>3, ParsedFacts
  <2> HIDE DEF attrs
  <2>5. CASE FirstOurs(attrs) = 0
    <3>1. ours = <<>>
      BY <2>5
    <3>2. DOMAIN ours = {}
      BY <3>1
    <3>3. Written(ours) = {}
      BY <3>2 DEF Written
    <3> QED
      BY <3>2, <3>3 DEF attrs
  <2>6. CASE FirstOurs(attrs) # 0
    <3>1. ours = <<attr>> /\ DOMAIN ours = {1} /\ ours[1] = attr
      BY <2>6
    <3>2. ~ Unreadable(attr) /\ ~ Unrecognized(attr.entries, "field_type")
      BY <2>4, <2>6 DEF Understood
    <3>3. attr.form = "list"
      BY <2>2, <2>6, <3>2, OursFacts DEF Unreadable
    <3>4. \A n \in DOMAIN attr.entries :
            attr.entries[n].key \in {"field_type", "delta_leader"}
      BY <3>2 DEF Unrecognized
    <3> HIDE DEF attr, ours
    <3>5. \A entry \in Written(ours) : entry.key \in {"field_type", "delta_leader"}
      BY <3>1, <3>4 DEF Written
    <3>6. \A k \in DOMAIN ours : ours[k].form = "list"
      BY <3>1, <3>3
    <3> QED
      BY <3>5, <3>6 DEF attrs, attr, ours
  <2> QED
    BY <2>5, <2>6
<1> QED
  BY <1>1, Invariance, PTL
=============================================================================
