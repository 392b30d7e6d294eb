---------------------------- MODULE MCAttributes ----------------------------
(***************************************************************************)
(* Attributes on structs of up to three fields and enums of up to two      *)
(* variants of up to two, with every kind of attribute list.               *)
(***************************************************************************)
EXTENDS Attributes
LOCAL INSTANCE SequencesExt

Skipped == [form |-> "skipped", entries |-> <<>>]
Unparsed == [form |-> "unparsed", entries |-> <<>>]
List(entries) == [form |-> "list", entries |-> entries]
Is(key, value) == [key |-> key, value |-> value]

\* Behind a doc comment, or twice, or with a key of the other place.
FieldLists ==
  {<<>>,
   <<Skipped, List(<<Is("field_type", "delta")>>)>>,
   <<List(<<Is("delta_leader", "tokens")>>), List(<<Is("field_type", "delta")>>)>>,
   <<List(<<Is("field_type", "delt")>>)>>,
   <<List(<<Is("field_type", "delta"), Junk>>)>>,
   <<Unparsed>>,
   <<List(<<Is("default", "delta")>>)>>,
   <<List(<<Is("delta_leader", "("), Is("field_type", "ordered")>>)>>}

ContainerLists ==
  {<<>>,
   <<List(<<Is("default", "unordered")>>)>>,
   <<List(<<Is("default", "unord")>>)>>,
   <<List(<<Is("field_type", "ordered")>>)>>,
   <<Unparsed>>,
   <<List(<<Is("delta_leader", "(")>>)>>}

MCSources ==
  [kind : {"struct"}, container : ContainerLists,
   groups : {<<group>> : group \in BoundedSeq(FieldLists, 3)}]
    \cup
  [kind : {"enum"}, container : {<<>>, <<List(<<Is("default", "unordered")>>)>>},
   groups : BoundedSeq(BoundedSeq(FieldLists, 2), 2)]
    \cup
  [kind : {"union"}, container : ContainerLists, groups : {<<>>}]
=============================================================================
