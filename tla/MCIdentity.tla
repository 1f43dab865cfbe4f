----------------------------- MODULE MCIdentity -----------------------------
(***************************************************************************)
(* Instances of Identity: three originals, two unrelated events, a chain   *)
(* of two, and two events of one type that both cause a third.  Two        *)
(* dimensions stand for the five, which the code treats alike but for the  *)
(* trigger.                                                                *)
(***************************************************************************)
EXTENDS Identity, TLC

CONSTANTS e1, e2, e3, e4, v1, v2

MCDimensions == {"trigger", "business invariants"}
MCTypeOrder == << <<"crash">>, <<"retry">> >>
\* a type that contains the separator of the summary
MCTypeOrderSeparator == << <<"crash">>, <<"crash", " | ", "retry">>, <<"retry">> >>

Event_(id, type, causedBy) == [id |-> id, type |-> type, causedBy |-> causedBy]

Original(events) ==
    [trigger |-> FALSE, record |-> FALSE, events |-> events,
     lists |-> [d \in MCDimensions |-> <<v1>>]]

MCOriginals ==
    { Original(<<Event_(e1, <<"crash">>, <<>>), Event_(e2, <<"retry">>, <<>>)>>),
      Original(<<Event_(e1, <<"crash">>, <<>>), Event_(e2, <<"retry">>, <<e1>>)>>),
      Original(<<Event_(e1, <<"crash">>, <<>>), Event_(e2, <<"crash">>, <<>>),
                 Event_(e3, <<"retry">>, <<e1, e2>>)>>) }

\* the types of MCTypeOrder satisfy the hypothesis of DifferencesAreExplained
ASSUME InstanceIsPlain == TypeOrder = MCTypeOrder => PlainTypes
=============================================================================
