------------------------------- MODULE Consent -------------------------------
(***************************************************************************)
(* What the service promises the person whose mailbox it is, and nothing   *)
(* about how: a change happens only to an item that was on a page the      *)
(* person was looking at when they said yes; they say yes to a bundle at   *)
(* most once; and what they said yes to happens at most once.              *)
(*                                                                         *)
(* Review.tla, the detailed specification, is shown to implement this one. *)
(***************************************************************************)

CONSTANTS
  Bundle,   \* the proposals
  Message,  \* what an item of a proposal is about
  Tab       \* the browser pages a person may have open

VARIABLES
  reading,  \* for each page, the items it offers for acceptance
  granted,  \* the items the person has said yes to
  effects   \* the items whose change has been made to the mailbox

vars == <<reading, granted, effects>>

Item == Bundle \X Message

TypeOK ==
  /\ reading \in [Tab -> SUBSET Item]
  /\ granted \subseteq Item
  /\ effects \subseteq Item

Init ==
  /\ reading = [t \in Tab |-> {}]
  /\ granted = {}
  /\ effects = {}

\* The items of one bundle.
ItemsOf(b, S) == {b} \X S

\* A page is drawn, over whatever the bundle holds at that moment.
Read(t, b, S) ==
  /\ reading' = [reading EXCEPT ![t] = ItemsOf(b, S)]
  /\ UNCHANGED <<granted, effects>>

\* The person accepts from a page: never anything that page was not showing,
\* and never a second time for the same bundle.
Grant(t, b, S) ==
  /\ S # {}
  /\ ItemsOf(b, S) \subseteq reading[t]
  /\ granted \cap ItemsOf(b, Message) = {}
  /\ granted' = granted \cup ItemsOf(b, S)
  /\ UNCHANGED <<reading, effects>>

\* One granted change is made, once.
Perform(x) ==
  /\ x \in granted \ effects
  /\ effects' = effects \cup {x}
  /\ UNCHANGED <<reading, granted>>

Next ==
  \/ \E t \in Tab, b \in Bundle, S \in SUBSET Message :
        Read(t, b, S) \/ Grant(t, b, S)
  \/ \E x \in Item : Perform(x)

Spec == Init /\ [][Next]_vars

=============================================================================
