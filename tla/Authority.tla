------------------------------ MODULE Authority ------------------------------
(***************************************************************************)
(* What letting agents in comes to, and nothing about logins, codes or     *)
(* tokens.  Promised is what the documents say of it: an agent acts only   *)
(* under something a person agreed to, within what was agreed, starts      *)
(* nothing once that was taken back, and is agreed to unasked only if      *)
(* nobody ever agreed to anything for it.                                  *)
(*                                                                         *)
(* The code keeps this but for two things that a pipe does, which are no   *)
(* part of the promise and are actions of their own under Departures.      *)
(* Grants.tla implements the two together, and Promised alone it does not. *)
(***************************************************************************)

CONSTANTS
  Grant,       \* the agreements there may come to be
  Name,        \* who an agreement lets speak
  Capability,  \* what an agreement may allow
  Account,     \* and over which mail
  Call,        \* the requests agents may have under way
  None

VARIABLES
  given,     \* what each agreement now allows
  over,      \* the agreements that were taken back
  attached,  \* what the pipe is attached with, if there is one
  serving    \* what each call under way may do, and what it has answered

vars == <<given, over, attached, serving>>

Terms  == [producer : Name, capabilities : SUBSET Capability, accounts : SUBSET Account]
View   == [grant : Grant, producer : Name, capabilities : SUBSET Capability,
           accounts : SUBSET Account]
Answer == [capability : Capability, accounts : SUBSET Account]
Served == [view : View, said : Answer \cup {None}]

TypeOK ==
  /\ given \in [Grant -> Terms \cup {None}]
  /\ over \subseteq Grant
  /\ attached \in View \cup {None}
  /\ serving \in [Call -> Served \cup {None}]

Init ==
  /\ given = [g \in Grant |-> None]
  /\ over = {}
  /\ attached = None
  /\ serving = [c \in Call |-> None]

Stands(g) == given[g] # None /\ g \notin over

ViewOf(g, t) == [grant |-> g, producer |-> t.producer,
                 capabilities |-> t.capabilities, accounts |-> t.accounts]

\* A person agrees to something new.
Agree(g) ==
  /\ given[g] = None
  /\ g \notin over
  /\ given'[g] \in Terms
  /\ given' = [given EXCEPT ![g] = given'[g]]
  /\ UNCHANGED <<over, attached, serving>>

TakeBack(g) ==
  /\ Stands(g)
  /\ over' = over \cup {g}
  /\ UNCHANGED <<given, attached, serving>>

\* An account goes, and with it every agreement's hold on it.
Forget(a) ==
  /\ given' = [g \in Grant |->
       IF given[g] = None THEN None
       ELSE [given[g] EXCEPT !.accounts = @ \ {a}]]
  /\ UNCHANGED <<over, attached, serving>>

Attach(g) ==
  /\ attached = None
  /\ Stands(g)
  /\ attached' = ViewOf(g, given[g])
  /\ UNCHANGED <<given, over, serving>>

\* The agreements that speak for n.
For(n) == {g \in Grant : given[g] # None /\ given[g].producer = n}

\* The person starts a pipe for n, and that makes an agreement.
AgreeAttached(g, n) ==
  /\ attached = None
  /\ given[g] = None
  /\ g \notin over
  /\ given'[g] \in Terms
  /\ given'[g].producer = n
  /\ given' = [given EXCEPT ![g] = given'[g]]
  /\ attached' = ViewOf(g, given'[g])
  /\ UNCHANGED <<over, serving>>

AgreeAndAttach(g, n) == For(n) = {} /\ AgreeAttached(g, n)

Detach ==
  /\ attached # None
  /\ attached' = None
  /\ UNCHANGED <<given, over, serving>>

\* A call begins.
Serve(c, view) ==
  /\ serving[c] = None
  /\ serving' = [serving EXCEPT ![c] = [view |-> view, said |-> None]]
  /\ UNCHANGED <<given, over, attached>>

Begin(c, g) == Stands(g) /\ Serve(c, ViewOf(g, given[g]))

BeginAttached(c) ==
  /\ attached # None
  /\ Stands(attached.grant)
  /\ Serve(c, attached)

Say(c, x) ==
  /\ serving[c] # None
  /\ serving[c].said = None
  /\ x.capability \in serving[c].view.capabilities
  /\ x.accounts \subseteq serving[c].view.accounts
  /\ serving' = [serving EXCEPT ![c].said = x]
  /\ UNCHANGED <<given, over, attached>>

End(c) ==
  /\ serving[c] # None
  /\ serving' = [serving EXCEPT ![c] = None]
  /\ UNCHANGED <<given, over, attached>>

Promised ==
  \/ \E g \in Grant : Agree(g) \/ TakeBack(g) \/ Attach(g)
  \/ \E g \in Grant, n \in Name : AgreeAndAttach(g, n)
  \/ \E a \in Account : Forget(a)
  \/ Detach
  \/ \E c \in Call, g \in Grant : Begin(c, g)
  \/ \E c \in Call, x \in Answer : Say(c, x)
  \/ \E c \in Call : BeginAttached(c) \/ End(c)

\* Departure: a pipe goes on with what was taken back while it was open.
BeginOutlived(c) ==
  /\ attached # None
  /\ attached.grant \in over
  /\ Serve(c, attached)

\* Departure: a pipe is started for a name whose agreement was taken back,
\* and that makes a new one, of any terms, in its place.
AgreeInItsPlace(g, n) == For(n) \cap over # {} /\ AgreeAttached(g, n)

Departures ==
  \/ \E c \in Call : BeginOutlived(c)
  \/ \E g \in Grant, n \in Name : AgreeInItsPlace(g, n)

Next == Promised \/ Departures

Spec == Init /\ [][Next]_vars

=============================================================================
