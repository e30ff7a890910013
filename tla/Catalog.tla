------------------------------- MODULE Catalog -------------------------------
(***************************************************************************)
(* What the package store promises an administrator, with no database, no  *)
(* files and no half-done requests: a version is published with a content  *)
(* or it is not, and a request takes effect in one step or not at all.  An *)
(* upload answered with success has taken effect; so has any other request *)
(* so answered, unless none of its versions was published.  Whether one    *)
(* was, the answer does not tell: the store may answer such a request with *)
(* success, and one that took effect with failure.                         *)
(***************************************************************************)
CONSTANTS
    Versions, Contents, Admins,
    NoContent,  \* "not published"
    SameContent \* of a request that leaves the content alone

VARIABLES
    published,  \* the content published for each version, or NoContent
    pending,    \* the request of each administrator that has not taken effect
    done,       \* the administrators whose request has taken effect,
    void,       \* and those whose request found nothing to change
    answer      \* what each administrator was told of the last request

catalogVars == <<published, pending, done, void, answer>>

Nothing == [versions |-> {}, content |-> NoContent]

Requests ==
    [versions : SUBSET Versions, content : Contents \cup {NoContent, SameContent}]

TypeOK ==
    /\ published \in [Versions -> Contents \cup {NoContent}]
    /\ pending \in [Admins -> Requests]
    /\ done \subseteq Admins /\ void \subseteq Admins
    /\ answer \in [Admins -> {"none", "success", "failure"}]

Init ==
    /\ published = [v \in Versions |-> NoContent]
    /\ pending = [a \in Admins |-> Nothing]
    /\ done = {} /\ void = {}
    /\ answer = [a \in Admins |-> "none"]

\* A request: publish one version with a content, withdraw a set of versions,
\* or describe one.
Submit(a) ==
    /\ pending[a] = Nothing /\ a \notin done \cup void
    /\ \E r \in Requests :
        /\ r.versions # {}
        /\ pending' = [pending EXCEPT ![a] = r]
    /\ answer' = [answer EXCEPT ![a] = "none"]
    /\ UNCHANGED <<published, done, void>>

TakesEffect(a) ==
    /\ pending' = [pending EXCEPT ![a] = Nothing]
    /\ done' = done \cup {a}
    /\ UNCHANGED <<void, answer>>

\* A version that is published keeps its content until it is withdrawn.
Publish(a) ==
    /\ pending[a].content \in Contents
    /\ \E v \in Versions :
        /\ pending[a].versions = {v}
        /\ published[v] = NoContent
        /\ published' = [published EXCEPT ![v] = pending[a].content]
    /\ TakesEffect(a)

IsPublished(v) == published[v] # NoContent

\* All the versions of the request or none of them.
Withdraw(a) ==
    /\ pending[a].content = NoContent
    /\ \E v \in pending[a].versions : IsPublished(v)
    /\ published' = [v \in Versions |->
                        IF v \in pending[a].versions THEN NoContent ELSE published[v]]
    /\ TakesEffect(a)

Describe(a) ==
    /\ pending[a].content = SameContent
    /\ \E v \in pending[a].versions : IsPublished(v)
    /\ UNCHANGED published
    /\ TakesEffect(a)

\* Nothing to withdraw, or to describe.
FindNothing(a) ==
    /\ pending[a] # Nothing /\ pending[a].content \notin Contents
    /\ ~ \E v \in pending[a].versions : IsPublished(v)
    /\ pending' = [pending EXCEPT ![a] = Nothing]
    /\ void' = void \cup {a}
    /\ UNCHANGED <<published, done, answer>>

Succeed(a) ==
    /\ a \in done \cup void
    /\ done' = done \ {a} /\ void' = void \ {a}
    /\ answer' = [answer EXCEPT ![a] = "success"]
    /\ UNCHANGED <<published, pending>>

Fail(a) ==
    /\ pending' = [pending EXCEPT ![a] = Nothing]
    /\ done' = done \ {a} /\ void' = void \ {a}
    /\ answer' = [answer EXCEPT ![a] = "failure"]
    /\ UNCHANGED published

\* The server goes down: what took effect stays, the requests are forgotten.
Restart ==
    /\ pending' = [a \in Admins |-> Nothing]
    /\ done' = {} /\ void' = {}
    /\ answer' = [a \in Admins |-> "none"]
    /\ UNCHANGED published

Next ==
    \/ \E a \in Admins :
        \/ Submit(a) \/ Publish(a) \/ Withdraw(a) \/ Describe(a) \/ FindNothing(a)
        \/ Succeed(a) \/ Fail(a)
    \/ Restart

Spec == Init /\ [][Next]_catalogVars
=============================================================================
