---------------------------- MODULE SignIn_proof ----------------------------
(***************************************************************************)
(* Proofs about SignIn, for any number of threads, challenges, tokens and  *)
(* stamps and any time and number of requests.                             *)
(***************************************************************************)
EXTENDS SignIn, TLAPS

LEMMA NothingIsEmpty == DOMAIN Nothing = {}
BY DEF Nothing

LoginPc == HoldsNonce \cup {"find_nonce", "cleanup_tokens", "insert_token"}
TokenPc == {"find_token", "check_expiry"}
StampPc == InRecent \cup {"check_time"}

\* A request says what the thread that is at the label p handles.
Handled(p, r) ==
    /\ p \in ThreadPc /\ r \in Requests
    /\ p \in Free => r = NoRequest
    /\ p \in LoginPc <=> r.challenge # None
    /\ p \in TokenPc <=> r.token # None
    /\ p \in StampPc <=> r.stamp # None

\* What it is about exists.
Known(r) ==
    /\ r.challenge # None => r.challenge \in drawn
    /\ r.token # None => r.token \in DOMAIN won
    /\ r.stamp # None => r.stamp \in DOMAIN stamped

ThreadInv ==
    /\ pc \in [Threads -> ThreadPc] /\ req \in [Threads -> Requests]
    /\ clock \in [Threads -> Nat]
    /\ \A t \in Threads : Handled(pc[t], req[t]) /\ Known(req[t])

Entries == [stamp : Stamps, at : Nat, looked : Nat]
TableInv ==
    /\ now \in Nat /\ requests \in Nat
    /\ DOMAIN nonces \subseteq Challenges \cap drawn
    /\ \A c \in DOMAIN nonces : nonces[c] \in [created : Nat, used : BOOLEAN]
    /\ DOMAIN tokens \subseteq DOMAIN opened
    /\ \A k \in DOMAIN tokens : tokens[k] \in Nat
    /\ recent_nonces \in Seq(Stamps) /\ Len(recent_nonces) <= MAX_RECENT_NONCES
    /\ DOMAIN stamped \subseteq Stamps
    /\ \A s \in DOMAIN stamped : stamped[s] \in [timestamp : Int, right : BOOLEAN]
    /\ DOMAIN asked \subseteq Challenges \cap drawn
    /\ DOMAIN opened \subseteq DOMAIN won /\ DOMAIN won \subseteq Tokens \cap drawn
    /\ tried \subseteq Challenges \cap drawn
    /\ \A c \in DOMAIN asked : asked[c] \in Nat
    /\ \A k \in DOMAIN opened : opened[k] \in Nat
    /\ doubled \subseteq Challenges \cap drawn /\ looked \in [Threads -> Nat]
    /\ pushed \in Seq(Entries)

TypeInv == ThreadInv /\ TableInv

\* What only grows while a thread takes a step.
Grows ==
    /\ drawn \subseteq drawn' /\ DOMAIN won \subseteq DOMAIN won'
    /\ DOMAIN stamped \subseteq DOMAIN stamped'

LEMMA NoRequestType == NoRequest \in Requests
BY DEF NoRequest, Requests, Logins

\* A step of one thread leaves the others what they are about.
LEMMA OneThread ==
    ASSUME ThreadInv, Grows, NEW t \in Threads, NEW p, NEW r, NEW k \in Nat,
           pc' = [pc EXCEPT ![t] = p], req' = [req EXCEPT ![t] = r],
           clock' = [clock EXCEPT ![t] = k],
           Handled(p, r), Known(r)'
    PROVE  ThreadInv'
<1>1. /\ pc' \in [Threads -> ThreadPc] /\ req' \in [Threads -> Requests]
      /\ clock' \in [Threads -> Nat]
  BY DEF ThreadInv, Handled
<1>2. ASSUME NEW u \in Threads PROVE Handled(pc'[u], req'[u]) /\ Known(req[u])'
  <2>1. CASE u = t
    <3>1. pc'[u] = p /\ req'[u] = r
      BY <2>1 DEF ThreadInv
    <3> QED BY <3>1 DEF Known
  <2>2. CASE u # t
    <3>1. pc'[u] = pc[u] /\ req'[u] = req[u] /\ Handled(pc[u], req[u]) /\ Known(req[u])
      BY <2>2 DEF ThreadInv
    <3> QED BY <3>1 DEF Known, Grows
  <2> QED BY <2>1, <2>2
<1> QED BY <1>1, <1>2 DEF ThreadInv

\* The labels between which a handler goes on.
SameKind(from, to) ==
    /\ to \in ThreadPc \ Free
    /\ from \in LoginPc <=> to \in LoginPc
    /\ from \in TokenPc <=> to \in TokenPc
    /\ from \in StampPc <=> to \in StampPc

LEMMA StepThreads ==
    ASSUME ThreadInv, Grows, now \in Nat, NEW t \in Threads, NEW from, NEW to,
           Step(t, from, to), SameKind(from, to), UNCHANGED clock \/ ReadClock(t)
    PROVE  ThreadInv'
<1>1. pc[t] = from /\ pc' = [pc EXCEPT ![t] = to] /\ req' = req
  BY DEF Step, Goto
<1>2. req' = [req EXCEPT ![t] = req[t]] /\ Handled(from, req[t]) /\ Known(req[t])
  BY <1>1 DEF ThreadInv
<1>3. Handled(to, req[t]) /\ Known(req[t])'
  BY <1>1, <1>2 DEF Handled, Known, SameKind, Grows
<1>4. PICK k \in Nat : clock' = [clock EXCEPT ![t] = k]
  <2>1. CASE UNCHANGED clock
    BY <2>1 DEF ThreadInv
  <2>2. CASE ReadClock(t)
    BY <2>2 DEF ReadClock
  <2> QED BY <2>1, <2>2
<1> QED BY <1>1, <1>2, <1>3, <1>4, OneThread

LEMMA AnswerThreads ==
    ASSUME ThreadInv, Grows, NEW t \in Threads, NEW from, NEW label \in Free,
           Answer(t, from, label)
    PROVE  ThreadInv'
<1>1. /\ pc' = [pc EXCEPT ![t] = label] /\ req' = [req EXCEPT ![t] = NoRequest]
      /\ clock' = [clock EXCEPT ![t] = 0]
  BY DEF Answer, Goto
<1>2. Handled(label, NoRequest)
  BY NoRequestType DEF Handled, NoRequest, ThreadPc, Free, LoginPc, TokenPc, StampPc, HoldsNonce,
     InNonces, InTokens, InRecent
<1>3. Known(NoRequest)'
  BY DEF Known, NoRequest
<1> QED BY <1>1, <1>2, <1>3, OneThread

LEMMA ArriveThreads ==
    ASSUME ThreadInv, Grows, NEW t \in Threads, NEW r, NEW label,
           Arrive(t, r, label), Handled(label, r), Known(r)'
    PROVE  ThreadInv'
<1>1. /\ pc' = [pc EXCEPT ![t] = label] /\ req' = [req EXCEPT ![t] = r]
      /\ clock' = clock
  BY DEF Arrive, Goto
<1>2. clock' = [clock EXCEPT ![t] = clock[t]] /\ clock[t] \in Nat
  BY <1>1 DEF ThreadInv
<1> QED BY <1>1, <1>2, OneThread

-----------------------------------------------------------------------------
(* Type correctness                                                        *)

Labels == Free \cup LoginPc \cup TokenPc \cup StampPc \cup {"cleanup_nonces", "insert_nonce"}

\* The window after a stamp was entered.
LEMMA PushedType ==
    ASSUME NEW w \in Seq(Stamps), Len(w) <= MAX_RECENT_NONCES, NEW s \in Stamps
    PROVE  /\ Pushed(w, s) \in Seq(Stamps) /\ Len(Pushed(w, s)) <= MAX_RECENT_NONCES
           /\ \A i \in DOMAIN Pushed(w, s) :
                    Pushed(w, s)[i] = s \/ \E j \in DOMAIN w : Pushed(w, s)[i] = w[j]
<1> DEFINE a == Append(w, s)
<1>1. a \in Seq(Stamps) /\ Len(a) = Len(w) + 1 /\ Len(w) \in Nat /\ MAX_RECENT_NONCES \in Nat
  BY SignInAssumption
<1>2. \A i \in 1 .. Len(a) : a[i] = s \/ \E j \in DOMAIN w : a[i] = w[j]
  OBVIOUS
<1> HIDE DEF a
<1>3. CASE Len(w) >= MAX_RECENT_NONCES
  <2>1. Pushed(w, s) = Tail(a)
    BY <1>3 DEF Pushed, a
  <2>2. Tail(a) \in Seq(Stamps) /\ Len(Tail(a)) = Len(w)
    BY <1>1
  <2>3. \A i \in DOMAIN Tail(a) : Tail(a)[i] = a[i + 1] /\ i + 1 \in 1 .. Len(a)
    BY <1>1
  <2>4. Len(Tail(a)) <= MAX_RECENT_NONCES
    BY <2>2
  <2> QED BY <1>2, <2>1, <2>2, <2>3, <2>4
<1>4. CASE ~ (Len(w) >= MAX_RECENT_NONCES)
  <2>1. Pushed(w, s) = a
    BY <1>4 DEF Pushed, a
  <2>2. Len(a) <= MAX_RECENT_NONCES
    BY <1>1, <1>4
  <2> QED BY <1>1, <1>2, <2>1, <2>2
<1> QED BY <1>3, <1>4

LEMMA ArrivalsType ==
    ASSUME TypeInv, NEW t \in Threads, Arrivals(t)
    PROVE  TypeInv'
<1> USE DEF TypeInv
<1>1. ASSUME NEW r, NEW label, Arrive(t, r, label) PROVE now' = now /\ requests' \in Nat
                /\ UNCHANGED <<nonces, tokens, recent_nonces, drawn, asked, tried, won, opened, doubled, looked, pushed>>
  BY <1>1 DEF Arrive, TableInv, tables, history
<1>2. CASE AskChallenge(t)
  <2>1. Arrive(t, NoRequest, "cleanup_nonces") /\ UNCHANGED stamped
    BY <1>2 DEF AskChallenge
  <2>2. Grows
    BY <1>1, <2>1 DEF Grows
  <2>3. Handled("cleanup_nonces", NoRequest) /\ Known(NoRequest)'
    BY NoRequestType DEF Handled, Known, NoRequest, ThreadPc, Free, LoginPc, TokenPc, StampPc,
       HoldsNonce, InNonces, InTokens, InRecent
  <2>4. ThreadInv'
    BY <2>1, <2>2, <2>3, ArriveThreads
  <2> QED BY <1>1, <2>1, <2>4 DEF TableInv
<1>3. CASE PostLogin(t)
  <2>1. PICK c \in Challenges \cap drawn, login \in Logins :
            /\ Arrive(t, [NoRequest EXCEPT !.challenge = c, !.login = login], "find_nonce")
            /\ UNCHANGED stamped
    BY <1>3 DEF PostLogin
  <2> DEFINE r == [NoRequest EXCEPT !.challenge = c, !.login = login]
  <2>2. Grows
    BY <1>1, <2>1 DEF Grows
  <2>3. r \in Requests /\ r.challenge = c /\ r.token = None /\ r.stamp = None /\ c # None
    BY NoRequestType, SignInAssumption DEF NoRequest, Requests
  <2>4. Handled("find_nonce", r) /\ Known(r)'
    BY <2>2, <2>3 DEF Handled, Known, ThreadPc, Free, LoginPc, TokenPc, StampPc,
       HoldsNonce, InNonces, InTokens, InRecent, Grows
  <2>5. ThreadInv'
    BY <2>1, <2>2, <2>4, ArriveThreads
  <2> QED BY <1>1, <2>1, <2>5 DEF TableInv
<1>4. CASE UseToken(t)
  <2>1. PICK k \in DOMAIN won : /\ Arrive(t, [NoRequest EXCEPT !.token = k], "find_token")
                                /\ UNCHANGED stamped
    BY <1>4 DEF UseToken
  <2> DEFINE r == [NoRequest EXCEPT !.token = k]
  <2>2. Grows
    BY <1>1, <2>1 DEF Grows
  <2>3. r \in Requests /\ r.challenge = None /\ r.token = k /\ r.stamp = None /\ k # None
    BY NoRequestType, SignInAssumption DEF NoRequest, Requests, TableInv
  <2>4. Handled("find_token", r) /\ Known(r)'
    BY <2>2, <2>3 DEF Handled, Known, ThreadPc, Free, LoginPc, TokenPc, StampPc,
       HoldsNonce, InNonces, InTokens, InRecent, Grows
  <2>5. ThreadInv'
    BY <2>1, <2>2, <2>4, ArriveThreads
  <2> QED BY <1>1, <2>1, <2>5 DEF TableInv
<1>5. CASE SendStamped(t)
  <2>1. PICK s \in Stamps :
            /\ Arrive(t, [NoRequest EXCEPT !.stamp = s], "check_time")
            /\ \/ s \in DOMAIN stamped /\ UNCHANGED stamped
               \/ \E skew \in Skews, right \in BOOLEAN :
                     stamped' = Put(stamped, s, [timestamp |-> now + skew, right |-> right])
    BY <1>5 DEF SendStamped
  <2> DEFINE r == [NoRequest EXCEPT !.stamp = s]
  <2> DEFINE SaysMore ==
        /\ DOMAIN stamped \subseteq DOMAIN stamped' /\ s \in DOMAIN stamped'
        /\ DOMAIN stamped' \subseteq Stamps
        /\ \A x \in DOMAIN stamped' : stamped'[x] \in [timestamp : Int, right : BOOLEAN]
  <2>2. SaysMore
    <3>1. CASE s \in DOMAIN stamped /\ UNCHANGED stamped
      BY <3>1 DEF TableInv
    <3>2. ASSUME NEW skew \in Skews, NEW right \in BOOLEAN,
                 stamped' = Put(stamped, s, [timestamp |-> now + skew, right |-> right])
          PROVE  SaysMore
      <4>1. PICK e \in [timestamp : Int, right : BOOLEAN] : stamped' = Put(stamped, s, e)
        <5>1. now \in Int /\ skew \in Int
          BY SignInAssumption DEF TableInv
        <5>2. now + skew \in Int
          BY <5>1
        <5>3. [timestamp |-> now + skew, right |-> right] \in [timestamp : Int, right : BOOLEAN]
          BY <5>2
        <5> QED BY <3>2, <5>3
      <4>2. DOMAIN stamped' = DOMAIN stamped \cup {s} /\ stamped'[s] = e
        BY <4>1 DEF Put
      <4>3. \A x \in DOMAIN stamped : x # s => stamped'[x] = stamped[x]
        BY <4>1 DEF Put
      <4> QED BY <4>1, <4>2, <4>3 DEF TableInv
    <3> QED BY <2>1, <3>1, <3>2
  <2>3. Grows
    BY <1>1, <2>1, <2>2 DEF Grows
  <2>4. r \in Requests /\ r.challenge = None /\ r.token = None /\ r.stamp = s /\ s # None
    BY NoRequestType, SignInAssumption DEF NoRequest, Requests
  <2>5. Handled("check_time", r) /\ Known(r)'
    BY <2>2, <2>4 DEF Handled, Known, ThreadPc, Free, LoginPc, TokenPc, StampPc,
       HoldsNonce, InNonces, InTokens, InRecent, Grows
  <2>6. ThreadInv'
    BY <2>1, <2>3, <2>5, ArriveThreads
  <2> QED BY <1>1, <2>1, <2>2, <2>6 DEF TableInv
<1> QED BY <1>2, <1>3, <1>4, <1>5 DEF Arrivals

\* The labels a handler goes from and to are about the same thing.
LEMMA Kinds ==
    /\ SameKind("cleanup_nonces", "insert_nonce")
    /\ SameKind("find_nonce", "check_used") /\ SameKind("check_used", "check_age")
    /\ SameKind("check_age", "mark_used") /\ SameKind("mark_used", "cleanup_tokens")
    /\ SameKind("cleanup_tokens", "insert_token")
    /\ SameKind("find_token", "check_expiry")
    /\ SameKind("check_time", "find_stamp") /\ SameKind("find_stamp", "push_stamp")
BY DEF SameKind, ThreadPc, Free, LoginPc, TokenPc, StampPc, HoldsNonce, InNonces, InTokens, InRecent

\* What each step of a handler leaves alone.
Quiet == UNCHANGED <<now, requests, stamped>>

LEMMA HandlesThreads ==
    ASSUME TypeInv, NEW t \in Threads, Handles(t), Grows
    PROVE  ThreadInv' /\ Quiet
<1> USE Kinds DEF TypeInv
<1>0. now \in Nat /\ "refused" \in Free /\ "accepted" \in Free
  BY DEF TableInv, Free
<1>1. ASSUME NEW from, NEW to, Step(t, from, to), SameKind(from, to), UNCHANGED clock \/ ReadClock(t)
      PROVE  ThreadInv' /\ Quiet
  <2>1. ThreadInv'
    BY <1>0, <1>1, StepThreads
  <2> QED BY <1>1, <2>1 DEF Step, outside, Quiet
<1>2. ASSUME NEW from, NEW label \in Free, Answer(t, from, label)
      PROVE  ThreadInv' /\ Quiet
  <2>1. ThreadInv'
    BY <1>2, AnswerThreads
  <2> QED BY <1>2, <2>1 DEF Answer, outside, Quiet
<1>3. CASE CleanupNonces(t) \/ InsertNonce(t) \/ FindNonce(t)
  BY <1>0, <1>1, <1>2, <1>3 DEF CleanupNonces, InsertNonce, FindNonce
<1>4. CASE CheckUsed(t) \/ CheckAge(t)
  BY <1>0, <1>1, <1>2, <1>4 DEF CheckUsed, CheckAge, RefuseNonce, tables
<1>5. CASE MarkUsed(t)
  BY <1>0, <1>1, <1>2, <1>5 DEF MarkUsed, LoginOrNot
<1>6. CASE CleanupTokens(t) \/ InsertToken(t) \/ FindToken(t) \/ CheckExpiry(t)
  BY <1>0, <1>1, <1>2, <1>6 DEF CleanupTokens, InsertToken, FindToken, CheckExpiry
<1>7. CASE CheckTime(t) \/ FindStamp(t)
  BY <1>0, <1>1, <1>2, <1>7 DEF CheckTime, FindStamp
<1>8. CASE PushStamp(t)
  BY <1>0, <1>2, <1>8 DEF PushStamp
<1>9. CASE UseErasedNonce(t)
  BY <1>0, <1>1, <1>2, <1>9 DEF UseErasedNonce, LoginOrNot
<1>10. CASE UseErasedToken(t)
  BY <1>0, <1>2, <1>10 DEF UseErasedToken
<1> QED BY <1>3, <1>4, <1>5, <1>6, <1>7, <1>8, <1>9, <1>10 DEF Handles

\* The thread that handles something is at a label for it.
LEMMA HandledIs ==
    ASSUME ThreadInv, NEW t \in Threads
    PROVE  /\ req[t] \in Requests /\ clock[t] \in Nat
           /\ pc[t] \in LoginPc => req[t].challenge \in Challenges \cap drawn
           /\ pc[t] \in TokenPc => req[t].token \in DOMAIN won
           /\ pc[t] \in StampPc => req[t].stamp \in Stamps \cap DOMAIN stamped
BY SignInAssumption DEF ThreadInv, Handled, Known, Requests

LEMMA HandlesTables ==
    ASSUME TypeInv, NEW t \in Threads, Handles(t)
    PROVE  TableInv' /\ Grows
<1> USE DEF TypeInv
<1>1. ASSUME NEW from, NEW to, Step(t, from, to) PROVE pc[t] = from /\ Quiet
  BY <1>1 DEF Step, Quiet, outside
<1>2. ASSUME NEW from, NEW label, Answer(t, from, label) PROVE pc[t] = from /\ Quiet
  BY <1>2 DEF Answer, Quiet, outside
<1> USE DEF Quiet, tables, history
<1>3. CASE FindNonce(t) \/ FindToken(t) \/ CheckTime(t) \/ UseErasedToken(t)
  BY <1>1, <1>2, <1>3 DEF FindNonce, FindToken, CheckTime, UseErasedToken, TableInv, Grows
<1>14. CASE FindStamp(t)
  <2>1. Quiet /\ UNCHANGED <<tables, drawn, torn, asked, tried, won, opened, doubled, pushed>>
    BY <1>1, <1>2, <1>14 DEF FindStamp
  <2>2. looked' \in [Threads -> Nat]
    BY <1>14 DEF FindStamp, TableInv, Entries
  <2> QED BY <2>1, <2>2 DEF TableInv, Grows
<1>4. CASE CleanupNonces(t)
  <2>1. /\ DOMAIN nonces' \subseteq DOMAIN nonces
        /\ \A c \in DOMAIN nonces' : nonces'[c] = nonces[c]
    BY <1>4 DEF CleanupNonces, Keep
  <2> QED BY <1>1, <1>4, <2>1 DEF CleanupNonces, TableInv, Grows
<1>5. CASE InsertNonce(t)
  <2>1. PICK c \in Challenges \ drawn :
            /\ Answer(t, "insert_nonce", "accepted")
            /\ nonces' = Put(nonces, c, [created |-> now, used |-> FALSE])
            /\ drawn' = drawn \cup {c} /\ asked' = Put(asked, c, now)
            /\ UNCHANGED <<tokens, recent_nonces, torn, tried, won, opened, doubled, looked, pushed>>
    BY <1>5 DEF InsertNonce
  <2>2. /\ DOMAIN nonces' = DOMAIN nonces \cup {c}
        /\ nonces'[c] = [created |-> now, used |-> FALSE]
        /\ \A x \in DOMAIN nonces : x # c => nonces'[x] = nonces[x]
    BY <2>1 DEF Put
  <2>3. /\ DOMAIN asked' = DOMAIN asked \cup {c}
        /\ asked'[c] = now
        /\ \A x \in DOMAIN asked : x # c => asked'[x] = asked[x]
    BY <2>1 DEF Put
  <2>4. [created |-> now, used |-> FALSE] \in [created : Nat, used : BOOLEAN]
    BY DEF TableInv
  <2> QED BY <1>2, <2>1, <2>2, <2>3, <2>4 DEF TableInv, Grows
<1>6. CASE CheckUsed(t) \/ CheckAge(t)
  <2>1. CASE UNCHANGED <<tables, drawn, torn, history>>
    BY <1>1, <1>2, <1>6, <2>1 DEF CheckUsed, CheckAge, RefuseNonce, TableInv, Grows
  <2>3. CASE /\ Step(t, "check_used", "check_age") /\ doubled' \subseteq doubled \cup {req[t].challenge}
             /\ UNCHANGED <<tables, drawn, torn, asked, tried, won, opened, looked, pushed>>
    <3>1. req[t].challenge \in Challenges \cap drawn
      BY <1>1, <2>3, HandledIs DEF LoginPc, HoldsNonce
    <3> QED BY <1>1, <2>3, <3>1 DEF TableInv, Grows
  <2>2. CASE RefuseNonce(t, pc[t])
    <3>1. /\ DOMAIN nonces' \subseteq DOMAIN nonces
          /\ \A c \in DOMAIN nonces' : nonces'[c] = nonces[c]
      BY <2>2 DEF RefuseNonce, Keep, Erase
    <3> QED BY <1>2, <2>2, <3>1 DEF RefuseNonce, TableInv, Grows
  <2> QED BY <1>6, <2>1, <2>2, <2>3 DEF CheckUsed, CheckAge, RefuseNonce, Answer
<1>7. ASSUME LoginOrNot(t) PROVE /\ Quiet /\ Grows /\ pc[t] = "mark_used"
                                /\ tried' \subseteq Challenges \cap drawn'
                                /\ UNCHANGED <<tokens, recent_nonces, drawn, asked, won, opened, doubled, looked, pushed>>
  <2>1. pc[t] = "mark_used" /\ Quiet
    BY <1>1, <1>2, <1>7 DEF LoginOrNot
  <2>2. req[t].challenge \in Challenges \cap drawn
    BY <2>1, HandledIs DEF LoginPc, HoldsNonce
  <2> QED BY <1>7, <2>1, <2>2 DEF LoginOrNot, Grows, TableInv
<1>8. CASE MarkUsed(t)
  <2>1. LoginOrNot(t) /\ nonces' = [nonces EXCEPT ![req[t].challenge].used = TRUE]
    BY <1>8 DEF MarkUsed
  <2>2. \A c \in DOMAIN nonces : nonces'[c] \in [created : Nat, used : BOOLEAN]
    BY <2>1 DEF TableInv
  <2> QED BY <1>7, <2>1, <2>2 DEF TableInv
<1>9. CASE CleanupTokens(t)
  <2>1. /\ DOMAIN tokens' \subseteq DOMAIN tokens
        /\ \A k \in DOMAIN tokens' : tokens'[k] = tokens[k]
    BY <1>9 DEF CleanupTokens, Keep
  <2> QED BY <1>1, <1>9, <2>1 DEF CleanupTokens, TableInv, Grows
<1>10. CASE InsertToken(t)
  <2>1. PICK k \in Tokens \ drawn :
            /\ Answer(t, "insert_token", "accepted")
            /\ tokens' = Put(tokens, k, clock[t] + TokenLife)
            /\ drawn' = drawn \cup {k}
            /\ won' = Put(won, k, req[t].challenge) /\ opened' = Put(opened, k, clock[t])
            /\ UNCHANGED <<nonces, recent_nonces, torn, asked, tried, doubled, looked, pushed>>
    BY <1>10 DEF InsertToken
  <2>2. clock[t] \in Nat /\ clock[t] + TokenLife \in Nat
    BY HandledIs, SignInAssumption
  <2>3. /\ DOMAIN tokens' = DOMAIN tokens \cup {k} /\ tokens'[k] = clock[t] + TokenLife
        /\ \A x \in DOMAIN tokens : x # k => tokens'[x] = tokens[x]
    BY <2>1 DEF Put
  <2>4. /\ DOMAIN opened' = DOMAIN opened \cup {k} /\ opened'[k] = clock[t]
        /\ \A x \in DOMAIN opened : x # k => opened'[x] = opened[x]
    BY <2>1 DEF Put
  <2>5. DOMAIN won' = DOMAIN won \cup {k}
    BY <2>1 DEF Put
  <2> QED BY <1>2, <2>1, <2>2, <2>3, <2>4, <2>5 DEF TableInv, Grows
<1>11. CASE CheckExpiry(t)
  <2>1. /\ DOMAIN tokens' \subseteq DOMAIN tokens
        /\ \A k \in DOMAIN tokens' : tokens'[k] = tokens[k]
    BY <1>11 DEF CheckExpiry, Keep, Erase
  <2> QED BY <1>2, <1>11, <2>1 DEF CheckExpiry, TableInv, Grows
<1>12. CASE PushStamp(t)
  <2> DEFINE s == req[t].stamp
  <2>1. /\ pc[t] = "push_stamp" /\ Quiet
        /\ recent_nonces' = Pushed(recent_nonces, s)
        /\ pushed' = Append(pushed, [stamp |-> s, at |-> clock[t], looked |-> looked[t]])
        /\ looked' = [looked EXCEPT ![t] = 0]
        /\ UNCHANGED <<nonces, tokens, drawn, torn, asked, tried, won, opened, doubled>>
    BY <1>2, <1>12 DEF PushStamp
  <2>2. s \in Stamps /\ clock[t] \in Nat /\ looked[t] \in Nat
    BY <2>1, HandledIs DEF StampPc, InRecent, TableInv
  <2>3. recent_nonces' \in Seq(Stamps) /\ Len(recent_nonces)' <= MAX_RECENT_NONCES
    BY <2>1, <2>2, PushedType DEF TableInv
  <2>4. pushed' \in Seq(Entries)
    BY <2>1, <2>2 DEF TableInv, Entries
  <2>5. looked' \in [Threads -> Nat]
    BY <2>1 DEF TableInv
  <2> QED BY <2>1, <2>3, <2>4, <2>5 DEF TableInv, Grows
<1>13. CASE UseErasedNonce(t)
  <2>1. CASE LoginOrNot(t) /\ UNCHANGED nonces
    BY <1>7, <2>1 DEF TableInv
  <2>2. CASE UNCHANGED <<tables, drawn, history>>
    BY <1>1, <1>2, <1>13, <2>2 DEF UseErasedNonce, LoginOrNot, TableInv, Grows
  <2> QED BY <1>13, <2>1, <2>2 DEF UseErasedNonce
<1> QED BY <1>3, <1>4, <1>5, <1>6, <1>8, <1>9, <1>10, <1>11, <1>12, <1>13, <1>14 DEF Handles

LEMMA RestartType == ASSUME TypeInv, Restart PROVE TypeInv'
<1> USE DEF TypeInv
<1>1. ThreadInv'
  <2>1. Handled("idle", NoRequest)
    BY NoRequestType DEF Handled, NoRequest, ThreadPc, Free, LoginPc, TokenPc, StampPc, HoldsNonce,
       InNonces, InTokens, InRecent
  <2>2. "idle" \in ThreadPc /\ NoRequest \in Requests /\ Known(NoRequest)'
    BY <2>1 DEF Handled, Known, NoRequest
  <2> QED BY <2>1, <2>2 DEF Restart, ThreadInv
<1>2. TableInv'
  BY SignInAssumption, NothingIsEmpty DEF Restart, TableInv, outside
<1> QED BY <1>1, <1>2

LEMMA LoseEntryType == ASSUME TypeInv, LoseEntry PROVE TypeInv'
<1> USE DEF TypeInv
<1>1. ThreadInv'
  BY DEF LoseEntry, ThreadInv, Known, threadVars, outside, history
<1>2. /\ DOMAIN nonces' \subseteq DOMAIN nonces /\ DOMAIN tokens' \subseteq DOMAIN tokens
      /\ \A c \in DOMAIN nonces' : nonces'[c] = nonces[c]
      /\ \A k \in DOMAIN tokens' : tokens'[k] = tokens[k]
  BY DEF LoseEntry, Erase, Keep
<1>3. recent_nonces' \in Seq(Stamps) /\ Len(recent_nonces)' <= MAX_RECENT_NONCES
  <2>1. CASE recent_nonces' = recent_nonces
    BY <2>1 DEF TableInv
  <2>2. CASE recent_nonces # <<>> /\ recent_nonces' = Tail(recent_nonces)
    <3>1. Len(recent_nonces)' = Len(recent_nonces) - 1 /\ Len(recent_nonces) \in Nat
      BY <2>2 DEF TableInv
    <3>2. recent_nonces' \in Seq(Stamps)
      BY <2>2 DEF TableInv
    <3> QED BY <3>1, <3>2, SignInAssumption DEF TableInv
  <2> QED BY <2>1, <2>2 DEF LoseEntry
<1>4. TableInv'
  BY <1>2, <1>3 DEF LoseEntry, TableInv, outside, history
<1> QED BY <1>1, <1>4

LEMMA TypeNext == TypeInv /\ [Next]_vars => TypeInv'
<1> SUFFICES ASSUME TypeInv, [Next]_vars PROVE TypeInv'
  OBVIOUS
<1>1. CASE UNCHANGED vars
  BY <1>1 DEF vars, tables, threadVars, outside, history, TypeInv, ThreadInv, TableInv, Known
<1>2. ASSUME NEW t \in Threads, Arrivals(t) PROVE TypeInv'
  BY <1>2, ArrivalsType
<1>3. ASSUME NEW t \in Threads, Handles(t) PROVE TypeInv'
  BY <1>3, HandlesTables, HandlesThreads DEF TypeInv
<1>4. ASSUME NEW t \in Threads, NEW u \in Threads, Meet(t, u) PROVE TypeInv'
  BY <1>4 DEF Meet, tables, threadVars, outside, history, TypeInv, ThreadInv, TableInv, Known
<1>5. CASE LoseEntry
  BY <1>5, LoseEntryType
<1>6. CASE Restart
  BY <1>6, RestartType
<1>7. CASE Tick
  BY <1>7 DEF Tick, tables, threadVars, history, TypeInv, ThreadInv, TableInv, Known
<1> QED BY <1>1, <1>2, <1>3, <1>4, <1>5, <1>6, <1>7 DEF Next

LEMMA TypeInit == Init => TypeInv
<1> SUFFICES ASSUME Init PROVE TypeInv
  OBVIOUS
<1>1. ThreadInv
  <2>1. Handled("idle", NoRequest) /\ Known(NoRequest)
    BY NoRequestType DEF Handled, Known, NoRequest, ThreadPc, Free, LoginPc, TokenPc, StampPc,
       HoldsNonce, InNonces, InTokens, InRecent
  <2> QED BY <2>1 DEF Init, ThreadInv, Handled
<1>2. TableInv
  BY SignInAssumption, NothingIsEmpty DEF Init, TableInv
<1> QED BY <1>1, <1>2 DEF TypeInv

\* For any number of threads: a busy thread has a request of its kind, and the
\* tables hold only what was drawn.
THEOREM TypeCorrect == Spec => []TypeOK
<1>1. TypeInv => TypeOK
  BY DEF TypeInv, ThreadInv, TableInv, TypeOK, Handled
<1> QED BY <1>1, TypeInit, TypeNext, PTL DEF Spec

-----------------------------------------------------------------------------
(* Sessions                                                                *)

\* A session is in the table until it is 24 hours old, and with its own end.
SessionInv ==
    /\ \A k \in DOMAIN tokens : tokens[k] = opened[k] + TokenLife
    /\ "tokens" \notin torn =>
          \A k \in DOMAIN opened : k \in DOMAIN tokens \/ now - opened[k] > TokenLife

LEMMA SessionNext == TypeInv /\ SessionInv /\ [Next]_vars => SessionInv'
<1> SUFFICES ASSUME TypeInv, SessionInv, [Next]_vars PROVE SessionInv'
  OBVIOUS
<1> USE DEF TypeInv
<1>1. /\ now \in Nat /\ TokenLife \in Nat /\ DOMAIN tokens \subseteq DOMAIN opened
      /\ \A k \in DOMAIN opened : opened[k] \in Nat
  BY SignInAssumption DEF TableInv
<1>2. CASE UNCHANGED <<tokens, opened, now>> /\ torn \subseteq torn'
  BY <1>2 DEF SessionInv
<1>3. ASSUME NEW t \in Threads, Arrivals(t) PROVE SessionInv'
  BY <1>2, <1>3 DEF Arrivals, AskChallenge, PostLogin, UseToken, SendStamped, Arrive, tables, history
<1>4. ASSUME NEW t \in Threads, CleanupTokens(t) PROVE SessionInv'
  <2>1. /\ DOMAIN tokens' = {k \in DOMAIN tokens : now <= tokens[k]}
        /\ \A k \in DOMAIN tokens' : tokens'[k] = tokens[k]
        /\ UNCHANGED <<opened, now, torn>>
    BY <1>4 DEF CleanupTokens, Keep, Step, outside, history
  <2> QED BY <1>1, <2>1 DEF SessionInv
<1>5. ASSUME NEW t \in Threads, CheckExpiry(t) PROVE SessionInv'
  <2>1. UNCHANGED <<opened, now, torn>>
    BY <1>5 DEF CheckExpiry, Answer, outside, history
  <2>2. CASE UNCHANGED tokens
    BY <1>2, <2>1, <2>2
  <2>3. CASE now > tokens[req[t].token] /\ tokens' = Erase(tokens, req[t].token)
    <3>1. /\ DOMAIN tokens' = DOMAIN tokens \ {req[t].token}
          /\ \A k \in DOMAIN tokens' : tokens'[k] = tokens[k]
      BY <2>3 DEF Erase, Keep
    <3> QED BY <1>1, <2>1, <2>3, <3>1 DEF SessionInv
  <2> QED BY <1>5, <2>2, <2>3 DEF CheckExpiry
<1>6. ASSUME NEW t \in Threads, InsertToken(t) PROVE SessionInv'
  <2>1. PICK k \in Tokens \ drawn :
            /\ tokens' = Put(tokens, k, clock[t] + TokenLife)
            /\ opened' = Put(opened, k, clock[t])
            /\ UNCHANGED <<now, torn>>
    BY <1>6 DEF InsertToken, Answer, outside
  <2>2. /\ DOMAIN tokens' = DOMAIN tokens \cup {k} /\ tokens'[k] = clock[t] + TokenLife
        /\ \A x \in DOMAIN tokens : x # k => tokens'[x] = tokens[x]
    BY <2>1 DEF Put
  <2>3. /\ DOMAIN opened' = DOMAIN opened \cup {k} /\ opened'[k] = clock[t]
        /\ \A x \in DOMAIN opened : x # k => opened'[x] = opened[x]
    BY <2>1 DEF Put
  <2> QED BY <1>1, <2>1, <2>2, <2>3 DEF SessionInv
<1>7. ASSUME NEW t \in Threads, Handles(t) PROVE SessionInv'
  <2>1. CASE \/ CleanupNonces(t) \/ InsertNonce(t) \/ FindNonce(t) \/ CheckUsed(t) \/ CheckAge(t)
             \/ MarkUsed(t) \/ FindToken(t) \/ CheckTime(t) \/ FindStamp(t) \/ PushStamp(t)
    BY <1>2, <2>1 DEF CleanupNonces, InsertNonce, FindNonce, CheckUsed, CheckAge, RefuseNonce, MarkUsed,
       LoginOrNot, FindToken, CheckTime, FindStamp, PushStamp, Step, Answer, tables, outside, history
  <2>2. CASE UseErasedNonce(t) \/ UseErasedToken(t)
    BY <1>2, <2>2 DEF UseErasedNonce, UseErasedToken, LoginOrNot, Step, Answer, tables, outside, history
  <2> QED BY <1>4, <1>5, <1>6, <1>7, <2>1, <2>2 DEF Handles
<1>8. ASSUME NEW t \in Threads, NEW u \in Threads, Meet(t, u) PROVE SessionInv'
  BY <1>2, <1>8 DEF Meet, tables, outside, history
<1>9. CASE LoseEntry
  <2>1. UNCHANGED <<opened, now, torn>>
    BY <1>9 DEF LoseEntry, outside, history
  <2>2. CASE UNCHANGED tokens
    BY <1>2, <2>1, <2>2
  <2>3. ASSUME "tokens" \in torn, NEW k \in DOMAIN tokens, tokens' = Erase(tokens, k) PROVE SessionInv'
    BY <2>1, <2>3 DEF SessionInv, Erase, Keep
  <2> QED BY <1>9, <2>2, <2>3 DEF LoseEntry
<1>10. CASE Restart
  BY <1>10, NothingIsEmpty DEF Restart, SessionInv
<1>11. CASE Tick
  <2>1. now' = now + 1 /\ UNCHANGED <<tokens, opened, torn>>
    BY <1>11 DEF Tick, tables, history
  <2> QED BY <1>1, <2>1 DEF SessionInv
<1>12. CASE UNCHANGED vars
  BY <1>2, <1>12 DEF vars, tables, outside, history
<1> QED BY <1>3, <1>7, <1>8, <1>9, <1>10, <1>11, <1>12 DEF Next

LEMMA AlwaysSession == Spec => [](TypeInv /\ SessionInv)
<1>1. Init => SessionInv
  BY NothingIsEmpty DEF Init, SessionInv
<1> QED BY <1>1, TypeInit, TypeNext, SessionNext, PTL DEF Spec

\* A request is answered by a step of its own thread.
LEMMA OwnAnswer ==
    ASSUME ThreadInv, Next, NEW t \in Threads, pc[t] \notin Free, pc'[t] \in {"accepted", "refused"}
    PROVE  Handles(t)
<1> DEFINE Moves(u) == \E label : pc' = [pc EXCEPT ![u] = label]
<1>1. pc'[t] # pc[t] /\ pc \in [Threads -> ThreadPc]
  BY DEF ThreadInv, Free
<1>2. ASSUME NEW u \in Threads, Moves(u) PROVE u = t
  BY <1>1, <1>2
<1> HIDE DEF Moves
<1>3. ASSUME NEW u \in Threads, NEW r, NEW label, Arrive(u, r, label) PROVE Moves(u) /\ pc[u] \in Free
  BY <1>3 DEF Arrive, Goto, Moves
<1>4. ASSUME NEW u \in Threads, Arrivals(u) PROVE FALSE
  <2>1. Moves(u) /\ pc[u] \in Free
    BY <1>3, <1>4 DEF Arrivals, AskChallenge, PostLogin, UseToken, SendStamped
  <2> QED BY <1>2, <2>1
<1>5. ASSUME NEW u \in Threads, NEW from, NEW to, Step(u, from, to) PROVE Moves(u)
  BY <1>5 DEF Step, Goto, Moves
<1>6. ASSUME NEW u \in Threads, NEW from, NEW to, Answer(u, from, to) PROVE Moves(u)
  BY <1>6 DEF Answer, Goto, Moves
<1>7. ASSUME NEW u \in Threads, Handles(u) PROVE Moves(u)
  <2>1. CASE \/ CleanupNonces(u) \/ InsertNonce(u) \/ FindNonce(u) \/ CheckUsed(u) \/ CheckAge(u)
             \/ MarkUsed(u) \/ CleanupTokens(u) \/ InsertToken(u) \/ FindToken(u)
    BY <1>5, <1>6, <2>1 DEF CleanupNonces, InsertNonce, FindNonce, CheckUsed, CheckAge, RefuseNonce,
       MarkUsed, LoginOrNot, CleanupTokens, InsertToken, FindToken
  <2>2. CASE \/ CheckExpiry(u) \/ CheckTime(u) \/ FindStamp(u) \/ PushStamp(u)
             \/ UseErasedNonce(u) \/ UseErasedToken(u)
    BY <1>5, <1>6, <2>2 DEF CheckExpiry, CheckTime, FindStamp, PushStamp, UseErasedNonce, LoginOrNot,
       UseErasedToken
  <2> QED BY <1>7, <2>1, <2>2 DEF Handles
<1>8. ASSUME NEW u \in Threads, NEW v \in Threads, Meet(u, v) PROVE FALSE
  BY <1>1, <1>8 DEF Meet, threadVars
<1>9. ~ LoseEntry /\ ~ Tick
  BY <1>1 DEF LoseEntry, Tick, threadVars
<1>10. ~ Restart
  BY DEF Restart
<1> QED BY <1>2, <1>4, <1>7, <1>8, <1>9, <1>10 DEF Next

\* What the handlers at the labels of a kind may do.
LEMMA HandlesToken ==
    ASSUME NEW t \in Threads, Handles(t), pc[t] \in TokenPc
    PROVE  FindToken(t) \/ CheckExpiry(t) \/ UseErasedToken(t)
BY DEF TokenPc, Handles, CleanupNonces, InsertNonce, FindNonce, CheckUsed, CheckAge, RefuseNonce,
   MarkUsed, LoginOrNot, CleanupTokens, InsertToken, CheckTime, FindStamp, PushStamp, UseErasedNonce,
   Step, Answer

LEMMA HandlesStamp ==
    ASSUME NEW t \in Threads, Handles(t), pc[t] \in StampPc
    PROVE  CheckTime(t) \/ FindStamp(t) \/ PushStamp(t)
BY DEF StampPc, InRecent, Handles, CleanupNonces, InsertNonce, FindNonce, CheckUsed, CheckAge,
   RefuseNonce, MarkUsed, LoginOrNot, CleanupTokens, InsertToken, FindToken, CheckExpiry,
   UseErasedNonce, UseErasedToken, Step, Answer

LEMMA HandlesLogin ==
    ASSUME NEW t \in Threads, Handles(t), pc[t] \in LoginPc
    PROVE  \/ FindNonce(t) \/ CheckUsed(t) \/ CheckAge(t) \/ MarkUsed(t)
           \/ CleanupTokens(t) \/ InsertToken(t) \/ UseErasedNonce(t)
BY DEF LoginPc, HoldsNonce, Handles, CleanupNonces, InsertNonce, FindToken, CheckExpiry,
   CheckTime, FindStamp, PushStamp, UseErasedToken, Step, Answer

\* Unless two threads have met in the table, a token is accepted exactly while
\* its session is open, whatever other logins and expiries come in between.
THEOREM SessionsLast == Spec => SessionAnswers
<1>1. TypeInv /\ SessionInv /\ [Next]_vars => [\A t \in Threads :
        LET k == req[t].token IN
        k # None /\ pc'[t] \in {"accepted", "refused"} /\ "tokens" \notin torn' =>
            (pc'[t] = "accepted" <=> k \in DOMAIN opened /\ now - opened[k] <= TokenLife)]_vars
  <2> DEFINE k(t) == req[t].token
  <2> SUFFICES ASSUME TypeInv, SessionInv, Next, NEW t \in Threads, k(t) # None,
                      pc'[t] \in {"accepted", "refused"}, "tokens" \notin torn'
               PROVE  pc'[t] = "accepted" <=> k(t) \in DOMAIN opened /\ now - opened[k(t)] <= TokenLife
    OBVIOUS
  <2>1. pc[t] \in TokenPc /\ pc[t] \notin Free /\ pc \in [Threads -> ThreadPc]
    BY DEF TypeInv, ThreadInv, Handled, TokenPc, Free
  <2>2. FindToken(t) \/ CheckExpiry(t) \/ UseErasedToken(t)
    BY <2>1, OwnAnswer, HandlesToken DEF TypeInv
  <2>3. /\ now \in Nat /\ TokenLife \in Nat /\ DOMAIN tokens \subseteq DOMAIN opened
        /\ \A x \in DOMAIN opened : opened[x] \in Nat
    BY SignInAssumption DEF TypeInv, TableInv
  <2>4. CASE FindToken(t)
    <3>1. pc'[t] = "refused" /\ k(t) \notin DOMAIN tokens /\ torn' = torn
      BY <2>1, <2>4 DEF FindToken, Step, Answer, Goto
    <3> QED BY <2>3, <3>1 DEF SessionInv
  <2>5. CASE CheckExpiry(t)
    <3>1. k(t) \in DOMAIN tokens /\ (pc'[t] = "accepted" <=> now <= tokens[k(t)])
      BY <2>1, <2>3, <2>5 DEF CheckExpiry, Answer, Goto, TypeInv, TableInv
    <3> QED BY <2>3, <3>1 DEF SessionInv
  <2>6. CASE UseErasedToken(t)
    BY <2>6 DEF UseErasedToken
  <2> QED BY <2>2, <2>4, <2>5, <2>6
<1> QED BY <1>1, AlwaysSession, PTL DEF Spec, SessionAnswers

-----------------------------------------------------------------------------
(* Stamps                                                                  *)

\* The window holds stamps that were entered.
Window == \A i \in DOMAIN recent_nonces : \E j \in DOMAIN pushed : pushed[j].stamp = recent_nonces[i]

LEMMA WindowNext == TypeInv /\ Window /\ [Next]_vars => Window'
<1> SUFFICES ASSUME TypeInv, Window, [Next]_vars PROVE Window'
  OBVIOUS
<1>1. CASE UNCHANGED <<recent_nonces, pushed>>
  BY <1>1 DEF Window
<1>2. ASSUME NEW t \in Threads, Arrivals(t) PROVE Window'
  BY <1>1, <1>2 DEF Arrivals, AskChallenge, PostLogin, UseToken, SendStamped, Arrive, tables, history
<1>3. ASSUME NEW t \in Threads, PushStamp(t) PROVE Window'
  <2> DEFINE s == req[t].stamp
             e == [stamp |-> s, at |-> clock[t], looked |-> looked[t]]
  <2>1. /\ pc[t] = "push_stamp" /\ recent_nonces' = Pushed(recent_nonces, s)
        /\ pushed' = Append(pushed, e)
    BY <1>3 DEF PushStamp, Answer
  <2>2. s \in Stamps /\ clock[t] \in Nat /\ looked[t] \in Nat /\ recent_nonces \in Seq(Stamps)
        /\ Len(recent_nonces) <= MAX_RECENT_NONCES /\ pushed \in Seq(Entries)
    BY <2>1, HandledIs DEF TypeInv, TableInv, StampPc, InRecent
  <2>3. e \in Entries /\ e.stamp = s
    BY <2>2 DEF Entries
  <2> HIDE DEF e
  <2>4. /\ \A j \in DOMAIN pushed : j \in DOMAIN pushed' /\ pushed'[j] = pushed[j]
        /\ Len(pushed) + 1 \in DOMAIN pushed' /\ pushed'[Len(pushed) + 1] = e
    BY <2>1, <2>2, <2>3
  <2>5. \A i \in DOMAIN recent_nonces' :
            recent_nonces'[i] = s \/ \E j \in DOMAIN recent_nonces : recent_nonces'[i] = recent_nonces[j]
    BY <2>1, <2>2, PushedType
  <2> QED BY <2>3, <2>4, <2>5 DEF Window
<1>4. ASSUME NEW t \in Threads, Handles(t) PROVE Window'
  <2>1. CASE \/ CleanupNonces(t) \/ InsertNonce(t) \/ FindNonce(t) \/ CheckUsed(t) \/ CheckAge(t)
             \/ MarkUsed(t) \/ CleanupTokens(t) \/ InsertToken(t) \/ FindToken(t) \/ CheckExpiry(t)
    BY <1>1, <2>1 DEF CleanupNonces, InsertNonce, FindNonce, CheckUsed, CheckAge, RefuseNonce, MarkUsed,
       LoginOrNot, CleanupTokens, InsertToken, FindToken, CheckExpiry, tables, history
  <2>2. CASE CheckTime(t) \/ FindStamp(t) \/ UseErasedNonce(t) \/ UseErasedToken(t)
    BY <1>1, <2>2 DEF CheckTime, FindStamp, UseErasedNonce, UseErasedToken, LoginOrNot, tables, history
  <2> QED BY <1>3, <1>4, <2>1, <2>2 DEF Handles
<1>5. ASSUME NEW t \in Threads, NEW u \in Threads, Meet(t, u) PROVE Window'
  BY <1>1, <1>5 DEF Meet, tables, history
<1>6. CASE LoseEntry
  <2>1. pushed' = pushed
    BY <1>6 DEF LoseEntry, history
  <2>2. CASE UNCHANGED recent_nonces
    BY <1>1, <2>1, <2>2
  <2>3. CASE recent_nonces # <<>> /\ recent_nonces' = Tail(recent_nonces)
    <3>1. recent_nonces \in Seq(Stamps)
      BY DEF TypeInv, TableInv
    <3>2. \A i \in DOMAIN recent_nonces' : i + 1 \in DOMAIN recent_nonces
                                           /\ recent_nonces'[i] = recent_nonces[i + 1]
      BY <2>3, <3>1
    <3> QED BY <2>1, <3>2 DEF Window
  <2> QED BY <1>6, <2>2, <2>3 DEF LoseEntry
<1>7. CASE Restart
  BY <1>7 DEF Restart, Window
<1>8. CASE Tick
  BY <1>1, <1>8 DEF Tick, tables, history
<1>9. CASE UNCHANGED vars
  BY <1>1, <1>9 DEF vars, tables, history
<1> QED BY <1>2, <1>4, <1>5, <1>6, <1>7, <1>8, <1>9 DEF Next

\* A client whose secret and clock are right is refused only a stamp that was
\* entered before.
THEOREM FreshStampsPass == Spec => StampAnswers
<1>1. Init => Window
  BY DEF Init, Window
<1>2. TypeInv /\ Window /\ [Next]_vars => [\A t \in Threads :
        LET s == req[t].stamp IN
        s # None /\ pc'[t] = "refused" /\ "recent_nonces" \notin torn' =>
            \/ ~ stamped[s].right \/ ~ Near(now, stamped[s].timestamp)
            \/ \E i \in DOMAIN pushed : pushed[i].stamp = s]_vars
  <2> DEFINE s(t) == req[t].stamp
  <2> SUFFICES ASSUME TypeInv, Window, Next, NEW t \in Threads, s(t) # None, pc'[t] = "refused"
               PROVE  \/ ~ stamped[s(t)].right \/ ~ Near(now, stamped[s(t)].timestamp)
                      \/ \E i \in DOMAIN pushed : pushed[i].stamp = s(t)
    OBVIOUS
  <2>1. pc[t] \in StampPc /\ pc[t] \notin Free /\ pc \in [Threads -> ThreadPc]
    BY DEF TypeInv, ThreadInv, Handled, StampPc, InRecent, Free
  <2>2. CheckTime(t) \/ FindStamp(t) \/ PushStamp(t)
    BY <2>1, OwnAnswer, HandlesStamp DEF TypeInv
  <2>3. CASE CheckTime(t)
    BY <2>1, <2>3 DEF CheckTime, Step, Goto
  <2>4. CASE FindStamp(t)
    BY <2>1, <2>4 DEF FindStamp, Step, Goto, Occurs, Window
  <2>5. CASE PushStamp(t)
    BY <2>1, <2>5 DEF PushStamp, Answer, Goto
  <2> QED BY <2>2, <2>3, <2>4, <2>5
<1> QED BY <1>1, <1>2, TypeInit, TypeNext, WindowNext, PTL DEF Spec, StampAnswers

-----------------------------------------------------------------------------
(* Logins                                                                  *)

Chal(t) == req[t].challenge

\* The labels of a login that has passed the check.
Past == {"check_age", "mark_used", "cleanup_tokens", "insert_token"}

\* Two logins with one challenge are past the check only when it is doubled.
Apart == \A t, u \in Threads :
    t # u /\ pc[t] \in Past /\ pc[u] \in Past /\ Chal(u) = Chal(t) => Chal(t) \in doubled

\* An entry is marked exactly when a login has used it up, and a challenge is
\* in the table until then, or until it is too old.
Entered(c) == c \in DOMAIN asked /\ nonces[c].created = asked[c] /\ (nonces[c].used <=> c \in tried)
Kept(c) == c \in DOMAIN nonces \/ c \in tried \/ now - asked[c] > NonceLife
NoncesSound ==
    /\ \A c \in DOMAIN nonces : Entered(c)
    /\ \A c \in DOMAIN asked : Kept(c)

\* What a login may rely on from its earlier steps.
LoginSound(t) ==
    /\ pc[t] \in {"check_age", "mark_used"} /\ Chal(t) \in DOMAIN nonces =>
            Chal(t) \notin tried \/ Chal(t) \in doubled
    /\ pc[t] \in {"mark_used", "cleanup_tokens", "insert_token"} =>
            Chal(t) \in DOMAIN asked /\ clock[t] - asked[Chal(t)] <= NonceLife
    /\ pc[t] \in {"cleanup_tokens", "insert_token"} =>
            /\ req[t].login = "right" /\ Chal(t) \in tried
            /\ Chal(t) \in doubled \/ \A k \in DOMAIN won : won[k] # Chal(t)

LoginInv ==
    /\ \A t \in Threads : pc[t] \in {"cleanup_tokens", "insert_token"} => Chal(t) \in tried
    /\ \A k \in DOMAIN won : won[k] \in tried
    /\ "nonces" \notin torn =>
          /\ NoncesSound /\ OneLoginPerChallenge /\ Apart
          /\ \A t \in Threads : LoginSound(t)

\* Steps in which a thread goes from one label to another and no table of the
\* logins changes.
LEMMA LoginStays ==
    ASSUME TypeInv, LoginInv, UNCHANGED <<nonces, asked, tried, won, opened, doubled, now>>,
           torn \subseteq torn',
           \A t \in Threads :
                \/ pc'[t] = pc[t] /\ req'[t] = req[t] /\ clock'[t] = clock[t]
                \/ pc'[t] \notin Past
    PROVE  LoginInv'
<1>1. \A t \in Threads : pc'[t] \in {"cleanup_tokens", "insert_token"} => Chal(t)' \in tried'
  BY DEF LoginInv, Chal, Past
<1>2. ASSUME "nonces" \notin torn' PROVE NoncesSound' /\ OneLoginPerChallenge'
  BY <1>2 DEF LoginInv, NoncesSound, Entered, Kept, OneLoginPerChallenge
<1>3. ASSUME "nonces" \notin torn', NEW t \in Threads PROVE LoginSound(t)'
  BY <1>3 DEF LoginInv, LoginSound, Chal, Past
<1>4. ASSUME "nonces" \notin torn' PROVE Apart'
  BY <1>4 DEF LoginInv, Apart, Chal
<1> QED BY <1>1, <1>2, <1>3, <1>4 DEF LoginInv

\* A thread that goes on with its challenge or leaves it comes no nearer to
\* another's.
LEMMA StaysApart ==
    ASSUME Apart, doubled' = doubled, NEW t \in Threads,
           \A u \in Threads \ {t} : pc'[u] = pc[u] /\ req'[u] = req[u],
           pc'[t] \notin Past \/ (pc[t] \in Past /\ req'[t] = req[t])
    PROVE  Apart'
BY DEF Apart, Chal

LEMMA LoginArrives ==
    ASSUME TypeInv, LoginInv, NEW t \in Threads, Arrivals(t)
    PROVE  LoginInv'
<1>1. PICK r, label : /\ Arrive(t, r, label)
                      /\ label \in {"cleanup_nonces", "find_nonce", "find_token", "check_time"}
  BY DEF Arrivals, AskChallenge, PostLogin, UseToken, SendStamped
<1>2. UNCHANGED <<nonces, asked, tried, won, opened, doubled, now, torn, clock>>
  BY <1>1 DEF Arrive, tables, history
<1>3. \A u \in Threads : \/ pc'[u] = pc[u] /\ req'[u] = req[u] /\ clock'[u] = clock[u]
                         \/ pc'[u] \notin Past
  BY <1>1, <1>2 DEF TypeInv, ThreadInv, Arrive, Goto, Past
<1> QED BY <1>2, <1>3, LoginStays

LEMMA LoginHandles ==
    ASSUME TypeInv, LoginInv, NEW t \in Threads, Handles(t)
    PROVE  LoginInv'
<1> DEFINE c == Chal(t)
           Others == \A u \in Threads \ {t} : pc'[u] = pc[u] /\ req'[u] = req[u] /\ clock'[u] = clock[u]
<1>1. /\ req \in [Threads -> Requests] /\ pc \in [Threads -> ThreadPc] /\ clock \in [Threads -> Nat]
      /\ now \in Nat /\ NonceLife \in Nat
      /\ \A x \in DOMAIN asked : asked[x] \in Nat
      /\ \A x \in DOMAIN nonces : nonces[x] \in [created : Nat, used : BOOLEAN]
      /\ DOMAIN nonces \subseteq drawn /\ DOMAIN asked \subseteq drawn /\ tried \subseteq drawn
      /\ DOMAIN opened \subseteq DOMAIN won /\ DOMAIN won \subseteq drawn
  BY SignInAssumption DEF TypeInv, ThreadInv, TableInv
<1>2. ASSUME "nonces" \notin torn', torn \subseteq torn', doubled' = doubled, Others,
             pc'[t] \notin Past \/ (pc[t] \in Past /\ req'[t] = req[t])
      PROVE  Apart'
  BY <1>2, StaysApart DEF LoginInv
<1>3. pc[t] \in LoginPc => c \in Challenges \cap drawn /\ c # None
  BY HandledIs, SignInAssumption DEF TypeInv, Chal
<1>4. ASSUME NEW from, NEW to, Step(t, from, to), UNCHANGED clock \/ ReadClock(t)
      PROVE  /\ pc[t] = from /\ pc'[t] = to /\ req' = req /\ UNCHANGED now
             /\ Others
  <2>1. pc[t] = from /\ pc' = [pc EXCEPT ![t] = to] /\ req' = req /\ UNCHANGED now
    BY <1>4 DEF Step, Goto, outside
  <2>2. Others
    BY <1>1, <1>4, <2>1 DEF ReadClock
  <2> QED BY <1>1, <2>1, <2>2
<1>5. ASSUME NEW from, NEW label \in Free, Answer(t, from, label)
      PROVE  /\ pc[t] = from /\ pc'[t] = label /\ UNCHANGED now /\ Others
  <2>1. /\ pc[t] = from /\ pc' = [pc EXCEPT ![t] = label] /\ req' = [req EXCEPT ![t] = NoRequest]
        /\ clock' = [clock EXCEPT ![t] = 0] /\ UNCHANGED now
    BY <1>5 DEF Answer, Goto, outside
  <2>2. Others
    BY <1>1, <2>1
  <2> QED BY <1>1, <2>1, <2>2
<1> HIDE DEF c
<1>6. CASE FindToken(t) \/ CheckExpiry(t) \/ CheckTime(t) \/ FindStamp(t) \/ PushStamp(t)
           \/ UseErasedToken(t) \/ FindNonce(t)
  <2>1. UNCHANGED <<nonces, asked, tried, won, opened, doubled>> /\ torn \subseteq torn'
    BY <1>6 DEF FindToken, CheckExpiry, CheckTime, FindStamp, PushStamp, UseErasedToken, FindNonce,
       tables, history
  <2>2. "accepted" \in Free /\ "refused" \in Free
    BY DEF Free
  <2>3. \E from, to :
            \/ to \in {"check_expiry", "find_stamp", "push_stamp", "check_used"} /\ Step(t, from, to)
               /\ (UNCHANGED clock \/ ReadClock(t))
            \/ to \in {"accepted", "refused"} /\ Answer(t, from, to)
    BY <1>6 DEF FindToken, CheckExpiry, CheckTime, FindStamp, PushStamp, UseErasedToken, FindNonce
  <2>4. /\ pc'[t] \in {"check_expiry", "find_stamp", "push_stamp", "check_used", "accepted", "refused"}
        /\ Others /\ UNCHANGED now
    BY <1>4, <1>5, <2>2, <2>3
  <2> HIDE DEF Others
  <2>5. \A u \in Threads : \/ pc'[u] = pc[u] /\ req'[u] = req[u] /\ clock'[u] = clock[u]
                           \/ pc'[u] \notin Past
    BY <2>4 DEF Others, Past
  <2> QED BY <2>1, <2>4, <2>5, LoginStays
<1>7. CASE CleanupNonces(t)
  <2>1. /\ pc'[t] = "insert_nonce" /\ Others
        /\ UNCHANGED <<asked, tried, won, opened, doubled, now, torn>>
    BY <1>4, <1>7 DEF CleanupNonces, history
  <2>2. /\ DOMAIN nonces' = {x \in DOMAIN nonces : ~ nonces[x].used /\ now - nonces[x].created <= NonceLife}
        /\ \A x \in DOMAIN nonces' : nonces'[x] = nonces[x]
    BY <1>7 DEF CleanupNonces, Keep
  <2>3. ASSUME "nonces" \notin torn PROVE NoncesSound'
    BY <1>1, <2>1, <2>2, <2>3 DEF LoginInv, NoncesSound, Entered, Kept
  <2>4. ASSUME "nonces" \notin torn, NEW u \in Threads PROVE LoginSound(u)'
    BY <2>1, <2>2, <2>4 DEF LoginInv, LoginSound, Chal
  <2>5. ASSUME "nonces" \notin torn PROVE Apart'
    BY <1>2, <2>1, <2>5 DEF Past
  <2> QED BY <2>1, <2>3, <2>4, <2>5 DEF LoginInv, OneLoginPerChallenge, Chal
<1>8. CASE InsertNonce(t)
  <2>1. PICK x \in Challenges \ drawn :
            /\ Answer(t, "insert_nonce", "accepted")
            /\ nonces' = Put(nonces, x, [created |-> now, used |-> FALSE])
            /\ asked' = Put(asked, x, now)
            /\ UNCHANGED <<torn, tried, won, opened, doubled>>
    BY <1>8 DEF InsertNonce
  <2>2. /\ pc'[t] = "accepted" /\ Others /\ UNCHANGED now
    BY <1>5, <2>1 DEF Free
  <2>3. /\ DOMAIN nonces' = DOMAIN nonces \cup {x}
        /\ nonces'[x] = [created |-> now, used |-> FALSE]
        /\ \A y \in DOMAIN nonces : nonces'[y] = nonces[y]
    BY <1>1, <2>1 DEF Put
  <2>4. /\ DOMAIN asked' = DOMAIN asked \cup {x} /\ asked'[x] = now
        /\ \A y \in DOMAIN asked : asked'[y] = asked[y]
    BY <1>1, <2>1 DEF Put
  <2>5. ASSUME "nonces" \notin torn PROVE NoncesSound'
    <3>1. nonces'[x].created = asked'[x] /\ ~ nonces'[x].used /\ x \notin tried
      BY <1>1, <2>3, <2>4
    <3>2. NoncesSound
      BY <2>5 DEF LoginInv
    <3>3. ASSUME NEW y \in DOMAIN nonces' PROVE Entered(y)'
      <4>1. CASE y = x
        BY <2>1, <2>4, <3>1, <4>1 DEF Entered
      <4>2. CASE y # x
        BY <2>1, <2>3, <2>4, <3>2, <3>3, <4>2 DEF NoncesSound, Entered
      <4> QED BY <4>1, <4>2
    <3>4. ASSUME NEW y \in DOMAIN asked' PROVE Kept(y)'
      BY <2>1, <2>2, <2>3, <2>4, <3>2, <3>4 DEF NoncesSound, Kept
    <3> QED BY <3>3, <3>4 DEF NoncesSound
  <2>6. ASSUME "nonces" \notin torn, NEW u \in Threads PROVE LoginSound(u)'
    <3>1. LoginSound(u) /\ x \notin tried /\ x \notin DOMAIN asked /\ x \notin DOMAIN nonces
      BY <1>1, <2>6 DEF LoginInv
    <3>2. CASE u = t
      BY <2>2, <3>2 DEF LoginSound
    <3>3. CASE u # t
      <4>1. pc'[u] = pc[u] /\ req'[u] = req[u] /\ clock'[u] = clock[u]
        BY <2>2, <3>3
      <4>2. pc[u] \in {"mark_used", "cleanup_tokens", "insert_token"} =>
                Chal(u) \in DOMAIN asked' /\ asked'[Chal(u)] = asked[Chal(u)]
        BY <2>4, <3>1 DEF LoginSound
      <4>3. pc[u] \in {"check_age", "mark_used"} /\ Chal(u) \in DOMAIN nonces' =>
                Chal(u) \notin tried \/ Chal(u) \in doubled
        BY <2>3, <3>1 DEF LoginSound
      <4> QED BY <2>1, <3>1, <4>1, <4>2, <4>3 DEF LoginSound, Chal
    <3> QED BY <3>2, <3>3
  <2>7. ASSUME "nonces" \notin torn PROVE Apart'
    BY <1>2, <2>1, <2>2, <2>7 DEF Past
  <2> QED BY <2>1, <2>2, <2>5, <2>6, <2>7 DEF LoginInv, OneLoginPerChallenge, Chal
<1>9. ASSUME NEW from, RefuseNonce(t, from), c \in DOMAIN nonces,
             "nonces" \notin torn => c \in tried \/ now - asked[c] > NonceLife
      PROVE  LoginInv'
  <2>1. /\ pc'[t] = "refused" /\ Others
        /\ UNCHANGED <<asked, tried, won, opened, doubled, now, torn>>
    BY <1>5, <1>9 DEF RefuseNonce, history, Free
  <2>2. /\ DOMAIN nonces' = DOMAIN nonces \ {c}
        /\ \A x \in DOMAIN nonces' : nonces'[x] = nonces[x]
    BY <1>9 DEF RefuseNonce, Erase, Keep, c, Chal
  <2>3. ASSUME "nonces" \notin torn PROVE NoncesSound'
    BY <1>9, <2>1, <2>2, <2>3 DEF LoginInv, NoncesSound, Entered, Kept
  <2>4. ASSUME "nonces" \notin torn, NEW u \in Threads PROVE LoginSound(u)'
    BY <2>1, <2>2, <2>4 DEF LoginInv, LoginSound, Chal
  <2>5. ASSUME "nonces" \notin torn PROVE Apart'
    BY <1>2, <2>1, <2>5 DEF Past
  <2> QED BY <2>1, <2>3, <2>4, <2>5 DEF LoginInv, OneLoginPerChallenge, Chal
<1>10. CASE CheckUsed(t)
  <2>1. c \in DOMAIN nonces /\ nonces[c].used \in BOOLEAN
    BY <1>1, <1>10 DEF CheckUsed, c, Chal
  <2>2. CASE nonces[c].used /\ RefuseNonce(t, "check_used")
    BY <1>9, <2>1, <2>2 DEF LoginInv, NoncesSound, Entered, Kept
  <2>3. CASE /\ ~ nonces[c].used /\ Step(t, "check_used", "check_age") /\ UNCHANGED <<tables, clock, torn>>
             /\ doubled' = IF Unmarked(c) = {} THEN doubled ELSE doubled \cup {c}
             /\ UNCHANGED <<asked, tried, won, opened>>
    <3>1. /\ pc[t] = "check_used" /\ pc'[t] = "check_age" /\ req' = req /\ Others
          /\ doubled \subseteq doubled'
          /\ UNCHANGED <<nonces, asked, tried, won, opened, now, torn>>
      BY <1>4, <2>3 DEF tables
    <3>2. ASSUME "nonces" \notin torn PROVE c \notin tried
      BY <2>1, <2>3, <3>2 DEF LoginInv, NoncesSound, Entered, Kept
    <3>3. ASSUME "nonces" \notin torn, NEW u \in Threads PROVE LoginSound(u)'
      BY <3>1, <3>2, <3>3 DEF LoginInv, LoginSound, Chal, c
    <3>4. ASSUME "nonces" \notin torn, NEW u \in Threads \ {t}, pc[u] \in Past, Chal(u) = c
          PROVE  c \in doubled'
      <4>1. pc[u] \in {"check_age", "mark_used"}
        BY <3>2, <3>4 DEF LoginInv, Past
      <4>2. u \in Unmarked(c)
        BY <3>4, <4>1 DEF Unmarked, Chal
      <4> QED BY <2>3, <4>2
    <3>5. ASSUME "nonces" \notin torn PROVE Apart'
      <4> SUFFICES ASSUME NEW u \in Threads, NEW v \in Threads, u # v, pc'[u] \in Past, pc'[v] \in Past,
                          Chal(v)' = Chal(u)'
                   PROVE  Chal(u)' \in doubled'
        BY DEF Apart
      <4>1. \A w \in Threads : Chal(w)' = Chal(w) /\ (w # t => pc'[w] = pc[w])
        BY <3>1 DEF Chal
      <4>2. CASE u = t \/ v = t
        BY <3>4, <3>5, <4>1, <4>2 DEF c
      <4>3. CASE u # t /\ v # t
        BY <3>1, <3>5, <4>1, <4>3 DEF LoginInv, Apart
      <4> QED BY <4>2, <4>3
    <3>6. ASSUME "nonces" \notin torn PROVE NoncesSound' /\ OneLoginPerChallenge'
      BY <3>1, <3>6 DEF LoginInv, NoncesSound, Entered, Kept, OneLoginPerChallenge
    <3>7. ASSUME NEW u \in Threads, pc'[u] \in {"cleanup_tokens", "insert_token"} PROVE Chal(u)' \in tried'
      BY <3>1, <3>7 DEF LoginInv, Chal
    <3>8. \A k \in DOMAIN won' : won'[k] \in tried'
      BY <3>1 DEF LoginInv
    <3> QED BY <3>1, <3>3, <3>5, <3>6, <3>7, <3>8 DEF LoginInv
  <2> QED BY <1>10, <2>2, <2>3 DEF CheckUsed, c, Chal
<1>11. CASE CheckAge(t)
  <2>1. c \in DOMAIN nonces /\ ("nonces" \notin torn => nonces[c].created = asked[c] /\ c \in DOMAIN asked)
    BY <1>11 DEF CheckAge, c, Chal, LoginInv, NoncesSound, Entered, Kept
  <2>2. CASE now - nonces[c].created > NonceLife /\ RefuseNonce(t, "check_age")
    BY <1>9, <2>1, <2>2
  <2>3. CASE /\ now - nonces[c].created <= NonceLife /\ Step(t, "check_age", "mark_used")
             /\ ReadClock(t) /\ UNCHANGED <<tables, torn, history>>
    <3>1. /\ pc[t] = "check_age" /\ pc'[t] = "mark_used" /\ req' = req /\ Others
          /\ UNCHANGED <<nonces, asked, tried, won, opened, doubled, now, torn>>
      BY <1>4, <2>3 DEF tables, history
    <3>2. clock'[t] = now
      BY <1>1, <2>3 DEF ReadClock
    <3>3. ASSUME "nonces" \notin torn, NEW u \in Threads PROVE LoginSound(u)'
      <4>1. c \notin tried \/ c \in doubled
        BY <2>1, <3>1, <3>3 DEF LoginInv, LoginSound, c
      <4> QED BY <2>1, <2>3, <3>1, <3>2, <3>3, <4>1 DEF LoginInv, LoginSound, Chal, c
    <3>4. ASSUME "nonces" \notin torn PROVE Apart'
      BY <1>2, <3>1, <3>4 DEF Past
    <3> QED BY <3>1, <3>3, <3>4 DEF LoginInv, NoncesSound, Entered, Kept, OneLoginPerChallenge, Chal
  <2> QED BY <1>11, <2>2, <2>3 DEF CheckAge, c, Chal
<1>12. ASSUME LoginOrNot(t), torn \subseteq torn',
              "nonces" \notin torn' =>
                    /\ c \in DOMAIN nonces
                    /\ nonces' = [nonces EXCEPT ![c].used = TRUE]
       PROVE  LoginInv'
  <2>1. /\ pc[t] = "mark_used" /\ Others /\ UNCHANGED <<asked, won, opened, doubled, now>>
        /\ tried' = tried \cup {c}
        /\ \/ pc'[t] = "refused"
           \/ pc'[t] = "cleanup_tokens" /\ req' = req /\ req[t].login = "right" /\ clock' = clock
    BY <1>4, <1>5, <1>12 DEF LoginOrNot, Free, c, Chal
  <2>2. ASSUME "nonces" \notin torn', NEW u \in Threads \ {t}, pc[u] \in Past, Chal(u) = c
        PROVE  c \in doubled
    BY <1>12, <2>1, <2>2 DEF LoginInv, Apart, Past, c
  <2>3. ASSUME NEW u \in Threads, pc'[u] \in {"cleanup_tokens", "insert_token"} PROVE Chal(u)' \in tried'
    BY <2>1, <2>3 DEF LoginInv, Chal, c
  <2>4. \A k \in DOMAIN won' : won'[k] \in tried'
    BY <2>1 DEF LoginInv
  <2>5. ASSUME "nonces" \notin torn' PROVE NoncesSound'
    <3>1. NoncesSound /\ c \in DOMAIN nonces /\ nonces' = [nonces EXCEPT ![c].used = TRUE]
      BY <1>12, <2>5 DEF LoginInv
    <3>2. /\ DOMAIN nonces' = DOMAIN nonces /\ nonces'[c].used /\ nonces'[c].created = nonces[c].created
          /\ \A x \in DOMAIN nonces : x # c => nonces'[x] = nonces[x]
      BY <1>1, <3>1
    <3>3. ASSUME NEW x \in DOMAIN nonces' PROVE Entered(x)'
      <4>1. CASE x = c
        BY <2>1, <3>1, <3>2, <4>1 DEF NoncesSound, Entered
      <4>2. CASE x # c
        BY <2>1, <3>1, <3>2, <3>3, <4>2 DEF NoncesSound, Entered
      <4> QED BY <4>1, <4>2
    <3>4. ASSUME NEW x \in DOMAIN asked' PROVE Kept(x)'
      BY <2>1, <3>1, <3>2, <3>4 DEF NoncesSound, Kept
    <3> QED BY <3>3, <3>4 DEF NoncesSound
  <2>6. ASSUME "nonces" \notin torn', NEW u \in Threads PROVE LoginSound(u)'
    <3>1. /\ LoginSound(u) /\ LoginSound(t) /\ DOMAIN nonces' = DOMAIN nonces /\ c \in DOMAIN nonces
          /\ \A k \in DOMAIN won : won[k] \in tried
      BY <1>12, <2>6 DEF LoginInv
    <3>2. CASE u = t
      <4>1. c \notin tried \/ c \in doubled
        BY <2>1, <3>1 DEF LoginSound, c
      <4>2. c \in DOMAIN asked /\ clock[t] - asked[c] <= NonceLife
        BY <2>1, <3>1 DEF LoginSound, c
      <4> QED BY <2>1, <3>1, <3>2, <4>1, <4>2 DEF LoginSound, Chal, c
    <3>3. CASE u # t
      <4>1. pc[u] \in Past => Chal(u) # c \/ c \in doubled
        BY <2>2, <2>6, <3>3
      <4> QED BY <2>1, <3>1, <3>3, <4>1 DEF LoginSound, Chal, Past
    <3> QED BY <3>2, <3>3
  <2>7. ASSUME "nonces" \notin torn' PROVE OneLoginPerChallenge'
    BY <1>12, <2>1, <2>7 DEF LoginInv, OneLoginPerChallenge
  <2>8. ASSUME "nonces" \notin torn' PROVE Apart'
    BY <1>2, <1>12, <2>1, <2>8 DEF Past
  <2> QED BY <2>1, <2>3, <2>4, <2>5, <2>6, <2>7, <2>8 DEF LoginInv
<1>13. CASE MarkUsed(t)
  BY <1>12, <1>13 DEF MarkUsed, c, Chal
<1>14. CASE CleanupTokens(t)
  <2>1. /\ pc[t] = "cleanup_tokens" /\ pc'[t] = "insert_token" /\ req' = req /\ Others
        /\ clock' = clock /\ UNCHANGED <<nonces, asked, tried, won, opened, doubled, now, torn>>
    BY <1>4, <1>14 DEF CleanupTokens, history
  <2>2. ASSUME "nonces" \notin torn, NEW u \in Threads PROVE LoginSound(u)'
    BY <2>1, <2>2 DEF LoginInv, LoginSound, Chal
  <2>3. ASSUME "nonces" \notin torn PROVE Apart'
    BY <1>2, <2>1, <2>3 DEF Past
  <2> QED BY <2>1, <2>2, <2>3 DEF LoginInv, NoncesSound, Entered, Kept, OneLoginPerChallenge, Chal
<1>15. CASE InsertToken(t)
  <2>1. PICK k \in Tokens \ drawn :
            /\ Answer(t, "insert_token", "accepted")
            /\ won' = Put(won, k, c) /\ opened' = Put(opened, k, clock[t])
            /\ UNCHANGED <<nonces, torn, asked, tried, doubled>>
    BY <1>15 DEF InsertToken, c, Chal
  <2>2. pc[t] = "insert_token" /\ pc'[t] = "accepted" /\ Others /\ UNCHANGED now
    BY <1>5, <2>1 DEF Free
  <2>3. /\ DOMAIN won' = DOMAIN won \cup {k} /\ won'[k] = c /\ k \notin DOMAIN won
        /\ \A x \in DOMAIN won : won'[x] = won[x]
        /\ DOMAIN opened' = DOMAIN opened \cup {k}
    BY <1>1, <2>1 DEF Put
  <2>4. c \in tried
    BY <2>2 DEF LoginInv, c
  <2>5. \A x \in DOMAIN won' : won'[x] \in tried'
    BY <2>1, <2>3, <2>4 DEF LoginInv
  <2>6. ASSUME "nonces" \notin torn' PROVE OneLoginPerChallenge'
    <3>1. OneLoginPerChallenge /\ (c \in doubled \/ \A x \in DOMAIN won : won[x] # c)
      BY <2>1, <2>2, <2>6 DEF LoginInv, LoginSound, c
    <3> QED BY <1>1, <2>1, <2>3, <2>6, <3>1 DEF OneLoginPerChallenge
  <2>7. ASSUME "nonces" \notin torn', NEW u \in Threads \ {t}, pc[u] \in Past, Chal(u) = c
        PROVE  c \in doubled
    BY <2>1, <2>2, <2>7 DEF LoginInv, Apart, Past, c
  <2>8. ASSUME "nonces" \notin torn', NEW u \in Threads PROVE LoginSound(u)'
    <3>1. LoginSound(u)
      BY <2>1, <2>8 DEF LoginInv
    <3>2. CASE u = t
      BY <2>2, <3>2 DEF LoginSound
    <3>3. CASE u # t
      <4>1. pc[u] \in Past => Chal(u) # c \/ c \in doubled
        BY <2>7, <2>8, <3>3
      <4> QED BY <2>1, <2>2, <2>3, <3>1, <3>3, <4>1 DEF LoginSound, Chal, Past
    <3> QED BY <3>2, <3>3
  <2>9. ASSUME NEW u \in Threads, pc'[u] \in {"cleanup_tokens", "insert_token"} PROVE Chal(u)' \in tried'
    BY <2>1, <2>2, <2>9 DEF LoginInv, Chal
  <2>10. ASSUME "nonces" \notin torn' PROVE NoncesSound'
    BY <2>1, <2>2, <2>10 DEF LoginInv, NoncesSound, Entered, Kept
  <2>11. ASSUME "nonces" \notin torn' PROVE Apart'
    BY <1>2, <2>1, <2>2, <2>11 DEF Past
  <2> QED BY <2>2, <2>5, <2>6, <2>8, <2>9, <2>10, <2>11 DEF LoginInv
<1>16. CASE UseErasedNonce(t)
  <2>1. "nonces" \in torn' /\ torn \subseteq torn'
    BY <1>16 DEF UseErasedNonce
  <2>2. CASE LoginOrNot(t)
    BY <1>12, <2>1, <2>2
  <2> DEFINE GoesOn == \/ Answer(t, "check_used", "refused") \/ Answer(t, "check_age", "refused")
                       \/ Step(t, "check_used", "check_age") /\ UNCHANGED clock
                       \/ Step(t, "check_age", "mark_used") /\ ReadClock(t)
  <2>3. CASE GoesOn /\ UNCHANGED <<tried, won>>
    <3>1. pc'[t] \in {"refused", "check_age", "mark_used"} /\ Others /\ UNCHANGED <<tried, won>>
      BY <1>4, <1>5, <2>3 DEF Free
    <3>2. ASSUME NEW u \in Threads, pc'[u] \in {"cleanup_tokens", "insert_token"} PROVE Chal(u)' \in tried'
      BY <3>1, <3>2 DEF LoginInv, Chal
    <3>3. \A k \in DOMAIN won' : won'[k] \in tried'
      BY <3>1 DEF LoginInv
    <3> QED BY <2>1, <3>1, <3>2, <3>3 DEF LoginInv
  <2>4. LoginOrNot(t) \/ (GoesOn /\ UNCHANGED history)
    BY <1>16 DEF UseErasedNonce
  <2> HIDE DEF GoesOn
  <2> QED BY <2>2, <2>3, <2>4 DEF history
<1> QED BY <1>6, <1>7, <1>8, <1>10, <1>11, <1>13, <1>14, <1>15, <1>16 DEF Handles

LEMMA LoginNext == TypeInv /\ LoginInv /\ [Next]_vars => LoginInv'
<1> SUFFICES ASSUME TypeInv, LoginInv, [Next]_vars PROVE LoginInv'
  OBVIOUS
<1>1. ASSUME UNCHANGED <<req, pc, clock, nonces, asked, tried, won, opened, doubled, now>>,
             torn \subseteq torn'
      PROVE  LoginInv'
  BY <1>1, LoginStays
<1>2. ASSUME NEW t \in Threads, NEW u \in Threads, Meet(t, u) PROVE LoginInv'
  BY <1>1, <1>2 DEF Meet, tables, threadVars, outside, history
<1>3. CASE LoseEntry
  <2>1. UNCHANGED <<req, pc, clock, asked, tried, won, opened, doubled, now, torn>>
    BY <1>3 DEF LoseEntry, threadVars, outside, history
  <2>2. CASE UNCHANGED nonces
    BY <1>1, <2>1, <2>2
  <2>3. CASE "nonces" \in torn
    BY <2>1, <2>3 DEF LoginInv, Chal
  <2> QED BY <1>3, <2>2, <2>3 DEF LoseEntry
<1>4. CASE Restart
  <2>1. /\ \A t \in Threads : pc'[t] = "idle"
        /\ DOMAIN nonces' = {} /\ DOMAIN asked' = {} /\ DOMAIN opened' = {}
        /\ UNCHANGED <<tried, won>>
    BY <1>4, NothingIsEmpty DEF Restart
  <2>2. Apart'
    BY <2>1 DEF Apart, Past
  <2>3. NoncesSound' /\ OneLoginPerChallenge' /\ \A t \in Threads : LoginSound(t)'
    BY <2>1 DEF NoncesSound, OneLoginPerChallenge, LoginSound
  <2> QED BY <2>1, <2>2, <2>3 DEF LoginInv
<1>5. CASE Tick
  <2>1. /\ now' = now + 1 /\ now \in Nat /\ NonceLife \in Nat
        /\ UNCHANGED <<req, pc, clock, nonces, asked, tried, won, opened, doubled, torn>>
        /\ \A x \in DOMAIN asked : asked[x] \in Nat
    BY <1>5, SignInAssumption DEF Tick, tables, threadVars, history, TypeInv, TableInv
  <2>2. ASSUME "nonces" \notin torn PROVE NoncesSound'
    BY <2>1, <2>2 DEF LoginInv, NoncesSound, Entered, Kept
  <2> QED BY <2>1, <2>2 DEF LoginInv, Apart, OneLoginPerChallenge, LoginSound, Chal
<1>6. CASE UNCHANGED vars
  BY <1>1, <1>6 DEF vars, tables, threadVars, outside, history
<1> QED BY <1>2, <1>3, <1>4, <1>5, <1>6, LoginArrives, LoginHandles DEF Next

LEMMA AlwaysLogin == Spec => [](TypeInv /\ LoginInv)
<1>1. Init => LoginInv
  BY NothingIsEmpty DEF Init, LoginInv, Apart, Past, NoncesSound, OneLoginPerChallenge, LoginSound
<1> QED BY <1>1, TypeInit, TypeNext, LoginNext, PTL DEF Spec

\* Unless two threads have met in the table of challenges, one challenge opens
\* one session, whatever cleaning, logins and restarts come in between, and
\* however often its login is sent, except when two logins with it stood
\* between check and mark at once (auth.cpp:146 and 161).
THEOREM OneLogin == Spec => []OneLoginPerChallenge
<1>1. LoginInv => OneLoginPerChallenge
  BY DEF LoginInv, OneLoginPerChallenge
<1> QED BY <1>1, AlwaysLogin, PTL

\* Unless two threads have met in the table of challenges, a login gets a
\* session only on a challenge that is fresh, and a right one is refused only
\* on a challenge that is not.
THEOREM LoginsAnswered == Spec => LoginAnswers
<1>1. TypeInv /\ LoginInv /\ [Next]_vars => [\A t \in Threads :
        LET c == req[t].challenge IN
        c # None /\ "nonces" \notin torn' =>
            /\ pc'[t] = "accepted" =>
                    /\ req[t].login = "right" /\ c \in DOMAIN asked
                    /\ clock[t] - asked[c] <= NonceLife
            /\ pc'[t] = "refused" /\ req[t].login = "right" =>
                    c \notin DOMAIN asked \/ c \in tried \/ now - asked[c] > NonceLife]_vars
  <2> SUFFICES ASSUME TypeInv, LoginInv, Next, NEW t \in Threads, Chal(t) # None, "nonces" \notin torn',
                      pc'[t] \in {"accepted", "refused"}
               PROVE  \/ /\ pc'[t] = "accepted" /\ req[t].login = "right" /\ Chal(t) \in DOMAIN asked
                         /\ clock[t] - asked[Chal(t)] <= NonceLife
                      \/ /\ pc'[t] = "refused"
                         /\ \/ req[t].login # "right" \/ Chal(t) \notin DOMAIN asked
                            \/ Chal(t) \in tried \/ now - asked[Chal(t)] > NonceLife
    BY DEF Chal
  <2>1. pc[t] \in LoginPc /\ pc[t] \notin Free /\ pc \in [Threads -> ThreadPc]
    BY DEF TypeInv, ThreadInv, Handled, LoginPc, HoldsNonce, Free, Chal
  <2>2. \/ FindNonce(t) \/ CheckUsed(t) \/ CheckAge(t) \/ MarkUsed(t)
        \/ CleanupTokens(t) \/ InsertToken(t) \/ UseErasedNonce(t)
    BY <2>1, OwnAnswer, HandlesLogin DEF TypeInv
  <2>3. ASSUME "nonces" \notin torn PROVE NoncesSound /\ LoginSound(t)
    BY <2>3 DEF LoginInv
  <2>4. CASE FindNonce(t)
    <3>1. /\ pc'[t] = "refused" /\ torn' = torn
          /\ req[t].login = "wrong_name" \/ Chal(t) \notin DOMAIN nonces
      BY <2>1, <2>4 DEF FindNonce, Step, Answer, Goto, Chal
    <3> QED BY <2>3, <3>1 DEF NoncesSound, Kept
  <2>5. CASE CheckUsed(t)
    <3>1. /\ pc'[t] = "refused" /\ torn' = torn
          /\ Chal(t) \in DOMAIN nonces /\ nonces[Chal(t)].used
      BY <2>1, <2>5 DEF CheckUsed, RefuseNonce, Step, Answer, Goto, Chal
    <3> QED BY <2>3, <3>1 DEF NoncesSound, Entered
  <2>6. CASE CheckAge(t)
    <3>1. /\ pc'[t] = "refused" /\ torn' = torn
          /\ Chal(t) \in DOMAIN nonces /\ now - nonces[Chal(t)].created > NonceLife
      BY <2>1, <2>6 DEF CheckAge, RefuseNonce, Step, Answer, Goto, Chal
    <3> QED BY <2>3, <3>1 DEF NoncesSound, Entered
  <2>7. CASE MarkUsed(t)
    BY <2>1, <2>7 DEF MarkUsed, LoginOrNot, Step, Answer, Goto
  <2>8. CASE CleanupTokens(t)
    BY <2>1, <2>8 DEF CleanupTokens, Step, Goto
  <2>9. CASE InsertToken(t)
    <3>1. pc[t] = "insert_token" /\ pc'[t] = "accepted" /\ torn' = torn
      BY <2>1, <2>9 DEF InsertToken, Answer, Goto
    <3> QED BY <2>3, <3>1 DEF LoginSound
  <2>10. CASE UseErasedNonce(t)
    BY <2>10 DEF UseErasedNonce
  <2> QED BY <2>2, <2>4, <2>5, <2>6, <2>7, <2>8, <2>9, <2>10
<1> QED BY <1>1, AlwaysLogin, PTL DEF Spec, LoginAnswers

-----------------------------------------------------------------------------
(* Stamps that come again                                                  *)

Stamp(t) == req[t].stamp

\* The time a thread has read is near that of its stamp; so is the time at
\* which a stamp was entered.
Clocked(t) == pc[t] \in InRecent => Near(clock[t], stamped[Stamp(t)].timestamp)
Timely == \A i \in DOMAIN pushed :
    pushed[i].stamp \in DOMAIN stamped /\ Near(pushed[i].at, stamped[pushed[i].stamp].timestamp)

\* The window w is the end of all that was entered, p, and full when it is not all.
EndOf(w, p) ==
    /\ Len(w) <= Len(p) /\ (Len(w) # Len(p) => Len(w) = MAX_RECENT_NONCES)
    /\ \A i \in DOMAIN w : w[i] = p[Len(p) - Len(w) + i].stamp

\* When a window was searched for the stamp s, n stamps having been entered, it
\* was not there: what was entered of it by then had left the window.
Gone(n, s) == \A i \in DOMAIN pushed :
    i <= n /\ pushed[i].stamp = s => n - i >= MAX_RECENT_NONCES
Unseen(t) == pc[t] = "push_stamp" => looked[t] <= Len(pushed) /\ Gone(looked[t], Stamp(t))
FarApart == \A i, j \in DOMAIN pushed :
    i < j /\ pushed[i].stamp = pushed[j].stamp =>
        pushed[j].looked < i \/ pushed[j].looked - i >= MAX_RECENT_NONCES

StampInv ==
    /\ Timely /\ \A t \in Threads : Clocked(t)
    /\ "recent_nonces" \notin torn =>
            EndOf(recent_nonces, pushed) /\ FarApart /\ \A t \in Threads : Unseen(t)

LEMMA ElementOf == ASSUME NEW S, NEW q \in Seq(S), NEW i \in DOMAIN q PROVE q[i] \in S
OBVIOUS

LEMMA EndOfPushed ==
    ASSUME NEW w \in Seq(Stamps), NEW p \in Seq(Entries), EndOf(w, p),
           Len(w) <= MAX_RECENT_NONCES, NEW e \in Entries
    PROVE  EndOf(Pushed(w, e.stamp), Append(p, e))
<1> DEFINE n == Len(p)
           k == Len(w)
           a == Append(w, e.stamp)
           q == Append(p, e)
<1>1. /\ n \in Nat /\ k \in Nat /\ k <= n /\ (k # n => k = MAX_RECENT_NONCES)
      /\ MAX_RECENT_NONCES \in Nat
      /\ \A i \in 1 .. k : w[i] = p[n - k + i].stamp
  BY SignInAssumption DEF EndOf
<1>2. /\ a \in Seq(Stamps) /\ Len(a) = k + 1 /\ a[k + 1] = e.stamp
      /\ \A i \in 1 .. k : a[i] = w[i]
  <2>1. e.stamp \in Stamps
    BY DEF Entries
  <2> QED BY <2>1
<1>3. Len(q) = n + 1 /\ q[n + 1] = e /\ \A i \in 1 .. n : q[i] = p[i]
  OBVIOUS
<1> HIDE DEF a, q
<1>4. \A i \in 1 .. k + 1 : a[i] = q[n - k + i].stamp
  <2> SUFFICES ASSUME NEW i \in 1 .. k + 1 PROVE a[i] = q[n - k + i].stamp
    OBVIOUS
  <2>1. CASE i = k + 1
    <3>1. n - k + i = n + 1
      BY <1>1, <2>1
    <3> QED BY <1>2, <1>3, <2>1, <3>1
  <2>2. CASE i \in 1 .. k
    <3>1. n - k + i \in 1 .. n
      BY <1>1, <2>2
    <3> QED BY <1>1, <1>2, <1>3, <2>2, <3>1
  <2> QED BY <1>1, <2>1, <2>2
<1>5. CASE k >= MAX_RECENT_NONCES
  <2>1. Pushed(w, e.stamp) = Tail(a)
    BY <1>5 DEF Pushed, a
  <2> DEFINE b == Tail(a)
  <2>2. b \in Seq(Stamps) /\ Len(b) = k /\ DOMAIN b = 1 .. k /\ \A i \in 1 .. k : b[i] = a[i + 1]
    BY <1>1, <1>2
  <2> HIDE DEF b
  <2>3. ASSUME NEW i \in 1 .. k PROVE b[i] = q[n + 1 - k + i].stamp
    <3>1. i + 1 \in 1 .. k + 1 /\ n - k + (i + 1) = n + 1 - k + i
      BY <1>1
    <3> QED BY <1>4, <2>2, <3>1
  <2>4. k = MAX_RECENT_NONCES
    BY <1>1, <1>5
  <2>5. EndOf(b, q)
    <3>1. Len(q) - Len(b) = n + 1 - k /\ Len(b) <= Len(q) /\ Len(b) = MAX_RECENT_NONCES
      BY <1>1, <1>3, <2>2, <2>4
    <3>2. \A i \in DOMAIN b : b[i] = q[Len(q) - Len(b) + i].stamp
      BY <2>2, <2>3, <3>1
    <3> QED BY <3>1, <3>2 DEF EndOf
  <2> QED BY <2>1, <2>5 DEF q, b
<1>6. CASE ~ (k >= MAX_RECENT_NONCES)
  <2>1. Pushed(w, e.stamp) = a
    BY <1>6 DEF Pushed, a
  <2>2. n = k /\ DOMAIN a = 1 .. k + 1
    BY <1>1, <1>2, <1>6
  <2>3. EndOf(a, q)
    BY <1>1, <1>2, <1>3, <1>4, <2>2 DEF EndOf
  <2> QED BY <2>1, <2>3 DEF q
<1> QED BY <1>5, <1>6

\* A stamp that is not in the window has left it wherever it was entered.
LEMMA GoneWhenUnseen ==
    ASSUME recent_nonces \in Seq(Stamps), pushed \in Seq(Entries), EndOf(recent_nonces, pushed),
           NEW s, ~ Occurs(s, recent_nonces)
    PROVE  Gone(Len(pushed), s)
<1> DEFINE n == Len(pushed)
           k == Len(recent_nonces)
<1>1. n \in Nat /\ k \in Nat /\ DOMAIN recent_nonces = 1 .. k /\ DOMAIN pushed = 1 .. n
  OBVIOUS
<1>2. /\ k <= n /\ (k # n => k = MAX_RECENT_NONCES) /\ MAX_RECENT_NONCES \in Nat
      /\ \A m \in 1 .. k : recent_nonces[m] = pushed[n - k + m].stamp /\ recent_nonces[m] # s
  BY <1>1, SignInAssumption DEF EndOf, Occurs
<1> SUFFICES ASSUME NEW i \in 1 .. n, pushed[i].stamp = s PROVE n - i >= MAX_RECENT_NONCES
  BY <1>1 DEF Gone
<1> HIDE DEF n, k
<1>3. ~ (i > n - k)
  <2> SUFFICES ASSUME i > n - k PROVE FALSE
    OBVIOUS
  <2>1. i - (n - k) \in 1 .. k /\ n - k + (i - (n - k)) = i
    BY <1>1, <1>2
  <2> QED BY <1>2, <2>1
<1> QED BY <1>1, <1>2, <1>3

\* Steps that leave the window alone and bring no thread to it.
LEMMA StampStays ==
    ASSUME TypeInv, StampInv, UNCHANGED <<recent_nonces, pushed, looked>>,
           torn \subseteq torn',
           \A s \in DOMAIN stamped : s \in DOMAIN stamped' /\ stamped'[s] = stamped[s],
           \A t \in Threads :
                \/ pc'[t] = pc[t] /\ req'[t] = req[t] /\ clock'[t] = clock[t]
                \/ pc'[t] \notin InRecent
    PROVE  StampInv'
<1>1. Timely'
  BY DEF StampInv, Timely
<1>2. ASSUME NEW t \in Threads PROVE Clocked(t)'
  <2>1. pc[t] \in InRecent => Stamp(t) \in DOMAIN stamped
    BY HandledIs DEF TypeInv, StampPc, Stamp
  <2> QED BY <2>1 DEF StampInv, Clocked, Stamp
<1>3. ASSUME "recent_nonces" \notin torn' PROVE EndOf(recent_nonces, pushed)' /\ FarApart'
  BY <1>3 DEF StampInv, EndOf, FarApart
<1>4. ASSUME "recent_nonces" \notin torn', NEW t \in Threads PROVE Unseen(t)'
  BY <1>4 DEF StampInv, Unseen, Gone, Stamp, InRecent
<1> QED BY <1>1, <1>2, <1>3, <1>4 DEF StampInv

LEMMA StampArrives ==
    ASSUME TypeInv, StampInv, NEW t \in Threads, Arrivals(t)
    PROVE  StampInv'
<1>1. PICK r, label : /\ Arrive(t, r, label)
                      /\ label \in {"cleanup_nonces", "find_nonce", "find_token", "check_time"}
  BY DEF Arrivals, AskChallenge, PostLogin, UseToken, SendStamped
<1>2. UNCHANGED <<recent_nonces, pushed, looked, torn, clock>>
  BY <1>1 DEF Arrive, tables, history
<1>3. \A u \in Threads : \/ pc'[u] = pc[u] /\ req'[u] = req[u] /\ clock'[u] = clock[u]
                         \/ pc'[u] \notin InRecent
  BY <1>1, <1>2 DEF TypeInv, ThreadInv, Arrive, Goto, InRecent
<1>4. \/ UNCHANGED stamped
      \/ \E s, e : s \notin DOMAIN stamped /\ stamped' = Put(stamped, s, e)
  BY DEF Arrivals, AskChallenge, PostLogin, UseToken, SendStamped
<1>5. \A s \in DOMAIN stamped : s \in DOMAIN stamped' /\ stamped'[s] = stamped[s]
  BY <1>4 DEF Put
<1> QED BY <1>2, <1>3, <1>5, StampStays

\* What a step of one handler leaves alone.
OthersStay(t) ==
    /\ \A u \in Threads \ {t} : pc'[u] = pc[u] /\ req'[u] = req[u] /\ clock'[u] = clock[u]
    /\ UNCHANGED stamped

LEMMA StampHandles ==
    ASSUME TypeInv, StampInv, NEW t \in Threads, Handles(t)
    PROVE  StampInv'
<1>0. /\ req \in [Threads -> Requests] /\ pc \in [Threads -> ThreadPc] /\ clock \in [Threads -> Nat]
      /\ pushed \in Seq(Entries) /\ recent_nonces \in Seq(Stamps)
      /\ now \in Nat /\ looked \in [Threads -> Nat]
  BY DEF TypeInv, ThreadInv, TableInv
<1>1. ASSUME NEW from, NEW to, Step(t, from, to), UNCHANGED clock \/ ReadClock(t)
      PROVE  OthersStay(t) /\ pc[t] = from /\ pc'[t] = to /\ req' = req
  BY <1>0, <1>1 DEF Step, Goto, ReadClock, outside, OthersStay
<1>2. ASSUME NEW from, NEW label, Answer(t, from, label)
      PROVE  OthersStay(t) /\ pc[t] = from /\ pc'[t] = label
  BY <1>0, <1>2 DEF Answer, Goto, outside, OthersStay
<1>3. ASSUME OthersStay(t), pc'[t] \notin InRecent, UNCHANGED <<recent_nonces, pushed, looked>>,
             torn \subseteq torn'
      PROVE  StampInv'
  BY <1>3, StampStays DEF OthersStay
<1>4. "accepted" \notin InRecent /\ "refused" \notin InRecent
  BY DEF InRecent
<1>5. CASE CleanupNonces(t) \/ InsertNonce(t) \/ FindNonce(t) \/ CheckUsed(t) \/ CheckAge(t)
  <2>1. UNCHANGED <<recent_nonces, pushed, looked, torn>> /\ OthersStay(t)
        /\ pc'[t] \in {"accepted", "refused", "insert_nonce", "check_used", "check_age", "mark_used"}
    BY <1>1, <1>2, <1>5 DEF CleanupNonces, InsertNonce, FindNonce, CheckUsed, CheckAge, RefuseNonce,
       tables, history
  <2> QED BY <1>3, <2>1 DEF InRecent
<1>6. CASE MarkUsed(t) \/ CleanupTokens(t) \/ InsertToken(t) \/ FindToken(t) \/ CheckExpiry(t)
  <2>1. UNCHANGED <<recent_nonces, pushed, looked, torn>> /\ OthersStay(t)
        /\ pc'[t] \in {"accepted", "refused", "cleanup_tokens", "insert_token", "check_expiry"}
    BY <1>1, <1>2, <1>6 DEF MarkUsed, LoginOrNot, CleanupTokens, InsertToken, FindToken, CheckExpiry,
       tables, history
  <2> QED BY <1>3, <2>1 DEF InRecent
<1>7. CASE UseErasedNonce(t) \/ UseErasedToken(t)
  <2>1. UNCHANGED <<recent_nonces, pushed, looked>> /\ torn \subseteq torn' /\ OthersStay(t)
        /\ pc'[t] \in {"accepted", "refused", "check_age", "mark_used", "cleanup_tokens"}
    BY <1>1, <1>2, <1>7 DEF UseErasedNonce, LoginOrNot, UseErasedToken, tables, history
  <2> QED BY <1>3, <2>1 DEF InRecent
<1>8. CASE CheckTime(t)
  <2>1. UNCHANGED <<recent_nonces, pushed, looked, torn>>
    BY <1>8 DEF CheckTime, tables, history
  <2>2. CASE Answer(t, "check_time", "refused")
    BY <1>2, <1>3, <1>4, <2>1, <2>2
  <2>3. CASE /\ Near(now, stamped[req[t].stamp].timestamp)
             /\ Step(t, "check_time", "find_stamp") /\ ReadClock(t)
    <3>1. OthersStay(t) /\ pc'[t] = "find_stamp" /\ req' = req
      BY <1>1, <2>3
    <3>2. clock'[t] = now
      BY <1>0, <2>3 DEF ReadClock
    <3>3. Clocked(t)'
      BY <2>3, <3>1, <3>2 DEF Clocked, Stamp, OthersStay
    <3>4. ASSUME NEW u \in Threads \ {t} PROVE Clocked(u)'
      BY <3>1, <3>4 DEF StampInv, Clocked, Stamp, OthersStay
    <3>5. Timely' /\ ("recent_nonces" \notin torn' => EndOf(recent_nonces, pushed)' /\ FarApart')
      BY <2>1, <3>1 DEF StampInv, Timely, EndOf, FarApart, OthersStay
    <3>6. ASSUME "recent_nonces" \notin torn', NEW u \in Threads PROVE Unseen(u)'
      <4>1. CASE u = t
        BY <3>1, <4>1 DEF Unseen
      <4>2. CASE u # t
        BY <2>1, <3>1, <3>6, <4>2 DEF StampInv, Unseen, Gone, Stamp, OthersStay
      <4> QED BY <4>1, <4>2
    <3> QED BY <3>1, <3>3, <3>4, <3>5, <3>6 DEF StampInv
  <2> QED BY <1>8, <2>2, <2>3 DEF CheckTime
<1>9. CASE FindStamp(t)
  <2>1. UNCHANGED <<recent_nonces, pushed, torn>>
    BY <1>9 DEF FindStamp, tables
  <2>2. CASE Answer(t, "find_stamp", "refused") /\ UNCHANGED looked
    BY <1>2, <1>3, <1>4, <2>1, <2>2
  <2>3. CASE /\ ~ Occurs(req[t].stamp, recent_nonces)
             /\ Step(t, "find_stamp", "push_stamp") /\ UNCHANGED clock
             /\ looked' = [looked EXCEPT ![t] = Len(pushed)]
    <3>1. OthersStay(t) /\ pc[t] = "find_stamp" /\ pc'[t] = "push_stamp" /\ req' = req
      BY <1>1, <2>3
    <3>2. ASSUME NEW u \in Threads PROVE Clocked(u)'
      BY <2>3, <3>1 DEF StampInv, Clocked, Stamp, OthersStay, InRecent
    <3>3. Timely' /\ ("recent_nonces" \notin torn' => EndOf(recent_nonces, pushed)' /\ FarApart')
      BY <2>1, <3>1 DEF StampInv, Timely, EndOf, FarApart, OthersStay
    <3>4. ASSUME "recent_nonces" \notin torn', NEW u \in Threads PROVE Unseen(u)'
      <4>1. CASE u = t
        <5>1. looked'[t] = Len(pushed) /\ Len(pushed) \in Nat
          BY <1>0, <2>3
        <5>2. EndOf(recent_nonces, pushed)
          BY <2>1, <3>4 DEF StampInv
        <5>3. Gone(Len(pushed), Stamp(t))
          BY <1>0, <2>3, <5>2, GoneWhenUnseen DEF TypeInv, TableInv, Stamp
        <5> QED BY <2>1, <3>1, <4>1, <5>1, <5>3 DEF Unseen, Gone, Stamp
      <4>2. CASE u # t
        BY <1>0, <2>1, <2>3, <3>1, <3>4, <4>2 DEF StampInv, Unseen, Gone, Stamp, OthersStay
      <4> QED BY <4>1, <4>2
    <3> QED BY <3>1, <3>2, <3>3, <3>4 DEF StampInv
  <2> QED BY <1>9, <2>2, <2>3 DEF FindStamp
<1>10. CASE PushStamp(t)
  <2> DEFINE s == req[t].stamp
             e == [stamp |-> s, at |-> clock[t], looked |-> looked[t]]
             n == Len(pushed)
  <2>1. /\ recent_nonces' = Pushed(recent_nonces, s) /\ pushed' = Append(pushed, e)
        /\ torn' = torn /\ pc[t] = "push_stamp" /\ looked' = [looked EXCEPT ![t] = 0]
    BY <1>10 DEF PushStamp, Answer
  <2>2. OthersStay(t) /\ pc'[t] \notin InRecent
    BY <1>2, <1>4, <1>10 DEF PushStamp
  <2>3. /\ s \in Stamps \cap DOMAIN stamped /\ clock[t] \in Nat /\ n \in Nat
        /\ e \in Entries /\ e.stamp = s /\ e.at = clock[t] /\ e.looked = looked[t]
        /\ Len(recent_nonces) \in Nat /\ MAX_RECENT_NONCES \in Nat
        /\ Len(recent_nonces) <= MAX_RECENT_NONCES
    BY <1>0, <2>1, HandledIs, SignInAssumption DEF TypeInv, TableInv, StampPc, InRecent, Entries
  <2>4. Near(e.at, stamped[s].timestamp)
    BY <2>1, <2>3 DEF StampInv, Clocked, Stamp, InRecent
  <2> HIDE DEF e
  <2>6. /\ DOMAIN pushed' = 1 .. n + 1 /\ DOMAIN pushed = 1 .. n /\ Len(pushed') = n + 1
        /\ pushed'[n + 1] = e /\ \A j \in 1 .. n : pushed'[j] = pushed[j]
    BY <1>0, <2>1, <2>3
  <2>7. Timely'
    <3> SUFFICES ASSUME NEW j \in 1 .. n + 1
                 PROVE  /\ pushed'[j].stamp \in DOMAIN stamped
                        /\ Near(pushed'[j].at, stamped[pushed'[j].stamp].timestamp)
      BY <2>2, <2>6 DEF Timely, OthersStay, Near
    <3>1. CASE j = n + 1
      BY <2>3, <2>4, <2>6, <3>1
    <3>2. CASE j \in 1 .. n
      BY <2>6, <3>2 DEF StampInv, Timely
    <3> QED BY <2>3, <3>1, <3>2
  <2>8. ASSUME NEW u \in Threads PROVE Clocked(u)'
    BY <2>2 DEF StampInv, Clocked, Stamp, OthersStay
  <2>9. ASSUME "recent_nonces" \notin torn PROVE EndOf(recent_nonces, pushed)'
    <3>1. EndOf(recent_nonces, pushed)
      BY <2>9 DEF StampInv
    <3>2. EndOf(Pushed(recent_nonces, e.stamp), Append(pushed, e))
      BY <1>0, <2>3, <3>1, EndOfPushed
    <3> QED BY <2>1, <2>3, <3>2
  <2>10. ASSUME "recent_nonces" \notin torn PROVE FarApart'
    <3> SUFFICES ASSUME NEW i \in 1 .. n + 1, NEW j \in 1 .. n + 1, i < j,
                        pushed'[i].stamp = pushed'[j].stamp
                 PROVE  pushed'[j].looked < i \/ pushed'[j].looked - i >= MAX_RECENT_NONCES
      BY <2>6 DEF FarApart
    <3>1. CASE j \in 1 .. n
      <4>1. i \in 1 .. n
        BY <2>3, <3>1
      <4> QED BY <2>6, <2>10, <3>1, <4>1 DEF StampInv, FarApart
    <3>2. CASE j = n + 1
      <4>1. i \in 1 .. n /\ pushed[i].stamp = s /\ pushed'[j].looked = looked[t]
        BY <2>3, <2>6, <3>2
      <4>2. Gone(looked[t], s)
        BY <2>1, <2>10 DEF StampInv, Unseen, Stamp
      <4>3. looked[t] \in Nat
        BY <1>0
      <4> QED BY <2>3, <2>6, <4>1, <4>2, <4>3 DEF Gone
    <3> QED BY <2>3, <3>1, <3>2
  <2>11. ASSUME "recent_nonces" \notin torn, NEW u \in Threads PROVE Unseen(u)'
    <3>1. CASE u = t
      BY <2>2, <3>1 DEF Unseen, InRecent
    <3>2. CASE u # t
      <4>1. pc'[u] = pc[u] /\ Stamp(u)' = Stamp(u) /\ looked'[u] = looked[u] /\ looked[u] \in Nat
        BY <1>0, <2>1, <2>2, <3>2 DEF OthersStay, Stamp
      <4>2. pc[u] = "push_stamp" => looked[u] <= n /\ Gone(looked[u], Stamp(u))
        BY <2>11 DEF StampInv, Unseen
      <4>3. ASSUME pc[u] = "push_stamp" PROVE looked'[u] <= Len(pushed') /\ Gone(looked[u], Stamp(u))'
        <5>1. looked[u] <= n /\ Gone(looked[u], Stamp(u))
          BY <4>2, <4>3
        <5>2. ASSUME NEW i \in 1 .. n + 1, i <= looked[u], pushed'[i].stamp = Stamp(u)
              PROVE  looked[u] - i >= MAX_RECENT_NONCES
          <6>1. i \in 1 .. n
            BY <2>3, <4>1, <5>1, <5>2
          <6> QED BY <2>6, <5>1, <5>2, <6>1 DEF Gone
        <5> QED BY <2>3, <2>6, <4>1, <5>1, <5>2 DEF Gone
      <4> QED BY <4>1, <4>3 DEF Unseen
    <3> QED BY <3>1, <3>2
  <2> QED BY <2>1, <2>2, <2>7, <2>8, <2>9, <2>10, <2>11 DEF StampInv
<1> QED BY <1>5, <1>6, <1>7, <1>8, <1>9, <1>10 DEF Handles

LEMMA StampNext == TypeInv /\ StampInv /\ [Next]_vars => StampInv'
<1> SUFFICES ASSUME TypeInv, StampInv, [Next]_vars PROVE StampInv'
  OBVIOUS
<1>1. ASSUME UNCHANGED <<threadVars, stamped, recent_nonces, pushed, looked>>, torn \subseteq torn'
      PROVE  StampInv'
  BY <1>1, StampStays DEF threadVars
<1>2. ASSUME NEW t \in Threads, NEW u \in Threads, Meet(t, u) PROVE StampInv'
  BY <1>1, <1>2 DEF Meet, tables, history, outside
<1>3. CASE LoseEntry
  <2>1. CASE UNCHANGED recent_nonces
    BY <1>1, <1>3, <2>1 DEF LoseEntry, outside, history
  <2>2. CASE "recent_nonces" \in torn
    <3>1. UNCHANGED <<threadVars, stamped, pushed, torn>>
      BY <1>3 DEF LoseEntry, outside, history
    <3>2. Timely' /\ \A t \in Threads : Clocked(t)'
      BY <3>1 DEF StampInv, Timely, Clocked, Stamp, threadVars
    <3> QED BY <2>2, <3>1, <3>2 DEF StampInv
  <2> QED BY <1>3, <2>1, <2>2 DEF LoseEntry
<1>4. CASE Restart
  <2>1. /\ recent_nonces' = <<>> /\ pushed' = <<>>
        /\ \A t \in Threads : pc'[t] = "idle"
    BY <1>4 DEF Restart
  <2>2. Timely' /\ \A t \in Threads : Clocked(t)' /\ Unseen(t)'
    BY <2>1 DEF Timely, Clocked, Unseen, InRecent
  <2>3. EndOf(recent_nonces, pushed)' /\ FarApart'
    BY <2>1 DEF EndOf, FarApart
  <2> QED BY <2>2, <2>3 DEF StampInv
<1>5. CASE Tick
  BY <1>1, <1>5 DEF Tick, tables, history
<1>6. CASE UNCHANGED vars
  BY <1>1, <1>6 DEF vars, tables, outside, history
<1> QED BY <1>2, <1>3, <1>4, <1>5, <1>6, StampArrives, StampHandles DEF Next

\* Unless two threads have met in the window, a stamp that is entered again
\* (auth.cpp:272-283) was searched for when more than MAX_RECENT_NONCES stamps
\* had been entered from the first on, or before the first was entered, and its
\* clock was read within twice the tolerance of the first time's, for any size
\* of the window and any number of copies at once.
THEOREM StampsComeOnce == Spec => []StampOnce
<1>1. Init => StampInv
  BY DEF Init, StampInv, Timely, Clocked, Unseen, InRecent, EndOf, FarApart
<1>2. TypeInv /\ StampInv => StampOnce
  <2> SUFFICES ASSUME TypeInv, StampInv, "recent_nonces" \notin torn,
                      NEW i \in DOMAIN pushed, NEW j \in DOMAIN pushed,
                      i < j, pushed[i].stamp = pushed[j].stamp
               PROVE  /\ pushed[j].looked < i \/ pushed[j].looked - i >= MAX_RECENT_NONCES
                      /\ pushed[j].at - pushed[i].at <= 2 * TIMESTAMP_TOLERANCE
    BY DEF StampOnce
  <2>1. pushed[j].looked < i \/ pushed[j].looked - i >= MAX_RECENT_NONCES
    BY DEF StampInv, FarApart
  <2>2. PICK ts \in Int : Near(pushed[i].at, ts) /\ Near(pushed[j].at, ts)
    BY DEF StampInv, Timely, TypeInv, TableInv
  <2>3. pushed[i].at \in Nat /\ pushed[j].at \in Nat /\ TIMESTAMP_TOLERANCE \in Nat
    <3>1. pushed \in Seq(Entries)
      BY DEF TypeInv, TableInv
    <3>2. pushed[i] \in Entries /\ pushed[j] \in Entries
      BY <3>1, ElementOf
    <3> QED BY <3>2, SignInAssumption DEF Entries
  <2> QED BY <2>1, <2>2, <2>3 DEF Near
<1> QED BY <1>1, <1>2, TypeInit, TypeNext, StampNext, PTL DEF Spec

=============================================================================
