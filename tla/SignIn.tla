------------------------------- MODULE SignIn -------------------------------
(***************************************************************************)
(* Sign-in of administrators and request stamps of clients                 *)
(* (server/src/auth.cpp, called by admin_api.cpp and client_api.cpp).      *)
(*                                                                         *)
(* The threads of the server's pool share three tables and no lock: the    *)
(* challenges (nonces_) and sessions (tokens_) of AdminAuth, and the last  *)
(* stamps of ClientAuth (recent_nonces_).  A handler finds an entry, then  *)
(* reads it, then erases or changes it, so there is one action per access. *)
(* Two threads in one table at once, and the use of an entry that another  *)
(* thread has erased, are undefined: what is read is anything, and from    *)
(* then on entries may be lost or the process may die.                     *)
(*                                                                         *)
(* Passwords and signatures are right or wrong; random_hex draws a value   *)
(* that was not drawn before.                                              *)
(***************************************************************************)
EXTENDS Integers, Sequences

CONSTANTS
    Threads,    \* threads of the server's pool
    Challenges, \* nonces that generate_nonce draws
    Tokens,     \* tokens that verify_login draws
    Stamps,     \* nonces that clients draw
    None,       \* no challenge, token or stamp
    NonceLife, TokenLife,   \* 60 seconds, 24 hours
    TIMESTAMP_TOLERANCE,    \* 10 minutes
    MAX_RECENT_NONCES,      \* 100
    Skews,      \* how far a stamp's time may be from the server's on arrival
    MaxTime,    \* bound: the time that passes
    MaxRequests \* bound: requests to the server

ASSUME SignInAssumption ==
    /\ NonceLife \in Nat /\ TokenLife \in Nat /\ TIMESTAMP_TOLERANCE \in Nat
    /\ MAX_RECENT_NONCES \in Nat /\ Skews \subseteq Int
    /\ MaxTime \in Nat /\ MaxRequests \in Nat
    /\ None \notin Challenges /\ None \notin Tokens /\ None \notin Stamps

VARIABLES
    now,            \* time(NULL) on the server
    nonces, tokens, \* the maps of AdminAuth
    recent_nonces,  \* the window of ClientAuth, the oldest first
    pc, req, clock, \* threads: the next access, the request, the local `now`
    requests,       \* requests so far
    stamped,        \* what each stamp of a client says
    drawn,          \* challenges and tokens drawn so far
    torn,           \* tables whose use has become undefined
    \* history
    asked,          \* challenges of this process: when each was entered
    tried,          \* challenges a login has used up
    won,            \* tokens: the challenge each was given for
    opened,         \* tokens of this process: when the login was checked
    doubled,        \* challenges two logins were past the check of at once
    looked,         \* threads: the stamps entered when it searched the window
    pushed          \* stamps of this process in the order they were entered

tables == <<nonces, tokens, recent_nonces>>
threadVars == <<pc, req, clock>>
outside == <<now, requests, stamped>>
history == <<asked, tried, won, opened, doubled, looked, pushed>>
vars == <<tables, threadVars, outside, drawn, torn, history>>

Free == {"idle", "accepted", "refused"}
HoldsNonce == {"check_used", "check_age", "mark_used"}
InNonces == HoldsNonce \cup {"cleanup_nonces", "insert_nonce", "find_nonce"}
InTokens == {"cleanup_tokens", "insert_token", "find_token", "check_expiry"}
InRecent == {"find_stamp", "push_stamp"}
ThreadPc == Free \cup InNonces \cup InTokens \cup InRecent \cup {"check_time"}

\* What a login is: right, with another name, or with another password.
Logins == {"right", "wrong_name", "wrong_sign"}
Requests == [challenge : Challenges \cup {None}, login : Logins,
             token : Tokens \cup {None}, stamp : Stamps \cup {None}]
NoRequest == [challenge |-> None, login |-> "right", token |-> None, stamp |-> None]

\* std::map: an entry is set, or erased.
Nothing == [x \in {} |-> 0]
Put(f, key, entry) == [x \in DOMAIN f \cup {key} |-> IF x = key THEN entry ELSE f[x]]
Keep(f, S) == [x \in DOMAIN f \cap S |-> f[x]]
Erase(f, key) == Keep(f, DOMAIN f \ {key})

Goto(t, label) == pc' = [pc EXCEPT ![t] = label]
Step(t, from, to) == pc[t] = from /\ Goto(t, to) /\ UNCHANGED <<req, outside>>
Answer(t, from, label) ==
    /\ pc[t] = from /\ Goto(t, label)
    /\ req' = [req EXCEPT ![t] = NoRequest]
    /\ clock' = [clock EXCEPT ![t] = 0]
    /\ UNCHANGED outside
ReadClock(t) == clock' = [clock EXCEPT ![t] = now]

-----------------------------------------------------------------------------
(* Requests arrive at a thread of the pool.                                *)

Arrive(t, r, label) ==
    /\ pc[t] \in Free /\ requests < MaxRequests
    /\ requests' = requests + 1
    /\ req' = [req EXCEPT ![t] = r]
    /\ Goto(t, label)
    /\ UNCHANGED <<tables, clock, now, drawn, torn, history>>

AskChallenge(t) ==
    /\ Challenges \ drawn # {}
    /\ Arrive(t, NoRequest, "cleanup_nonces")
    /\ UNCHANGED stamped

\* A login with a challenge that was given out, by this process or the last
\* one; it may come again, also while the first is handled.
PostLogin(t) == \E c \in Challenges \cap drawn, login \in Logins :
    /\ Arrive(t, [NoRequest EXCEPT !.challenge = c, !.login = login], "find_nonce")
    /\ UNCHANGED stamped

UseToken(t) == \E k \in DOMAIN won :
    /\ Arrive(t, [NoRequest EXCEPT !.token = k], "find_token")
    /\ UNCHANGED stamped

\* A client whose secret is right or not stamps a request; the request may
\* come again, also while the first is handled.
SendStamped(t) == \E s \in Stamps :
    /\ Arrive(t, [NoRequest EXCEPT !.stamp = s], "check_time")
    /\ \/ s \in DOMAIN stamped /\ UNCHANGED stamped
       \/ /\ s \notin DOMAIN stamped
          /\ \E skew \in Skews, right \in BOOLEAN :
                stamped' = Put(stamped, s, [timestamp |-> now + skew, right |-> right])

-----------------------------------------------------------------------------
(* generate_nonce                                                          *)

\* Mutant: a challenge that is just old enough to be good is erased.
CleanupNoncesEarly(t) ==
    /\ Step(t, "cleanup_nonces", "insert_nonce")
    /\ nonces' = Keep(nonces, {c \in DOMAIN nonces : ~ nonces[c].used
                                    /\ now - nonces[c].created < NonceLife})
    /\ UNCHANGED <<tokens, recent_nonces, clock, drawn, torn, history>>

CleanupNonces(t) ==
    /\ Step(t, "cleanup_nonces", "insert_nonce")
    /\ nonces' = Keep(nonces, {c \in DOMAIN nonces : ~ nonces[c].used
                                    /\ now - nonces[c].created <= NonceLife})
    /\ UNCHANGED <<tokens, recent_nonces, clock, drawn, torn, history>>

InsertNonce(t) == \E c \in Challenges \ drawn :
    /\ Answer(t, "insert_nonce", "accepted")
    /\ nonces' = Put(nonces, c, [created |-> now, used |-> FALSE])
    /\ drawn' = drawn \cup {c}
    /\ asked' = Put(asked, c, now)
    /\ UNCHANGED <<tokens, recent_nonces, torn, tried, won, opened, doubled, looked, pushed>>

-----------------------------------------------------------------------------
(* verify_login                                                            *)

FindNonce(t) ==
    /\ \/ /\ req[t].login = "wrong_name" \/ req[t].challenge \notin DOMAIN nonces
          /\ Answer(t, "find_nonce", "refused")
       \/ /\ req[t].login # "wrong_name" /\ req[t].challenge \in DOMAIN nonces
          /\ Step(t, "find_nonce", "check_used") /\ UNCHANGED clock
    /\ UNCHANGED <<tables, drawn, torn, history>>

RefuseNonce(t, from) ==
    /\ Answer(t, from, "refused")
    /\ nonces' = Erase(nonces, req[t].challenge)
    /\ UNCHANGED <<tokens, recent_nonces, drawn, torn, history>>

\* The logins with a challenge that are past the check, before the mark.
Unmarked(c) == {t \in Threads : pc[t] \in {"check_age", "mark_used"} /\ req[t].challenge = c}

CheckUsed(t) ==
    LET c == req[t].challenge IN
    /\ c \in DOMAIN nonces
    /\ \/ nonces[c].used /\ RefuseNonce(t, "check_used")
       \/ /\ ~ nonces[c].used
          /\ Step(t, "check_used", "check_age")
          /\ doubled' = IF Unmarked(c) = {} THEN doubled ELSE doubled \cup {c}
          /\ UNCHANGED <<tables, clock, drawn, torn, asked, tried, won, opened, looked, pushed>>

CheckAge(t) ==
    /\ req[t].challenge \in DOMAIN nonces
    /\ LET age == now - nonces[req[t].challenge].created IN
       \/ age > NonceLife /\ RefuseNonce(t, "check_age")
       \/ /\ age <= NonceLife
          /\ Step(t, "check_age", "mark_used") /\ ReadClock(t)
          /\ UNCHANGED <<tables, drawn, torn, history>>

\* A wrong password has used the challenge up.
LoginOrNot(t) ==
    /\ \/ req[t].login = "right" /\ Step(t, "mark_used", "cleanup_tokens") /\ UNCHANGED clock
       \/ req[t].login # "right" /\ Answer(t, "mark_used", "refused")
    /\ tried' = tried \cup {req[t].challenge}
    /\ UNCHANGED <<tokens, recent_nonces, drawn, asked, won, opened, doubled, looked, pushed>>

\* Mutant: the challenge is not marked.
MarkNothing(t) ==
    /\ req[t].challenge \in DOMAIN nonces
    /\ LoginOrNot(t) /\ UNCHANGED <<nonces, torn>>

MarkUsed(t) ==
    /\ req[t].challenge \in DOMAIN nonces
    /\ LoginOrNot(t)
    /\ nonces' = [nonces EXCEPT ![req[t].challenge].used = TRUE]
    /\ UNCHANGED torn

CleanupTokens(t) ==
    /\ Step(t, "cleanup_tokens", "insert_token")
    /\ tokens' = Keep(tokens, {k \in DOMAIN tokens : now <= tokens[k]})
    /\ UNCHANGED <<nonces, recent_nonces, clock, drawn, torn, history>>

InsertToken(t) == \E k \in Tokens \ drawn :
    /\ Answer(t, "insert_token", "accepted")
    /\ tokens' = Put(tokens, k, clock[t] + TokenLife)
    /\ drawn' = drawn \cup {k}
    /\ won' = Put(won, k, req[t].challenge)
    /\ opened' = Put(opened, k, clock[t])
    /\ UNCHANGED <<nonces, recent_nonces, torn, asked, tried, doubled, looked, pushed>>

-----------------------------------------------------------------------------
(* verify_token                                                            *)

FindToken(t) ==
    /\ \/ /\ req[t].token \notin DOMAIN tokens
          /\ Answer(t, "find_token", "refused")
       \/ /\ req[t].token \in DOMAIN tokens
          /\ Step(t, "find_token", "check_expiry") /\ UNCHANGED clock
    /\ UNCHANGED <<tables, drawn, torn, history>>

\* Mutant: a session is closed when its last second begins.
CheckExpiryEarly(t) ==
    /\ req[t].token \in DOMAIN tokens
    /\ \/ /\ now >= tokens[req[t].token]
          /\ Answer(t, "check_expiry", "refused")
          /\ tokens' = Erase(tokens, req[t].token)
       \/ /\ now < tokens[req[t].token]
          /\ Answer(t, "check_expiry", "accepted")
          /\ UNCHANGED tokens
    /\ UNCHANGED <<nonces, recent_nonces, drawn, torn, history>>

CheckExpiry(t) ==
    /\ req[t].token \in DOMAIN tokens
    /\ \/ /\ now > tokens[req[t].token]
          /\ Answer(t, "check_expiry", "refused")
          /\ tokens' = Erase(tokens, req[t].token)
       \/ /\ now <= tokens[req[t].token]
          /\ Answer(t, "check_expiry", "accepted")
          /\ UNCHANGED tokens
    /\ UNCHANGED <<nonces, recent_nonces, drawn, torn, history>>

-----------------------------------------------------------------------------
(* verify_xauth                                                            *)

Near(a, b) == a - b <= TIMESTAMP_TOLERANCE /\ b - a <= TIMESTAMP_TOLERANCE
Occurs(x, s) == \E i \in DOMAIN s : s[i] = x

\* Mutant: a stamp exactly as old as is tolerated is refused.
CheckTimeStrictly(t) ==
    /\ pc[t] = "check_time"
    /\ LET ts == stamped[req[t].stamp].timestamp IN
       \/ ~ (Near(now, ts - 1) /\ Near(now, ts + 1)) /\ Answer(t, "check_time", "refused")
       \/ /\ Near(now, ts - 1) /\ Near(now, ts + 1)
          /\ Step(t, "check_time", "find_stamp") /\ ReadClock(t)
    /\ UNCHANGED <<tables, drawn, torn, history>>

CheckTime(t) ==
    /\ pc[t] = "check_time"
    /\ \/ /\ ~ Near(now, stamped[req[t].stamp].timestamp)
          /\ Answer(t, "check_time", "refused")
       \/ /\ Near(now, stamped[req[t].stamp].timestamp)
          /\ Step(t, "check_time", "find_stamp") /\ ReadClock(t)
    /\ UNCHANGED <<tables, drawn, torn, history>>

FindStamp(t) ==
    /\ \/ /\ Occurs(req[t].stamp, recent_nonces)
          /\ Answer(t, "find_stamp", "refused") /\ UNCHANGED looked
       \/ /\ ~ Occurs(req[t].stamp, recent_nonces)
          /\ Step(t, "find_stamp", "push_stamp") /\ UNCHANGED clock
          /\ looked' = [looked EXCEPT ![t] = Len(pushed)]
    /\ UNCHANGED <<tables, drawn, torn, asked, tried, won, opened, doubled, pushed>>

\* Mutants: the window holds one stamp less, or one more.
PushedShort(window, s) ==
    IF Len(window) >= MAX_RECENT_NONCES - 1 THEN Tail(Append(window, s)) ELSE Append(window, s)
PushedLong(window, s) ==
    IF Len(window) > MAX_RECENT_NONCES THEN Tail(Append(window, s)) ELSE Append(window, s)

\* push_back; the oldest is evicted when the window is over its limit
Pushed(window, s) ==
    IF Len(window) >= MAX_RECENT_NONCES THEN Tail(Append(window, s)) ELSE Append(window, s)

\* The stamp is entered before its signature is looked at.
PushStamp(t) ==
    LET s == req[t].stamp IN
    /\ Answer(t, "push_stamp", IF stamped[s].right THEN "accepted" ELSE "refused")
    /\ recent_nonces' = Pushed(recent_nonces, s)
    /\ pushed' = Append(pushed, [stamp |-> s, at |-> clock[t], looked |-> looked[t]])
    /\ looked' = [looked EXCEPT ![t] = 0]
    /\ UNCHANGED <<nonces, tokens, drawn, torn, asked, tried, won, opened, doubled>>

-----------------------------------------------------------------------------
(* Undefined behaviour: two threads in a table one of them changes the     *)
(* shape of, an entry used that is gone, and what may come of it.          *)

Table(label) == CASE label \in InNonces -> "nonces"
                  [] label \in InTokens -> "tokens"
                  [] label \in InRecent -> "recent_nonces"
                  [] OTHER -> "none"
Reshapes == {"cleanup_nonces", "insert_nonce", "check_used", "check_age",
             "cleanup_tokens", "insert_token", "check_expiry", "push_stamp"}

Meet(t, u) ==
    /\ t # u /\ pc[t] \in Reshapes /\ Table(pc[t]) = Table(pc[u])
    /\ Table(pc[t]) \notin torn
    /\ torn' = torn \cup {Table(pc[t])}
    /\ UNCHANGED <<tables, threadVars, outside, drawn, history>>

NonceIsGone(t) == pc[t] \in HoldsNonce /\ req[t].challenge \notin DOMAIN nonces
TokenIsGone(t) == pc[t] = "check_expiry" /\ req[t].token \notin DOMAIN tokens

UseErasedNonce(t) ==
    /\ NonceIsGone(t)
    /\ torn' = torn \cup {"nonces"}
    /\ \/ /\ \/ Answer(t, "check_used", "refused")
             \/ Step(t, "check_used", "check_age") /\ UNCHANGED clock
             \/ Answer(t, "check_age", "refused")
             \/ Step(t, "check_age", "mark_used") /\ ReadClock(t)
          /\ UNCHANGED <<tables, drawn, history>>
       \/ LoginOrNot(t) /\ UNCHANGED nonces

UseErasedToken(t) ==
    /\ TokenIsGone(t)
    /\ torn' = torn \cup {"tokens"}
    /\ \E label \in {"accepted", "refused"} : Answer(t, "check_expiry", label)
    /\ UNCHANGED <<tables, drawn, history>>

LoseEntry ==
    /\ \/ /\ "nonces" \in torn
          /\ \E c \in DOMAIN nonces : nonces' = Erase(nonces, c)
          /\ UNCHANGED <<tokens, recent_nonces>>
       \/ /\ "tokens" \in torn
          /\ \E k \in DOMAIN tokens : tokens' = Erase(tokens, k)
          /\ UNCHANGED <<nonces, recent_nonces>>
       \/ /\ "recent_nonces" \in torn
          /\ recent_nonces # <<>> /\ recent_nonces' = Tail(recent_nonces)
          /\ UNCHANGED <<nonces, tokens>>
    /\ UNCHANGED <<threadVars, outside, drawn, torn, history>>

-----------------------------------------------------------------------------
(* The process ends at any time, and starts again with empty tables.       *)

Restart ==
    /\ nonces' = Nothing /\ tokens' = Nothing /\ recent_nonces' = <<>>
    /\ pc' = [t \in Threads |-> "idle"]
    /\ req' = [t \in Threads |-> NoRequest]
    /\ clock' = [t \in Threads |-> 0]
    /\ torn' = {}
    /\ asked' = Nothing /\ opened' = Nothing /\ doubled' = {}
    /\ looked' = [t \in Threads |-> 0] /\ pushed' = <<>>
    /\ UNCHANGED <<outside, drawn, tried, won>>

Tick ==
    /\ now < MaxTime /\ now' = now + 1
    /\ UNCHANGED <<tables, threadVars, requests, stamped, drawn, torn, history>>

Init ==
    /\ now = 0 /\ requests = 0 /\ stamped = Nothing
    /\ nonces = Nothing /\ tokens = Nothing /\ recent_nonces = <<>>
    /\ pc = [t \in Threads |-> "idle"]
    /\ req = [t \in Threads |-> NoRequest]
    /\ clock = [t \in Threads |-> 0]
    /\ drawn = {} /\ torn = {}
    /\ asked = Nothing /\ tried = {} /\ won = Nothing /\ opened = Nothing
    /\ doubled = {} /\ looked = [t \in Threads |-> 0] /\ pushed = <<>>

Arrivals(t) == AskChallenge(t) \/ PostLogin(t) \/ UseToken(t) \/ SendStamped(t)
Handles(t) ==
    \/ CleanupNonces(t) \/ InsertNonce(t)
    \/ FindNonce(t) \/ CheckUsed(t) \/ CheckAge(t) \/ MarkUsed(t)
    \/ CleanupTokens(t) \/ InsertToken(t)
    \/ FindToken(t) \/ CheckExpiry(t)
    \/ CheckTime(t) \/ FindStamp(t) \/ PushStamp(t)
    \/ UseErasedNonce(t) \/ UseErasedToken(t)

Next ==
    \/ \E t \in Threads : Arrivals(t) \/ Handles(t)
    \/ \E t, u \in Threads : Meet(t, u)
    \/ LoseEntry \/ Restart \/ Tick

Spec == Init /\ [][Next]_vars

-----------------------------------------------------------------------------
(* Properties                                                              *)

\* The tables hold entries of what was drawn, and a thread that is not busy
\* has no request.
TypeOK ==
    /\ now \in Nat /\ requests \in Nat
    /\ pc \in [Threads -> ThreadPc] /\ req \in [Threads -> Requests]
    /\ clock \in [Threads -> Nat]
    /\ \A t \in Threads : pc[t] \in Free => req[t] = NoRequest
    /\ DOMAIN nonces \subseteq Challenges \cap drawn
    /\ \A c \in DOMAIN nonces : nonces[c] \in [created : Nat, used : BOOLEAN]
    /\ DOMAIN tokens \subseteq DOMAIN opened
    /\ \A k \in DOMAIN tokens : tokens[k] \in Nat
    /\ recent_nonces \in Seq(Stamps) /\ Len(recent_nonces) <= MAX_RECENT_NONCES
    /\ DOMAIN stamped \subseteq Stamps
    /\ \A s \in DOMAIN stamped : stamped[s] \in [timestamp : Int, right : BOOLEAN]
    /\ DOMAIN asked \subseteq Challenges \cap drawn
    /\ DOMAIN opened \subseteq DOMAIN won /\ DOMAIN won \subseteq Tokens \cap drawn
    /\ tried \subseteq Challenges \cap drawn /\ doubled \subseteq Challenges \cap drawn
    /\ looked \in [Threads -> Nat]

\* A challenge is good for one session, however often its login is sent, and
\* whatever cleaning, other logins and restarts come in between (verify_login
\* marks the nonce at auth.cpp:161, cleanup_expired_nonces erases it), unless
\* two threads passed the check (line 146) before either came to the mark:
\* then both open a session, with the table intact.
OneLoginPerChallenge ==
    "nonces" \notin torn =>
        \A k \in DOMAIN opened, l \in DOMAIN won :
            won[k] = won[l] => k = l \/ won[k] \in doubled

\* The answer to a login: a token only for a right one whose challenge was
\* entered by this process and not too old when it was checked; refused, when
\* it is right, only if the challenge is of an earlier process, used up or too
\* old, never because another thread's cleaning or login came in between.
LoginAnswers == [][\A t \in Threads :
    LET c == req[t].challenge IN
    c # None /\ "nonces" \notin torn' =>
        /\ pc'[t] = "accepted" =>
                /\ req[t].login = "right" /\ c \in DOMAIN asked
                /\ clock[t] - asked[c] <= NonceLife
        /\ pc'[t] = "refused" /\ req[t].login = "right" =>
                c \notin DOMAIN asked \/ c \in tried \/ now - asked[c] > NonceLife]_vars

\* A token is accepted exactly while the session it was given for is open:
\* 24 hours from the login, and not after a restart.
SessionAnswers == [][\A t \in Threads :
    LET k == req[t].token IN
    k # None /\ pc'[t] \in {"accepted", "refused"} /\ "tokens" \notin torn' =>
        (pc'[t] = "accepted" <=> k \in DOMAIN opened /\ now - opened[k] <= TokenLife)]_vars

\* A stamped request is refused only if its client's secret or clock is
\* wrong or the same stamp was entered before.
StampAnswers == [][\A t \in Threads :
    LET s == req[t].stamp IN
    s # None /\ pc'[t] = "refused" /\ "recent_nonces" \notin torn' =>
        \/ ~ stamped[s].right \/ ~ Near(now, stamped[s].timestamp)
        \/ \E i \in DOMAIN pushed : pushed[i].stamp = s]_vars

\* A stamp is entered a second time only if MAX_RECENT_NONCES others were
\* entered after the first one by the time the window was searched
\* (auth.cpp:269), or the first one was entered after that search, before the
\* push_back (line 279): two threads may search before either enters.  Its
\* clock was read within twice the tolerance of the first time's.
StampOnce ==
    "recent_nonces" \notin torn =>
    \A i, j \in DOMAIN pushed :
        i < j /\ pushed[i].stamp = pushed[j].stamp =>
            /\ pushed[j].looked < i \/ pushed[j].looked - i >= MAX_RECENT_NONCES
            /\ pushed[j].at - pushed[i].at <= 2 * TIMESTAMP_TOLERANCE

=============================================================================
