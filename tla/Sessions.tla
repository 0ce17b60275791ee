------------------------------ MODULE Sessions ------------------------------
(***************************************************************************)
(* Accounts, refresh tokens and password resets in any number of worker    *)
(* processes that share one database.                                      *)
(*                                                                         *)
(* A handler reads, and writes in one later transaction; between the two   *)
(* the other processes go on.  Tokens are rows numbered in the order of    *)
(* their insertion.  The access token that is handed out with a refresh    *)
(* token has its number; it is not stored and expires by itself.  To which  *)
(* organization of its user a token is scoped is left out.                 *)
(***************************************************************************)
EXTENDS Integers, Sequences, FiniteSets

CONSTANTS
    Process,     \* worker processes
    User,        \* e-mail addresses
    AccessTtl,   \* lifetime of an access token
    RefreshTtl,  \* lifetime of a refresh token
    ResetTtl,    \* lifetime of a password reset link
    MaxRows,     \* bound: tokens issued, links requested and resets made
    MaxTime      \* bound: ticks of the clock

ASSUME SessionBounds ==
    /\ {AccessTtl, RefreshTtl, ResetTtl} \subseteq Nat \ {0}
    /\ {MaxRows, MaxTime} \subseteq Nat

VARIABLES
    time,     \* the wall clock
    account,  \* users: password (0 is no account yet, else its version) and active
    token,    \* refresh_tokens
    link,     \* password_reset_tokens
    call,     \* the request of each process between its reads and its writes
    used,     \* observed: the resets made, each with its link
    ended     \* observed: the last logout or reset of each user

sessionVars == <<time, account, token, link, call, used, ended>>

Op == {"register", "login", "refresh", "select", "logout", "request", "reset"}

Call == [op : Op, user : User, from : Nat, seen : Nat, at : 0..MaxTime, pass : Nat]

NoCall == [op |-> "none"]

SessionInit ==
    /\ time = 0
    /\ account = [u \in User |-> [password |-> 0, active |-> FALSE]]
    /\ token = <<>>
    /\ link = <<>>
    /\ call = [p \in Process |-> NoCall]
    /\ used = <<>>
    /\ ended = [u \in User |-> [upto |-> 0, at |-> 0, crossed |-> FALSE]]

-----------------------------------------------------------------------------
(* What the handlers look up.                                              *)

Registered(u) == account[u].password > 0

\* get_current_user: the access token that came with refresh token i.
Authenticated(i) ==
    /\ time < token[i].issued + AccessTtl
    /\ account[token[i].user].active

\* Faulty variant of Redeemable: the row is not asked whether it is revoked.
RedeemableByDate(i) == time < token[i].issued + RefreshTtl

Redeemable(i) ==
    /\ ~token[i].revoked
    /\ time < token[i].issued + RefreshTtl

Usable(r) == ~link[r].used /\ time < link[r].made + ResetTtl

Receive(p, op, u, from, seen) ==
    /\ call[p] = NoCall
    /\ call' = [call EXCEPT ![p] =
                  [op |-> op, user |-> u, from |-> from,
                   seen |-> seen, at |-> time, pass |-> account[u].password]]
    /\ UNCHANGED <<time, account, token, link, used, ended>>

RegisterRead(p, u) ==
    /\ ~Registered(u)
    /\ Receive(p, "register", u, 0, 0)

LoginRead(p, u) ==
    /\ Registered(u) /\ account[u].active
    /\ Receive(p, "login", u, 0, Len(token))

RefreshRead(p, i) ==
    /\ account[token[i].user].active
    /\ Redeemable(i)
    /\ Receive(p, "refresh", token[i].user, i, Len(token))

SelectRead(p, i) ==
    /\ Authenticated(i)
    /\ Receive(p, "select", token[i].user, i, Len(token))

LogoutRead(p, i) ==
    /\ Authenticated(i)
    /\ Receive(p, "logout", token[i].user, i, Len(token))

RequestRead(p, u) ==
    /\ Registered(u)
    /\ Receive(p, "request", u, 0, Len(link))

ResetRead(p, r) ==
    /\ Usable(r)
    /\ account[link[r].user].active
    /\ Receive(p, "reset", link[r].user, r, Len(used))

-----------------------------------------------------------------------------
(* The transaction of a handler.                                           *)

Room == Len(token) + Len(link) + Len(used) < MaxRows

Answer(p) == call' = [call EXCEPT ![p] = NoCall]

\* The UNIQUE address makes the later of two registrations fail.
RegisterWrite(p) ==
    LET c == call[p] IN
    /\ c.op = "register"
    /\ ~Registered(c.user)
    /\ account' = [account EXCEPT ![c.user] =
                     [password |-> 1, active |-> TRUE]]
    /\ Answer(p)
    /\ UNCHANGED <<time, token, link, used, ended>>

IssuedAt == time

\* A new row; a selection or a login starts a session of its own.
NewToken(c) ==
    [user |-> c.user, revoked |-> FALSE, issued |-> IssuedAt,
     op |-> c.op, from |-> c.from, seen |-> c.seen, at |-> c.at,
     root |-> IF c.op = "refresh" THEN token[c.from].root ELSE Len(token) + 1,
     pass |-> IF c.op = "login" THEN c.pass ELSE token[c.from].pass]

IssueWrite(p) ==
    LET c == call[p] IN
    /\ c.op \in {"login", "select"}
    /\ Room
    /\ token' = Append(token, NewToken(c))
    /\ Answer(p)
    /\ UNCHANGED <<time, account, link, used, ended>>

\* Faulty variant of Rotated: the old token is not revoked.
RotatedCopy(c) == token

Rotated(c) == [token EXCEPT ![c.from].revoked = TRUE]

RefreshWrite(p) ==
    LET c == call[p] IN
    /\ c.op = "refresh"
    /\ Room
    /\ token' = Append(Rotated(c), NewToken(c))
    /\ Answer(p)
    /\ UNCHANGED <<time, account, link, used, ended>>

\* Faulty variant of RevokedAll: only the tokens of this moment are revoked.
RevokedYoung(u) ==
    [i \in DOMAIN token |->
       [token[i] EXCEPT !.revoked = @ \/ (token[i].user = u /\ token[i].issued = time)]]

RevokedAll(u) ==
    [i \in DOMAIN token |-> [token[i] EXCEPT !.revoked = @ \/ token[i].user = u]]

\* What an observer notes when the sessions of u are ended: which tokens there
\* are, and whether a request that will issue one has read already.
Ended(p, u) ==
    ended' = [ended EXCEPT ![u] =
                [upto |-> Len(token), at |-> time,
                 crossed |-> \E q \in Process \ {p} :
                               /\ call[q] # NoCall
                               /\ call[q].user = u
                               /\ call[q].op \in {"login", "refresh", "select"}]]

LogoutWrite(p) ==
    LET c == call[p] IN
    /\ c.op = "logout"
    /\ token' = RevokedAll(c.user)
    /\ Ended(p, c.user)
    /\ Answer(p)
    /\ UNCHANGED <<time, account, link, used>>

\* The links of the user that are neither used nor expired are used up.
Superseded(c) ==
    [r \in DOMAIN link |->
       [link[r] EXCEPT !.used = @ \/ (link[r].user = c.user /\ c.at < link[r].made + ResetTtl)]]

RequestWrite(p) ==
    LET c == call[p] IN
    /\ c.op = "request"
    /\ Room
    /\ link' = Append(Superseded(c), [user |-> c.user, made |-> c.at, used |-> FALSE])
    /\ Answer(p)
    /\ UNCHANGED <<time, account, token, used, ended>>

Spent(r) == [link EXCEPT ![r].used = TRUE]

ResetWrite(p) ==
    LET c == call[p] IN
    /\ c.op = "reset"
    /\ Room
    /\ account' = [account EXCEPT ![c.user].password = @ + 1]
    /\ link' = Spent(c.from)
    /\ token' = RevokedAll(c.user)
    /\ used' = Append(used, [link |-> c.from, seen |-> c.seen])
    /\ Ended(p, c.user)
    /\ Answer(p)
    /\ UNCHANGED time

\* A statement fails (the database is locked, or a row is there already), or
\* the process dies: the transaction leaves nothing behind.
CallFails(p) ==
    /\ call[p] # NoCall
    /\ Answer(p)
    /\ UNCHANGED <<time, account, token, link, used, ended>>

-----------------------------------------------------------------------------
(* The active flag has no endpoint: an operator sets it in the database.    *)
Deactivate(u) ==
    /\ account[u].active
    /\ account' = [account EXCEPT ![u].active = FALSE]
    /\ UNCHANGED <<time, token, link, call, used, ended>>

SessionTick ==
    /\ time < MaxTime
    /\ time' = time + 1
    /\ UNCHANGED <<account, token, link, call, used, ended>>

SessionReads(p) ==
    \/ \E u \in User : RegisterRead(p, u) \/ LoginRead(p, u) \/ RequestRead(p, u)
    \/ \E i \in DOMAIN token : RefreshRead(p, i) \/ SelectRead(p, i) \/ LogoutRead(p, i)
    \/ \E r \in DOMAIN link : ResetRead(p, r)

SessionWrites(p) ==
    \/ RegisterWrite(p) \/ IssueWrite(p) \/ RefreshWrite(p) \/ LogoutWrite(p)
    \/ RequestWrite(p) \/ ResetWrite(p) \/ CallFails(p)

SessionNext ==
    \/ \E p \in Process : SessionReads(p) \/ SessionWrites(p)
    \/ \E u \in User : Deactivate(u)
    \/ SessionTick

SessionSpec == SessionInit /\ [][SessionNext]_sessionVars

-----------------------------------------------------------------------------
Token ==
    [user : User, revoked : BOOLEAN, issued : 0..MaxTime,
     op : {"login", "refresh", "select"}, from : Nat, seen : Nat, at : 0..MaxTime,
     root : Nat, pass : Nat]

\* Rows, requests in flight and observations keep their shapes; a request that
\* renews or resets refers to a row that is there.
SessionTypeOK ==
    /\ time \in 0..MaxTime
    /\ account \in [User -> [password : Nat, active : BOOLEAN]]
    /\ token \in Seq(Token)
    /\ link \in Seq([user : User, made : 0..MaxTime, used : BOOLEAN])
    /\ call \in [Process -> Call \cup {NoCall}]
    /\ \A p \in Process : call[p] # NoCall =>
         /\ call[p].op \in {"refresh", "select"} => call[p].from \in 1..Len(token)
         /\ call[p].op = "reset" => call[p].from \in 1..Len(link)
    /\ used \in Seq([link : Nat, seen : Nat])
    /\ ended \in [User -> [upto : Nat, at : 0..MaxTime, crossed : BOOLEAN]]

Live(i) == ~token[i].revoked

\* After a logout or a password reset no session that was begun before is
\* live, and no session proved by an older password, unless a request that
\* issues a token had read before and wrote after; nor does a session come
\* from an access token of that time that was not yet expired.
EndsHold ==
    \A i \in DOMAIN token :
        LET e == ended[token[i].user] IN
        Live(i) /\ ~e.crossed =>
            \/ token[i].root > e.upto /\ token[token[i].root].op = "login"
               /\ token[i].pass = account[token[i].user].password
            \/ token[token[i].root].op = "select" /\ token[i].root > e.upto

\* An access token that outlives a logout or reset can still select an
\* organization and so begin a session, but not for longer than access tokens
\* live.
AfterlifeBounded ==
    \A i \in DOMAIN token :
        LET e == ended[token[i].user] IN
        token[i].op = "select" /\ i > e.upto /\ token[i].from <= e.upto =>
            token[i].at < e.at + AccessTtl

\* Two exchanges of one refresh token overlap: who presents a token after its
\* exchange was committed gets nothing for it.
ExchangesOverlap ==
    \A i, j \in DOMAIN token :
        /\ i < j
        /\ token[i].op = "refresh" /\ token[j].op = "refresh"
        /\ token[i].from = token[j].from
        => token[j].seen < i

\* A user has at most one usable reset link, whichever processes answered the
\* requests for one.
OneResetLink ==
    \A r, s \in DOMAIN link :
        link[r].user = link[s].user /\ Usable(r) /\ Usable(s) => r = s

\* Two resets by one link overlap.
ResetsOverlap ==
    \A m, n \in DOMAIN used :
        m < n /\ used[m].link = used[n].link => used[n].seen < m

\* Rows keep their shapes, a logout or reset ends the sessions of its user, and what
\* an older access token can still begin is over when access tokens
\* of that time are.
SessionsEnd == SessionTypeOK /\ EndsHold /\ AfterlifeBounded

\* A refresh token or reset link serves once, two uses at the same time apart, and
\* a new link replaces the earlier ones.
UsedOnce == ExchangesOverlap /\ ResetsOverlap /\ OneResetLink
=============================================================================
