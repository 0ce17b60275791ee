-------------------------- MODULE Tenancy_proofs --------------------------
(***************************************************************************)
(* What TLAPS proves of Sessions, for any number of processes and users,   *)
(* any lifetimes, and any number of tokens, links and resets; of the       *)
(* RateLimiter in front of it, for any number of processes, keys, windows  *)
(* and attempts; and of Credentials, for any number of processes and       *)
(* providers, and any number of additions.                                 *)
(***************************************************************************)
EXTENDS Sessions, RateLimiter, Credentials, Sums, SequenceTheorems, TLAPS

\* The operations that end in a new token, and those that begin with an old one.
Issuing == {"login", "refresh", "select"}

Renewing == {"refresh", "select"}

\* A token belongs to a user who is registered, and so do the token that it was
\* issued for and the one that its session began with.
TokenRow(i) ==
    /\ token[i].issued <= time
    /\ Registered(token[i].user)
    /\ token[i].root \in 1..i
    /\ token[token[i].root].user = token[i].user
    /\ token[token[i].root].op \in {"login", "select"}
    /\ token[i].op \in Renewing =>
         token[i].from \in 1..(i - 1) /\ token[token[i].from].user = token[i].user
    /\ token[i].op = "refresh" => token[token[i].from].revoked
    /\ token[i].op = "select" => token[i].at < token[token[i].from].issued + AccessTtl

\* What a request has read is still so, but for a revocation.
CallRow(p) ==
    call[p] # NoCall =>
        /\ call[p].at <= time
        /\ call[p].op \in Issuing =>
             Registered(call[p].user) /\ call[p].seen <= Len(token)
        /\ call[p].op \in Renewing =>
             call[p].from \in 1..Len(token) /\ token[call[p].from].user = call[p].user
        /\ call[p].op = "select" => call[p].at < token[call[p].from].issued + AccessTtl
        /\ call[p].op = "reset" => call[p].from \in 1..Len(link) /\ call[p].seen <= Len(used)

\* The end of the sessions of u revoked the tokens that were there.
EndRow(u) ==
    /\ ended[u].upto <= Len(token)
    /\ \A i \in 1..ended[u].upto :
          token[i].user = u => token[i].revoked /\ token[i].issued <= ended[u].at

\* The session of token i began after the last end of the sessions of its user.
SessionBegun(i) ==
    /\ token[i].root > ended[token[i].user].upto
    /\ \/ token[token[i].root].op = "select"
       \/ token[token[i].root].op = "login" /\ token[i].pass = account[token[i].user].password

\* What a request hands on to the token that it will issue, unless it crosses
\* the end of the sessions of its user.
CallBegun(p) ==
    call[p] # NoCall /\ ~ended[call[p].user].crossed =>
        /\ call[p].op = "refresh" => SessionBegun(call[p].from)
        /\ call[p].op = "login" => call[p].pass = account[call[p].user].password

\* Whoever exchanges a token that has been exchanged had read it before.
CallFirst(p) ==
    /\ call[p].op = "refresh" =>
         \A i \in 1..Len(token) :
            token[i].op = "refresh" /\ token[i].from = call[p].from => call[p].seen < i
    /\ call[p].op = "reset" =>
         \A m \in 1..Len(used) : used[m].link = call[p].from => call[p].seen < m

SessionInv ==
    /\ SessionTypeOK
    /\ \A i \in 1..Len(token) : TokenRow(i)
    /\ \A m \in 1..Len(used) : used[m].link \in 1..Len(link) /\ link[used[m].link].used
    /\ \A p \in Process : CallRow(p) /\ CallBegun(p) /\ CallFirst(p)
    /\ \A u \in User : EndRow(u)
    /\ EndsHold
    /\ AfterlifeBounded
    /\ UsedOnce

-----------------------------------------------------------------------------
LEMMA SeqOfLength ==
    ASSUME NEW S, NEW n \in Nat, NEW f \in [1..n -> S]
    PROVE  f \in Seq(S) /\ Len(f) = n
<1>1. f \in Seq(S)
  BY SeqDef
<1>2. Len(f) \in Nat /\ DOMAIN f = 1..Len(f) /\ DOMAIN f = 1..n
  BY <1>1, LenProperties
<1> QED BY <1>1, <1>2

\* The rows of the tables, one by one.
LEMMA Rows ==
    ASSUME SessionTypeOK
    PROVE  /\ Len(token) \in Nat /\ DOMAIN token = 1..Len(token)
           /\ Len(link) \in Nat /\ DOMAIN link = 1..Len(link)
           /\ Len(used) \in Nat /\ DOMAIN used = 1..Len(used)
           /\ \A i \in 1..Len(token) : token[i] \in Token
           /\ \A r \in 1..Len(link) : link[r] \in [user : User, made : 0..MaxTime, used : BOOLEAN]
           /\ \A m \in 1..Len(used) : used[m] \in [link : Nat, seen : Nat]
           /\ \A p \in Process : call[p] # NoCall => call[p] \in Call
           /\ \A u \in User : /\ account[u] \in [password : Nat, active : BOOLEAN]
                              /\ ended[u] \in [upto : Nat, at : 0..MaxTime, crossed : BOOLEAN]
           /\ time \in 0..MaxTime /\ MaxTime \in Nat
<1>1. /\ token \in Seq(Token)
      /\ link \in Seq([user : User, made : 0..MaxTime, used : BOOLEAN])
      /\ used \in Seq([link : Nat, seen : Nat])
  BY DEF SessionTypeOK
<1>2. /\ Len(token) \in Nat /\ token \in [1..Len(token) -> Token]
      /\ Len(link) \in Nat /\ link \in [1..Len(link) -> [user : User, made : 0..MaxTime, used : BOOLEAN]]
      /\ Len(used) \in Nat /\ used \in [1..Len(used) -> [link : Nat, seen : Nat]]
  BY <1>1, LenProperties
<1>3. \A p \in Process : call[p] # NoCall => call[p] \in Call
  BY DEF SessionTypeOK
<1>4. \A u \in User : /\ account[u] \in [password : Nat, active : BOOLEAN]
                      /\ ended[u] \in [upto : Nat, at : 0..MaxTime, crossed : BOOLEAN]
  BY DEF SessionTypeOK
<1>5. time \in 0..MaxTime /\ MaxTime \in Nat
  BY SessionBounds DEF SessionTypeOK
<1> QED BY <1>2, <1>3, <1>4, <1>5

\* A request whose operation is one of Op is one.
LEMMA Called ==
    ASSUME SessionTypeOK, NEW p \in Process, call[p].op \in Op
    PROVE  call[p] # NoCall /\ call[p] \in Call
<1>1. NoCall.op \notin Op
  BY DEF NoCall, Op
<1>2. call[p] # NoCall
  BY <1>1
<1> QED BY <1>2, Rows

-----------------------------------------------------------------------------
(* What a step can do to the tables, seen row by row.                      *)

\* An older row of the tokens is only ever revoked.
OlderTokens ==
    /\ Len(token) <= Len(token')
    /\ \A i \in 1..Len(token) :
         /\ token'[i].user = token[i].user /\ token'[i].issued = token[i].issued
         /\ token'[i].op = token[i].op /\ token'[i].from = token[i].from
         /\ token'[i].seen = token[i].seen /\ token'[i].at = token[i].at
         /\ token'[i].root = token[i].root /\ token'[i].pass = token[i].pass
         /\ token[i].revoked => token'[i].revoked

\* An older row of the links is only ever used up.
OlderLinks ==
    /\ Len(link) <= Len(link')
    /\ \A r \in 1..Len(link) :
         /\ link'[r].user = link[r].user /\ link'[r].made = link[r].made
         /\ link[r].used => link'[r].used

OlderUsed ==
    /\ Len(used) <= Len(used')
    /\ \A m \in 1..Len(used) : used'[m] = used[m]

\* Time passes and a registration lasts.
Older ==
    /\ time \in Nat /\ time' \in Nat /\ time <= time'
    /\ \A u \in User : Registered(u) => Registered(u)'
    /\ OlderTokens /\ OlderLinks /\ OlderUsed

\* A newer token is the last one, issued by a request that changes nothing else.
Newer ==
    Len(token') > Len(token) =>
        \E p \in Process :
            /\ Len(token') = Len(token) + 1
            /\ call[p].op \in Issuing
            /\ token'[Len(token')] = NewToken(call[p])
            /\ call[p].op = "refresh" => token'[call[p].from].revoked
            /\ UNCHANGED <<time, account, ended>>

\* A newer reset is the last one, made by a request whose link it uses up.
NewerUsed ==
    Len(used') > Len(used) =>
        \E p \in Process :
            /\ Len(used') = Len(used) + 1
            /\ call[p].op = "reset"
            /\ used'[Len(used')].link = call[p].from
            /\ used'[Len(used')].seen = call[p].seen
            /\ link'[call[p].from].used

\* The sessions of a user go on, under one password, or are ended.
EndStep(u) ==
    \/ /\ ended'[u] = ended[u]
       /\ Registered(u) => account'[u].password = account[u].password
    \/ /\ ended'[u].upto = Len(token') /\ Len(token') = Len(token)
       /\ ended'[u].at = time' /\ time' = time
       /\ \A i \in 1..Len(token) : token[i].user = u => token'[i].revoked
       /\ ~ended'[u].crossed =>
            \A q \in Process : call'[q] # NoCall => ~(call'[q].user = u /\ call'[q].op \in Issuing)

\* A request is answered, goes on, or has read what is there.
CallStep(p) ==
    \/ call'[p] = call[p]
    \/ call'[p] = NoCall
    \/ UNCHANGED <<time, account, token, link, used, ended>> /\ call'[p] \in Call
       /\ CallRow(p)' /\ CallBegun(p)' /\ CallFirst(p)'

-----------------------------------------------------------------------------
LEMMA InitInv == SessionInit => SessionInv
<1> SUFFICES ASSUME SessionInit PROVE SessionInv
  OBVIOUS
<1>1. Len(token) = 0 /\ Len(link) = 0 /\ Len(used) = 0
      /\ DOMAIN token = {} /\ DOMAIN link = {} /\ DOMAIN used = {}
      /\ token \in Seq(Token) /\ link \in Seq([user : User, made : 0..MaxTime, used : BOOLEAN])
      /\ used \in Seq([link : Nat, seen : Nat])
  BY DEF SessionInit
<1>2. SessionTypeOK
  BY <1>1, SessionBounds DEF SessionInit, SessionTypeOK
<1>3. \A p \in Process : CallRow(p) /\ CallBegun(p) /\ CallFirst(p)
  BY DEF SessionInit, CallRow, CallBegun, CallFirst, NoCall
<1>4. \A u \in User : EndRow(u)
  BY <1>1 DEF SessionInit, EndRow
<1>5. EndsHold /\ AfterlifeBounded /\ UsedOnce
  BY <1>1 DEF EndsHold, AfterlifeBounded, UsedOnce, ExchangesOverlap, ResetsOverlap, OneResetLink
<1> QED BY <1>1, <1>2, <1>3, <1>4, <1>5 DEF SessionInv

-----------------------------------------------------------------------------
Stepped ==
    /\ SessionTypeOK'
    /\ Older /\ Newer /\ NewerUsed
    /\ OneResetLink'
    /\ \A u \in User : EndStep(u)
    /\ \A p \in Process : CallStep(p)

LEMMA TablesSame ==
    ASSUME SessionTypeOK
    PROVE  /\ token' = token => OlderTokens /\ Newer
           /\ link' = link => OlderLinks
           /\ used' = used => OlderUsed /\ NewerUsed
<1>1. Len(token) \in Nat /\ Len(link) \in Nat /\ Len(used) \in Nat
  BY Rows
<1>2. token' = token => Len(token') = Len(token) /\ ~(Len(token') > Len(token))
  BY <1>1
<1>3. used' = used => Len(used') = Len(used) /\ ~(Len(used') > Len(used))
  BY <1>1
<1> QED BY <1>1, <1>2, <1>3 DEF OlderTokens, OlderLinks, OlderUsed, Newer, NewerUsed

\* Links that are only used up, and time that passes, leave no more usable ones.
LEMMA NoNewLink ==
    ASSUME SessionInv, SessionTypeOK', OlderLinks, Len(link') = Len(link),
           time \in Nat, time' \in Nat, time <= time'
    PROVE  OneResetLink'
<1>1. /\ SessionTypeOK /\ Len(link) \in Nat /\ ResetTtl \in Nat
      /\ DOMAIN link = 1..Len(link) /\ DOMAIN link' = 1..Len(link)
  <2>1. DOMAIN link' = 1..Len(link')
    BY LenProperties DEF SessionTypeOK
  <2> QED BY <2>1, Rows, SessionBounds DEF SessionInv
<1>2. ASSUME NEW r \in 1..Len(link), Usable(r)'
      PROVE  Usable(r) /\ link'[r].user = link[r].user
  <2>1. link[r].made \in Nat /\ link'[r].made = link[r].made /\ link'[r].user = link[r].user
        /\ (link[r].used => link'[r].used)
    BY <1>1, <1>2, Rows DEF OlderLinks
  <2> QED BY <1>1, <1>2, <2>1 DEF Usable
<1>3. OneResetLink
  BY DEF SessionInv, UsedOnce
<1> QED BY <1>1, <1>2, <1>3 DEF OneResetLink

\* Tables that are as they were are no younger.
LEMMA Unmoved ==
    ASSUME SessionInv, SessionTypeOK', UNCHANGED <<account, token, link, used, ended>>,
           time' \in Nat, time <= time'
    PROVE  Older /\ Newer /\ NewerUsed /\ OneResetLink' /\ \A u \in User : EndStep(u)
<1>0. SessionTypeOK
  BY DEF SessionInv
<1>1. Older
  BY <1>0, Rows DEF Older, OlderTokens, OlderLinks, OlderUsed, Registered
<1>2. Newer /\ NewerUsed
  BY <1>0, TablesSame
<1>3. \A u \in User : EndStep(u)
  BY DEF EndStep
<1>4. OneResetLink'
  BY <1>0, <1>1, Rows, NoNewLink DEF Older
<1> QED BY <1>1, <1>2, <1>3, <1>4

LEMMA Received ==
    ASSUME SessionInv, NEW p \in Process, NEW op \in Op, NEW u \in User,
           NEW from \in Nat, NEW seen \in Nat, Receive(p, op, u, from, seen),
           op \in Issuing => Registered(u) /\ seen <= Len(token),
           op \in Renewing => from \in 1..Len(token) /\ token[from].user = u,
           op = "refresh" => ~token[from].revoked,
           op = "select" => time < token[from].issued + AccessTtl,
           op = "reset" => from \in 1..Len(link) /\ ~link[from].used /\ seen <= Len(used)
    PROVE  Stepped
<1> DEFINE c == [op |-> op, user |-> u, from |-> from, seen |-> seen, at |-> time,
                 pass |-> account[u].password]
<1>1. /\ SessionTypeOK /\ time \in Nat
      /\ UNCHANGED <<time, account, token, link, used, ended>>
      /\ call' = [call EXCEPT ![p] = c]
  BY Rows DEF SessionInv, Receive
<1>2. c \in Call /\ c # NoCall /\ call'[p] = c
  <2>1. c \in Call
    BY <1>1, Rows DEF Call
  <2>2. c # NoCall
    BY <2>1 DEF Call, NoCall, Op
  <2> QED BY <1>1, <2>1, <2>2 DEF SessionTypeOK
<1>3. SessionTypeOK'
  <2>1. call' \in [Process -> Call \cup {NoCall}]
    BY <1>1, <1>2 DEF SessionTypeOK
  <2>2. \A q \in Process : call'[q] # NoCall =>
          /\ call'[q].op \in {"refresh", "select"} => call'[q].from \in 1..Len(token)
          /\ call'[q].op = "reset" => call'[q].from \in 1..Len(link)
    BY <1>1, <1>2 DEF SessionTypeOK, Renewing
  <2> QED BY <1>1, <2>1, <2>2 DEF SessionTypeOK
<1>4. Older /\ Newer /\ NewerUsed /\ OneResetLink' /\ \A v \in User : EndStep(v)
  <2>1. time' \in Nat /\ time <= time'
    BY <1>1
  <2> QED BY <1>1, <1>3, <2>1, Unmoved
<1>5. CallRow(p)'
  BY <1>1, <1>2 DEF CallRow, Registered
<1>6. CallBegun(p)'
  <2>1. op = "refresh" /\ ~ended[u].crossed => SessionBegun(from)
    BY <1>1, Rows DEF SessionInv, EndsHold, Live, SessionBegun, Renewing
  <2> QED BY <1>1, <1>2, <2>1 DEF CallBegun, SessionBegun
<1>7. CallFirst(p)'
  <2>1. op = "refresh" => \A i \in 1..Len(token) : ~(token[i].op = "refresh" /\ token[i].from = from)
    BY DEF SessionInv, TokenRow
  <2>2. op = "reset" => \A m \in 1..Len(used) : used[m].link # from
    BY DEF SessionInv
  <2> QED BY <1>1, <1>2, <2>1, <2>2 DEF CallFirst
<1>8. \A q \in Process : CallStep(q)
  BY <1>1, <1>2, <1>5, <1>6, <1>7 DEF CallStep, SessionTypeOK
<1> QED BY <1>3, <1>4, <1>8 DEF Stepped

LEMMA ReadsStep ==
    ASSUME SessionInv, NEW p \in Process, SessionReads(p)
    PROVE  Stepped
<1> USE DEF Op, Issuing, Renewing
<1>1. Len(token) \in Nat /\ Len(link) \in Nat /\ Len(used) \in Nat /\ 0 \in Nat
  BY Rows DEF SessionInv
<1>2. ASSUME NEW u \in User, RegisterRead(p, u) \/ LoginRead(p, u) \/ RequestRead(p, u)
      PROVE  Stepped
  <2>1. CASE RegisterRead(p, u)
    BY <1>1, <2>1, Received DEF RegisterRead
  <2>2. CASE LoginRead(p, u)
    BY <1>1, <2>2, Received DEF LoginRead
  <2>3. CASE RequestRead(p, u)
    BY <1>1, <2>3, Received DEF RequestRead
  <2> QED BY <1>2, <2>1, <2>2, <2>3
<1>3. ASSUME NEW i \in DOMAIN token, RefreshRead(p, i) \/ SelectRead(p, i) \/ LogoutRead(p, i)
      PROVE  Stepped
  <2>1. /\ i \in Nat /\ i \in 1..Len(token) /\ token[i].user \in User
        /\ Registered(token[i].user)
    BY Rows DEF SessionInv, TokenRow, Token
  <2>2. CASE RefreshRead(p, i)
    BY <1>1, <2>1, <2>2, Received DEF RefreshRead, Redeemable
  <2>3. CASE SelectRead(p, i)
    BY <1>1, <2>1, <2>3, Received DEF SelectRead, Authenticated
  <2>4. CASE LogoutRead(p, i)
    BY <1>1, <2>1, <2>4, Received DEF LogoutRead
  <2> QED BY <1>3, <2>2, <2>3, <2>4
<1>4. ASSUME NEW r \in DOMAIN link, ResetRead(p, r) PROVE Stepped
  <2>1. r \in Nat /\ r \in 1..Len(link) /\ link[r].user \in User
    BY Rows DEF SessionInv
  <2> QED BY <1>1, <1>4, <2>1, Received DEF ResetRead, Usable
<1> QED BY <1>2, <1>3, <1>4 DEF SessionReads

-----------------------------------------------------------------------------
LEMMA Answered ==
    ASSUME SessionTypeOK, NEW p \in Process, Answer(p)
    PROVE  /\ call' \in [Process -> Call \cup {NoCall}]
           /\ call'[p] = NoCall
           /\ \A q \in Process : call'[q] = call[q] \/ call'[q] = NoCall
           /\ \A q \in Process \ {p} : call'[q] = call[q]
           /\ \A q \in Process : CallStep(q)
<1>1. call \in [Process -> Call \cup {NoCall}] /\ call' = [call EXCEPT ![p] = NoCall]
  BY DEF SessionTypeOK, Answer
<1> QED BY <1>1 DEF CallStep

\* Tables that only grow keep the references of the requests in flight.
LEMMA TablesTyped ==
    ASSUME SessionTypeOK,
           time' \in 0..MaxTime,
           account' \in [User -> [password : Nat, active : BOOLEAN]],
           token' \in Seq(Token), Len(token) <= Len(token'),
           link' \in Seq([user : User, made : 0..MaxTime, used : BOOLEAN]), Len(link) <= Len(link'),
           used' \in Seq([link : Nat, seen : Nat]),
           ended' \in [User -> [upto : Nat, at : 0..MaxTime, crossed : BOOLEAN]],
           call' \in [Process -> Call \cup {NoCall}],
           \A q \in Process : call'[q] = call[q] \/ call'[q] = NoCall
    PROVE  SessionTypeOK'
<1>1. Len(token) \in Nat /\ Len(token') \in Nat /\ Len(link) \in Nat /\ Len(link') \in Nat
  BY Rows, LenProperties
<1>2. ASSUME NEW q \in Process, call'[q] # NoCall
      PROVE  /\ call'[q].op \in {"refresh", "select"} => call'[q].from \in 1..Len(token')
             /\ call'[q].op = "reset" => call'[q].from \in 1..Len(link')
  <2>1. call'[q] = call[q]
    BY <1>2
  <2>2. /\ call[q].op \in {"refresh", "select"} => call[q].from \in 1..Len(token)
        /\ call[q].op = "reset" => call[q].from \in 1..Len(link)
    BY <1>2, <2>1 DEF SessionTypeOK
  <2> QED BY <1>1, <2>1, <2>2
<1> QED BY <1>2 DEF SessionTypeOK

LEMMA NewTokenTyped ==
    ASSUME SessionTypeOK, NEW p \in Process, call[p].op \in Issuing
    PROVE  NewToken(call[p]) \in Token
<1>1. call[p] # NoCall /\ call[p] \in Call
  BY Called DEF Issuing, Op
<1>2. call[p].op \in Renewing => token[call[p].from] \in Token
  <2>1. call[p].op \in Renewing => call[p].from \in 1..Len(token)
    BY <1>1 DEF SessionTypeOK, Renewing
  <2> QED BY <2>1, Rows
<1>3. /\ call[p].user \in User /\ call[p].from \in Nat /\ call[p].seen \in Nat
      /\ call[p].at \in 0..MaxTime /\ call[p].pass \in Nat /\ time \in 0..MaxTime
      /\ Len(token) + 1 \in Nat
  BY <1>1, Rows DEF Call
<1>4. (IF call[p].op = "refresh" THEN token[call[p].from].root ELSE Len(token) + 1) \in Nat
  BY <1>2, <1>3 DEF Token, Renewing
<1>5. (IF call[p].op = "login" THEN call[p].pass ELSE token[call[p].from].pass) \in Nat
  BY <1>2, <1>3 DEF Token, Renewing, Issuing
<1> QED BY <1>3, <1>4, <1>5 DEF NewToken, Token, IssuedAt, Issuing

LEMMA RevokedAllTyped ==
    ASSUME SessionTypeOK, NEW u
    PROVE  /\ RevokedAll(u) \in Seq(Token) /\ Len(RevokedAll(u)) = Len(token)
           /\ \A i \in 1..Len(token) :
                RevokedAll(u)[i] = [token[i] EXCEPT !.revoked = @ \/ token[i].user = u]
<1>1. Len(token) \in Nat /\ DOMAIN token = 1..Len(token) /\ \A i \in 1..Len(token) : token[i] \in Token
  BY Rows
<1>2. \A i \in 1..Len(token) : [token[i] EXCEPT !.revoked = @ \/ token[i].user = u] \in Token
  BY <1>1 DEF Token
<1>3. RevokedAll(u) \in [1..Len(token) -> Token]
  BY <1>1, <1>2 DEF RevokedAll
<1>4. \A i \in 1..Len(token) :
        RevokedAll(u)[i] = [token[i] EXCEPT !.revoked = @ \/ token[i].user = u]
  BY <1>1 DEF RevokedAll
<1> QED BY <1>1, <1>3, <1>4, SeqOfLength

LEMMA RevokedAllOlder ==
    ASSUME SessionTypeOK, NEW u, token' = RevokedAll(u)
    PROVE  /\ token' \in Seq(Token) /\ Len(token') = Len(token)
           /\ OlderTokens /\ Newer
           /\ \A i \in 1..Len(token) : token[i].user = u => token'[i].revoked
<1>1. token' \in Seq(Token) /\ Len(token') = Len(token) /\ Len(token) \in Nat
  BY Rows, RevokedAllTyped
<1>2. ASSUME NEW i \in 1..Len(token)
      PROVE  token'[i] = [token[i] EXCEPT !.revoked = @ \/ token[i].user = u]
  BY <1>2, RevokedAllTyped
<1>3. ASSUME NEW i \in 1..Len(token)
      PROVE  LET s == token'[i]
                 t == token[i] IN
             /\ s \in Token /\ s.user = t.user /\ s.issued = t.issued /\ s.op = t.op
             /\ s.from = t.from /\ s.seen = t.seen /\ s.at = t.at /\ s.root = t.root
             /\ s.pass = t.pass /\ (t.revoked => s.revoked) /\ (t.user = u => s.revoked)
  <2>1. token[i] \in Token
    BY <1>3, Rows
  <2>2. token'[i] = [token[i] EXCEPT !.revoked = @ \/ token[i].user = u]
    BY <1>2, <1>3
  <2> QED BY <2>1, <2>2 DEF Token
<1>4. ~(Len(token') > Len(token))
  BY <1>1
<1> QED BY <1>1, <1>3, <1>4 DEF OlderTokens, Newer

LEMMA NewTokenStep ==
    ASSUME SessionInv, NEW p \in Process, IssueWrite(p) \/ RefreshWrite(p)
    PROVE  Stepped
<1> DEFINE c == call[p]
           base == IF c.op = "refresh" THEN Rotated(c) ELSE token
<1>1. /\ SessionTypeOK /\ c.op \in Issuing /\ c # NoCall /\ c \in Call
      /\ token' = Append(base, NewToken(c))
      /\ Answer(p) /\ UNCHANGED <<time, account, link, used, ended>>
  <2>1. /\ SessionTypeOK /\ c.op \in Issuing /\ token' = Append(base, NewToken(c))
        /\ Answer(p) /\ UNCHANGED <<time, account, link, used, ended>>
    BY DEF SessionInv, IssueWrite, RefreshWrite, Issuing
  <2> QED BY <2>1, Called DEF Issuing, Op
<1>2. NewToken(c) \in Token
  BY <1>1, NewTokenTyped
<1>3. token \in Seq(Token) /\ Len(token) \in Nat /\ \A i \in 1..Len(token) : token[i] \in Token
  BY <1>1, Rows DEF SessionTypeOK
<1>4. /\ base \in Seq(Token) /\ Len(base) = Len(token)
      /\ \A i \in 1..Len(token) :
           base[i] = token[i] \/ base[i] = [token[i] EXCEPT !.revoked = TRUE]
      /\ c.op = "refresh" => c.from \in 1..Len(token) /\ base[c.from].revoked
  <2>1. CASE c.op = "refresh"
    <3>1. c.from \in 1..Len(token) /\ token[c.from] \in Token
      BY <1>1, <1>3, <2>1 DEF SessionTypeOK
    <3>2. [token[c.from] EXCEPT !.revoked = TRUE] \in Token
      BY <3>1 DEF Token
    <3>3. base = [token EXCEPT ![c.from] = [token[c.from] EXCEPT !.revoked = TRUE]]
      BY <2>1 DEF Rotated
    <3>4. [token[c.from] EXCEPT !.revoked = TRUE].revoked
      BY <3>1 DEF Token
    <3> DEFINE e == [token[c.from] EXCEPT !.revoked = TRUE]
               s == [token EXCEPT ![c.from] = e]
    <3>5. /\ s \in Seq(Token) /\ Len(s) = Len(token)
          /\ \A j \in 1..Len(token) : s[j] = IF j = c.from THEN e ELSE token[j]
      <4> HIDE DEF c, e
      <4> QED BY <1>3, <3>1, <3>2, ExceptSeq DEF e
    <3> QED BY <3>1, <3>3, <3>4, <3>5, <2>1
  <2>2. CASE c.op # "refresh"
    BY <1>3, <2>2
  <2> QED BY <2>1, <2>2
<1>5. /\ token' \in Seq(Token) /\ Len(token') = Len(token) + 1
      /\ \A i \in 1..Len(token) : token'[i] = base[i]
      /\ token'[Len(token) + 1] = NewToken(c)
  <2> HIDE DEF c, base
  <2> QED BY <1>1, <1>2, <1>4, AppendProperties
<1>6. OlderTokens
  <2>1. ASSUME NEW i \in 1..Len(token)
        PROVE  /\ token'[i].user = token[i].user /\ token'[i].issued = token[i].issued
               /\ token'[i].op = token[i].op /\ token'[i].from = token[i].from
               /\ token'[i].seen = token[i].seen /\ token'[i].at = token[i].at
               /\ token'[i].root = token[i].root /\ token'[i].pass = token[i].pass
               /\ token[i].revoked => token'[i].revoked
    <3>1. token[i] \in Token /\ (token'[i] = token[i] \/ token'[i] = [token[i] EXCEPT !.revoked = TRUE])
      BY <1>3, <1>4, <1>5, <2>1
    <3> QED BY <3>1 DEF Token
  <2> QED BY <1>3, <1>5, <2>1 DEF OlderTokens
<1>7. Newer
  <2>1. c.op = "refresh" => token'[c.from].revoked
    BY <1>4, <1>5
  <2> QED BY <1>1, <1>5, <2>1 DEF Newer
<1>8. Older
  <2>1. \A u \in User : Registered(u) => Registered(u)'
    BY <1>1 DEF Registered
  <2>2. OlderLinks /\ OlderUsed
    BY <1>1, TablesSame
  <2>3. time \in Nat /\ time' = time
    BY <1>1, Rows
  <2>4. time' \in Nat /\ time <= time'
    BY <2>3
  <2> QED BY <1>6, <2>1, <2>2, <2>3, <2>4 DEF Older
<1>9. \A u \in User : EndStep(u)
  BY <1>1 DEF EndStep
<1>10. SessionTypeOK'
  <2>1. /\ call' \in [Process -> Call \cup {NoCall}]
        /\ \A q \in Process : call'[q] = call[q] \/ call'[q] = NoCall
    BY <1>1, Answered
  <2>2. Len(token) <= Len(token') /\ Len(link) <= Len(link')
    BY <1>1, <1>3, <1>5, Rows
  <2> QED BY <1>1, <1>5, <2>1, <2>2, TablesTyped DEF SessionTypeOK
<1>11. NewerUsed
  BY <1>1, TablesSame
<1>12. OneResetLink'
  BY <1>1, <1>8, <1>10, NoNewLink DEF Older
<1> QED BY <1>1, <1>7, <1>8, <1>9, <1>10, <1>11, <1>12, Answered DEF Stepped

\* Whoever ends the sessions of u with its answer notes whether another request
\* for a token of u is in flight.
LEMMA EndedStep ==
    ASSUME SessionInv, NEW p \in Process, NEW u \in User, token' = RevokedAll(u), Ended(p, u), Answer(p),
           time' = time, \A v \in User \ {u} : account'[v].password = account[v].password
    PROVE  /\ ended' \in [User -> [upto : Nat, at : 0..MaxTime, crossed : BOOLEAN]]
           /\ \A v \in User : EndStep(v)
<1> DEFINE crossing == \E q \in Process \ {p} : /\ call[q] # NoCall
                                                /\ call[q].user = u
                                                /\ call[q].op \in {"login", "refresh", "select"}
           e == [upto |-> Len(token), at |-> time, crossed |-> crossing]
<1>1. SessionTypeOK
  BY DEF SessionInv
<1>2. e \in [upto : Nat, at : 0..MaxTime, crossed : BOOLEAN]
  BY <1>1, Rows
<1>3. ended' = [ended EXCEPT ![u] = e]
  BY DEF Ended
<1>4. ended' \in [User -> [upto : Nat, at : 0..MaxTime, crossed : BOOLEAN]] /\ ended'[u] = e
      /\ \A v \in User \ {u} : ended'[v] = ended[v]
  <2> HIDE DEF e
  <2> QED BY <1>1, <1>2, <1>3 DEF SessionTypeOK
<1>5. \A v \in User \ {u} : EndStep(v)
  BY <1>4 DEF EndStep
<1>6. EndStep(u)
  <2>1. Len(token') = Len(token) /\ \A i \in 1..Len(token) : token[i].user = u => token'[i].revoked
    BY <1>1, RevokedAllOlder
  <2>2. ended'[u].upto = Len(token') /\ ended'[u].at = time' /\ (~ended'[u].crossed => ~crossing)
    BY <1>4, <2>1
  <2>3. ASSUME ~crossing, NEW q \in Process, call'[q] # NoCall
        PROVE  ~(call'[q].user = u /\ call'[q].op \in Issuing)
    <3>1. q # p /\ call'[q] = call[q]
      BY <1>1, <2>3, Answered
    <3> QED BY <2>3, <3>1 DEF Issuing
  <2> HIDE DEF crossing
  <2> QED BY <2>1, <2>2, <2>3 DEF EndStep
<1> QED BY <1>4, <1>5, <1>6

LEMMA LogoutStep ==
    ASSUME SessionInv, NEW p \in Process, LogoutWrite(p)
    PROVE  Stepped
<1> DEFINE u == call[p].user
<1>1. /\ SessionTypeOK /\ u \in User /\ token' = RevokedAll(u) /\ Ended(p, u) /\ Answer(p)
      /\ time' = time /\ account' = account /\ link' = link /\ used' = used
  <2>1. SessionTypeOK /\ call[p].op \in Op
    BY DEF SessionInv, LogoutWrite, Op
  <2> QED BY <2>1, Called DEF LogoutWrite, Call
<1> HIDE DEF u
<1>2. /\ ended' \in [User -> [upto : Nat, at : 0..MaxTime, crossed : BOOLEAN]]
      /\ \A v \in User : EndStep(v)
  BY <1>1, EndedStep
<1>3. token' \in Seq(Token) /\ Len(token') = Len(token) /\ OlderTokens /\ Newer
  BY <1>1, RevokedAllOlder
<1>4. OlderLinks /\ OlderUsed /\ NewerUsed
  BY <1>1, TablesSame
<1>5. /\ call' \in [Process -> Call \cup {NoCall}]
      /\ \A q \in Process : call'[q] = call[q] \/ call'[q] = NoCall
      /\ \A q \in Process : CallStep(q)
  BY <1>1, Answered
<1>6. time \in Nat /\ time' \in Nat /\ time <= time' /\ Len(token) <= Len(token') /\ Len(link) <= Len(link')
  BY <1>1, <1>3, Rows
<1>7. SessionTypeOK'
  BY <1>1, <1>2, <1>3, <1>5, <1>6, TablesTyped DEF SessionTypeOK
<1>8. Older
  BY <1>1, <1>3, <1>4, <1>6 DEF Older, Registered
<1>9. OneResetLink'
  BY <1>1, <1>4, <1>6, <1>7, NoNewLink
<1> QED BY <1>2, <1>3, <1>4, <1>5, <1>7, <1>8, <1>9 DEF Stepped

LEMMA ResetStep ==
    ASSUME SessionInv, NEW p \in Process, ResetWrite(p)
    PROVE  Stepped
<1> DEFINE c == call[p]
           u == c.user
           r == [link |-> c.from, seen |-> c.seen]
<1>1. /\ SessionTypeOK /\ c \in Call /\ c.from \in 1..Len(link)
      /\ token' = RevokedAll(u) /\ Ended(p, u) /\ Answer(p) /\ time' = time
      /\ account' = [account EXCEPT ![u].password = @ + 1]
      /\ link' = Spent(c.from) /\ used' = Append(used, r)
  <2>1. SessionTypeOK /\ call[p].op \in Op
    BY DEF SessionInv, ResetWrite, Op
  <2>2. c \in Call /\ c # NoCall
    BY <2>1, Called
  <2>3. c.from \in 1..Len(link)
    BY <2>2 DEF SessionTypeOK, SessionInv, ResetWrite
  <2> QED BY <2>1, <2>2, <2>3 DEF ResetWrite
<1>2. u \in User /\ r \in [link : Nat, seen : Nat]
  BY <1>1 DEF Call
<1>3. /\ account' \in [User -> [password : Nat, active : BOOLEAN]]
      /\ \A v \in User \ {u} : account'[v] = account[v]
      /\ \A v \in User : Registered(v) => Registered(v)'
  <2>1. account \in [User -> [password : Nat, active : BOOLEAN]]
    BY <1>1 DEF SessionTypeOK
  <2> HIDE DEF u
  <2>2. account'[u] = [account[u] EXCEPT !.password = account[u].password + 1]
    BY <1>1, <1>2, <2>1
  <2>3. account'[u] \in [password : Nat, active : BOOLEAN] /\ account'[u].password > 0
    BY <1>2, <2>1, <2>2
  <2>4. \A v \in User \ {u} : account'[v] = account[v]
    BY <1>1, <2>1
  <2>5. account' \in [User -> [password : Nat, active : BOOLEAN]]
    BY <1>1, <1>2, <2>1, <2>3
  <2> QED BY <2>3, <2>4, <2>5 DEF Registered
<1>4. /\ ended' \in [User -> [upto : Nat, at : 0..MaxTime, crossed : BOOLEAN]]
      /\ \A v \in User : EndStep(v)
  <2> HIDE DEF u
  <2> QED BY <1>1, <1>2, <1>3, EndedStep
<1>5. token' \in Seq(Token) /\ Len(token') = Len(token) /\ OlderTokens /\ Newer
  <2> HIDE DEF u
  <2> QED BY <1>1, RevokedAllOlder
<1>6. /\ link' \in Seq([user : User, made : 0..MaxTime, used : BOOLEAN])
      /\ Len(link') = Len(link) /\ OlderLinks /\ link'[c.from].used
  <2> DEFINE L == [user : User, made : 0..MaxTime, used : BOOLEAN]
             l == [link[c.from] EXCEPT !.used = TRUE]
  <2>1. link \in Seq(L) /\ link[c.from] \in L /\ Len(link) \in Nat
    BY <1>1, Rows DEF SessionTypeOK
  <2>2. l \in L /\ l.user = link[c.from].user /\ l.made = link[c.from].made /\ l.used
    BY <2>1
  <2>3. link' = [link EXCEPT ![c.from] = l]
    BY <1>1 DEF Spent
  <2>4. /\ link' \in Seq(L) /\ Len(link') = Len(link)
        /\ \A i \in 1..Len(link) : link'[i] = IF i = c.from THEN l ELSE link[i]
    <3> HIDE DEF l, L, c
    <3> QED BY <1>1, <2>1, <2>2, <2>3, ExceptSeq
  <2>5. link'[c.from].used
    <3> HIDE DEF l, c
    <3> QED BY <1>1, <2>2, <2>4
  <2>6. OlderLinks
    <3> HIDE DEF l, L, c
    <3>1. Len(link) <= Len(link')
      BY <2>1, <2>4
    <3>2. ASSUME NEW m \in 1..Len(link)
          PROVE  /\ link'[m].user = link[m].user /\ link'[m].made = link[m].made
                 /\ link[m].used => link'[m].used
      <4>1. CASE m = c.from
        BY <2>2, <2>4, <4>1
      <4>2. CASE m # c.from
        BY <2>4, <4>2
      <4> QED BY <4>1, <4>2
    <3> QED BY <3>1, <3>2 DEF OlderLinks
  <2> QED BY <2>4, <2>5, <2>6
<1>7. used' \in Seq([link : Nat, seen : Nat]) /\ OlderUsed /\ Len(used') = Len(used) + 1
      /\ used'[Len(used')] = r
  <2>1. used \in Seq([link : Nat, seen : Nat]) /\ Len(used) \in Nat
    BY <1>1, Rows DEF SessionTypeOK
  <2>2. /\ used' \in Seq([link : Nat, seen : Nat]) /\ Len(used') = Len(used) + 1
        /\ \A m \in 1..Len(used) : used'[m] = used[m]
        /\ used'[Len(used) + 1] = r
    <3> HIDE DEF r
    <3> QED BY <1>1, <1>2, <2>1, AppendProperties
  <2> QED BY <2>1, <2>2 DEF OlderUsed
<1>8. /\ call' \in [Process -> Call \cup {NoCall}]
      /\ \A q \in Process : call'[q] = call[q] \/ call'[q] = NoCall
      /\ \A q \in Process : CallStep(q)
  BY <1>1, Answered
<1>9. time \in Nat /\ time' \in 0..MaxTime /\ time' \in Nat /\ time <= time'
      /\ Len(token) <= Len(token') /\ Len(link) <= Len(link')
  BY <1>1, <1>5, <1>6, Rows
<1>10. SessionTypeOK'
  BY <1>1, <1>3, <1>4, <1>5, <1>6, <1>7, <1>8, <1>9, TablesTyped
<1>11. Older
  BY <1>3, <1>5, <1>6, <1>7, <1>9 DEF Older
<1>12. NewerUsed
  <2>1. used'[Len(used')].link = c.from /\ used'[Len(used')].seen = c.seen
    BY <1>7
  <2> QED BY <1>6, <1>7, <2>1 DEF NewerUsed, ResetWrite
<1>13. OneResetLink'
  BY <1>6, <1>9, <1>10, NoNewLink
<1> QED BY <1>4, <1>5, <1>8, <1>10, <1>11, <1>12, <1>13 DEF Stepped

LEMMA RegisterStep ==
    ASSUME SessionInv, NEW p \in Process, RegisterWrite(p)
    PROVE  Stepped
<1> DEFINE u == call[p].user
<1>1. /\ SessionTypeOK /\ u \in User /\ ~Registered(u) /\ Answer(p)
      /\ account' = [account EXCEPT ![u] = [password |-> 1, active |-> TRUE]]
      /\ UNCHANGED <<time, token, link, used, ended>>
  <2>1. SessionTypeOK /\ call[p].op \in Op
    BY DEF SessionInv, RegisterWrite, Op
  <2> QED BY <2>1, Called DEF RegisterWrite, Call
<1> HIDE DEF u
<1>2. account \in [User -> [password : Nat, active : BOOLEAN]]
  BY <1>1 DEF SessionTypeOK
<1>3. /\ account' \in [User -> [password : Nat, active : BOOLEAN]]
      /\ account'[u].password = 1
      /\ \A v \in User \ {u} : account'[v] = account[v]
  BY <1>1, <1>2
<1>4. /\ call' \in [Process -> Call \cup {NoCall}]
      /\ \A q \in Process : call'[q] = call[q] \/ call'[q] = NoCall
      /\ \A q \in Process : CallStep(q)
  BY <1>1, Answered
<1>5. time \in Nat /\ time' \in Nat /\ time <= time' /\ Len(token) <= Len(token') /\ Len(link) <= Len(link')
  BY <1>1, Rows
<1>6. SessionTypeOK'
  BY <1>1, <1>3, <1>4, <1>5, TablesTyped DEF SessionTypeOK
<1>7. OlderTokens /\ Newer /\ OlderLinks /\ OlderUsed /\ NewerUsed
  BY <1>1, TablesSame
<1>8. \A v \in User : Registered(v) => Registered(v)'
  BY <1>1, <1>3 DEF Registered
<1>9. \A v \in User : EndStep(v)
  BY <1>1, <1>3 DEF EndStep
<1>10. OneResetLink'
  BY <1>1, <1>5, <1>6, <1>7, NoNewLink
<1> QED BY <1>4, <1>5, <1>6, <1>7, <1>8, <1>9, <1>10 DEF Stepped, Older

LEMMA RequestStep ==
    ASSUME SessionInv, NEW p \in Process, RequestWrite(p)
    PROVE  Stepped
<1> DEFINE c == call[p]
           L == [user : User, made : 0..MaxTime, used : BOOLEAN]
           n == [user |-> c.user, made |-> c.at, used |-> FALSE]
           S == Superseded(c)
<1>1. /\ SessionTypeOK /\ c \in Call /\ c # NoCall /\ Answer(p)
      /\ link' = Append(S, n)
      /\ UNCHANGED <<time, account, token, used, ended>>
  <2>1. SessionTypeOK /\ call[p].op \in Op
    BY DEF SessionInv, RequestWrite, Op
  <2> QED BY <2>1, Called DEF RequestWrite
<1>2. /\ link \in Seq(L) /\ Len(link) \in Nat /\ DOMAIN link = 1..Len(link)
      /\ \A r \in 1..Len(link) : link[r] \in L
  BY <1>1, Rows DEF SessionTypeOK
<1>3. n \in L /\ n.user = c.user /\ n.made = c.at /\ c.at \in Nat /\ c.at <= time
  BY <1>1 DEF Call, SessionInv, CallRow
<1>4. /\ S \in Seq(L) /\ Len(S) = Len(link)
      /\ \A r \in 1..Len(link) :
           S[r] = [link[r] EXCEPT !.used = @ \/ (link[r].user = c.user /\ c.at < link[r].made + ResetTtl)]
  <2>1. \A r \in 1..Len(link) :
           S[r] = [link[r] EXCEPT !.used = @ \/ (link[r].user = c.user /\ c.at < link[r].made + ResetTtl)]
    BY <1>2 DEF Superseded
  <2>2. \A r \in 1..Len(link) : S[r] \in L
    BY <1>2, <2>1
  <2>3. S \in [1..Len(link) -> L]
    BY <1>2, <2>2 DEF Superseded
  <2> HIDE DEF S, L
  <2>4. S \in Seq(L) /\ Len(S) = Len(link)
    BY <1>2, <2>3, SeqOfLength
  <2> QED BY <2>1, <2>4
<1>5. /\ link' \in Seq(L) /\ Len(link') = Len(link) + 1 /\ DOMAIN link' = 1..(Len(link) + 1)
      /\ \A r \in 1..Len(link) : link'[r] = S[r]
      /\ link'[Len(link) + 1] = n
  <2> HIDE DEF S, L, n
  <2>1. /\ link' \in Seq(L) /\ Len(link') = Len(link) + 1
        /\ \A r \in 1..Len(link) : link'[r] = S[r]
        /\ link'[Len(link) + 1] = n
    BY <1>1, <1>3, <1>4, AppendProperties
  <2>2. DOMAIN link' = 1..Len(link')
    BY <2>1, LenProperties
  <2> QED BY <2>1, <2>2
<1>6. \A r \in 1..Len(link) :
        /\ link'[r].user = link[r].user /\ link'[r].made = link[r].made
        /\ link[r].used => link'[r].used
        /\ link[r].user = c.user /\ c.at < link[r].made + ResetTtl => link'[r].used
  <2> SUFFICES ASSUME NEW r \in 1..Len(link)
               PROVE  /\ link'[r].user = link[r].user /\ link'[r].made = link[r].made
                      /\ link[r].used => link'[r].used
                      /\ link[r].user = c.user /\ c.at < link[r].made + ResetTtl => link'[r].used
    OBVIOUS
  <2>1. link[r] \in L
        /\ link'[r] = [link[r] EXCEPT !.used = @ \/ (link[r].user = c.user /\ c.at < link[r].made + ResetTtl)]
    BY <1>2, <1>4, <1>5
  <2> QED BY <2>1
<1>7. OlderLinks
  BY <1>2, <1>5, <1>6 DEF OlderLinks
<1>8. /\ call' \in [Process -> Call \cup {NoCall}]
      /\ \A q \in Process : call'[q] = call[q] \/ call'[q] = NoCall
      /\ \A q \in Process : CallStep(q)
  BY <1>1, Answered
<1>9. time \in Nat /\ time' = time /\ Len(token) <= Len(token') /\ Len(link) <= Len(link')
  BY <1>1, <1>2, <1>5, Rows
<1>10. SessionTypeOK'
  BY <1>1, <1>5, <1>8, <1>9, TablesTyped DEF SessionTypeOK
<1>11. OlderTokens /\ Newer /\ OlderUsed /\ NewerUsed
  BY <1>1, TablesSame
<1>12. Older
  BY <1>1, <1>7, <1>9, <1>11 DEF Older, Registered
<1>13. \A u \in User : EndStep(u)
  BY <1>1 DEF EndStep
<1>14. OneResetLink'
  <2>1. ResetTtl \in Nat
    BY SessionBounds
  <2>2. ASSUME NEW r \in 1..Len(link), Usable(r)'
        PROVE  Usable(r) /\ link'[r].user = link[r].user /\ link[r].user # c.user
    <3>1. /\ link[r].made \in Nat /\ link'[r].made = link[r].made /\ link'[r].user = link[r].user
          /\ ~link'[r].used /\ ~link[r].used /\ time < link[r].made + ResetTtl
      BY <1>2, <1>6, <1>9, <2>2 DEF Usable
    <3>2. c.at < link[r].made + ResetTtl
      BY <1>3, <1>9, <2>1, <3>1
    <3> QED BY <1>6, <3>1, <3>2 DEF Usable
  <2>3. link'[Len(link) + 1].user = c.user
    BY <1>3, <1>5
  <2>4. OneResetLink
    BY DEF SessionInv, UsedOnce
  <2>5. ASSUME NEW r \in DOMAIN link', NEW s \in DOMAIN link',
               link'[r].user = link'[s].user, Usable(r)', Usable(s)'
        PROVE  r = s
    <3>1. CASE r \in 1..Len(link) /\ s \in 1..Len(link)
      BY <1>2, <2>2, <2>4, <2>5, <3>1 DEF OneResetLink
    <3>2. CASE r = Len(link) + 1 /\ s \in 1..Len(link)
      <4>1. link'[s].user # c.user
        BY <2>2, <2>5, <3>2
      <4> QED BY <2>3, <2>5, <3>2, <4>1
    <3>3. CASE s = Len(link) + 1 /\ r \in 1..Len(link)
      <4>1. link'[r].user # c.user
        BY <2>2, <2>5, <3>3
      <4> QED BY <2>3, <2>5, <3>3, <4>1
    <3> QED BY <1>2, <1>5, <3>1, <3>2, <3>3
  <2> QED BY <2>5 DEF OneResetLink
<1> QED BY <1>8, <1>10, <1>11, <1>12, <1>13, <1>14 DEF Stepped

LEMMA NextStep == SessionInv /\ [SessionNext]_sessionVars => Stepped
<1> SUFFICES ASSUME SessionInv, [SessionNext]_sessionVars PROVE Stepped
  OBVIOUS
<1>1. SessionTypeOK /\ time \in Nat /\ MaxTime \in Nat
  BY Rows DEF SessionInv
<1>2. CASE UNCHANGED sessionVars
  <2>1. SessionTypeOK' /\ time' \in Nat /\ time <= time' /\ UNCHANGED <<account, token, link, used, ended>>
    BY <1>1, <1>2 DEF sessionVars, SessionTypeOK
  <2>2. \A q \in Process : CallStep(q)
    BY <1>2 DEF sessionVars, CallStep
  <2> QED BY <2>1, <2>2, Unmoved DEF Stepped
<1>3. ASSUME NEW p \in Process, SessionReads(p) PROVE Stepped
  BY <1>3, ReadsStep
<1>4. ASSUME NEW p \in Process, CallFails(p) PROVE Stepped
  <2>1. Answer(p) /\ UNCHANGED <<time, account, token, link, used, ended>>
    BY <1>4 DEF CallFails
  <2>2. /\ call' \in [Process -> Call \cup {NoCall}]
        /\ \A q \in Process : call'[q] = call[q] \/ call'[q] = NoCall
        /\ \A q \in Process : CallStep(q)
    BY <1>1, <2>1, Answered
  <2>3. SessionTypeOK'
    <3>1. Len(token) <= Len(token') /\ Len(link) <= Len(link')
      BY <1>1, <2>1, Rows
    <3> QED BY <1>1, <2>1, <2>2, <3>1, TablesTyped DEF SessionTypeOK
  <2>4. time' \in Nat /\ time <= time'
    BY <1>1, <2>1
  <2> QED BY <2>1, <2>2, <2>3, <2>4, Unmoved DEF Stepped
<1>5. ASSUME NEW p \in Process, SessionWrites(p) PROVE Stepped
  BY <1>4, <1>5, RegisterStep, NewTokenStep, LogoutStep, RequestStep, ResetStep DEF SessionWrites
<1>6. ASSUME NEW u \in User, Deactivate(u) PROVE Stepped
  <2>1. /\ account' = [account EXCEPT ![u].active = FALSE]
        /\ UNCHANGED <<time, token, link, call, used, ended>>
    BY <1>6 DEF Deactivate
  <2>2. account \in [User -> [password : Nat, active : BOOLEAN]]
    BY <1>1 DEF SessionTypeOK
  <2>3. /\ account' \in [User -> [password : Nat, active : BOOLEAN]]
        /\ \A v \in User : account'[v].password = account[v].password
    <3>1. account'[u] = [account[u] EXCEPT !.active = FALSE] /\ \A v \in User \ {u} : account'[v] = account[v]
      BY <2>1, <2>2
    <3>2. account[u] \in [password : Nat, active : BOOLEAN]
      BY <2>2
    <3>3. account'[u] \in [password : Nat, active : BOOLEAN] /\ account'[u].password = account[u].password
      BY <3>1, <3>2
    <3> QED BY <2>1, <2>2, <3>1, <3>3
  <2>4. SessionTypeOK'
    BY <1>1, <2>1, <2>3 DEF SessionTypeOK
  <2>5. OlderTokens /\ Newer /\ OlderLinks /\ OlderUsed /\ NewerUsed
    BY <1>1, <2>1, TablesSame
  <2>6. time' \in Nat /\ time <= time' /\ Len(link') = Len(link)
    BY <1>1, <2>1
  <2>7. Older
    BY <1>1, <2>3, <2>5, <2>6 DEF Older, Registered
  <2>8. \A v \in User : EndStep(v)
    BY <2>1, <2>3 DEF EndStep
  <2>9. OneResetLink'
    BY <1>1, <2>4, <2>5, <2>6, NoNewLink
  <2>10. \A q \in Process : CallStep(q)
    BY <2>1 DEF CallStep
  <2> QED BY <2>4, <2>5, <2>7, <2>8, <2>9, <2>10 DEF Stepped
<1>7. CASE SessionTick
  <2>1. /\ time < MaxTime /\ time' = time + 1
        /\ UNCHANGED <<account, token, link, call, used, ended>>
    BY <1>7 DEF SessionTick
  <2>2. time' \in 0..MaxTime /\ time' \in Nat /\ time <= time'
    BY <1>1, <2>1
  <2>3. SessionTypeOK'
    BY <1>1, <2>1, <2>2 DEF SessionTypeOK
  <2>4. \A q \in Process : CallStep(q)
    BY <2>1 DEF CallStep
  <2> QED BY <2>1, <2>2, <2>3, <2>4, Unmoved DEF Stepped
<1> QED BY <1>2, <1>3, <1>5, <1>6, <1>7 DEF SessionNext

-----------------------------------------------------------------------------
(* Steps of this kind keep the invariant.                                  *)

\* The rows after a step: the older ones and at most one new.
RowsFit ==
    /\ SessionTypeOK /\ SessionTypeOK' /\ Older
    /\ Len(token) \in Nat /\ Len(token') \in Nat
    /\ Len(token') = Len(token) \/ Len(token') = Len(token) + 1
    /\ Len(used) \in Nat /\ Len(used') \in Nat
    /\ Len(used') = Len(used) \/ Len(used') = Len(used) + 1
    /\ Len(link) \in Nat /\ Len(link') \in Nat /\ Len(link) <= Len(link')

LEMMA RowsAfter ==
    ASSUME SessionInv, Stepped
    PROVE  RowsFit
<1>1. SessionTypeOK /\ SessionTypeOK' /\ Older /\ Newer /\ NewerUsed
  BY DEF SessionInv, Stepped
<1>2. Len(token') \in Nat /\ Len(used') \in Nat /\ Len(link') \in Nat
  <2>1. /\ token' \in Seq(Token)
        /\ link' \in Seq([user : User, made : 0..MaxTime, used : BOOLEAN])
        /\ used' \in Seq([link : Nat, seen : Nat])
    BY <1>1 DEF SessionTypeOK
  <2> QED BY <2>1, LenProperties
<1>3. Len(token) \in Nat /\ Len(used) \in Nat /\ Len(link) \in Nat
  BY <1>1, Rows
<1>4. Len(token') = Len(token) \/ Len(token') = Len(token) + 1
  <2>1. Len(token) <= Len(token') /\ (Len(token') > Len(token) => Len(token') = Len(token) + 1)
    BY <1>1 DEF Older, OlderTokens, Newer
  <2> QED BY <1>2, <1>3, <2>1
<1>5. Len(used') = Len(used) \/ Len(used') = Len(used) + 1
  <2>1. Len(used) <= Len(used') /\ (Len(used') > Len(used) => Len(used') = Len(used) + 1)
    BY <1>1 DEF Older, OlderUsed, NewerUsed
  <2> QED BY <1>2, <1>3, <2>1
<1>6. Len(link) <= Len(link')
  BY <1>1 DEF Older, OlderLinks
<1> QED BY <1>1, <1>2, <1>3, <1>4, <1>5, <1>6 DEF RowsFit

\* What is known of the request that issues the new token.
LEMMA Issued ==
    ASSUME SessionInv, Stepped, NEW i \in 1..Len(token'), i \notin 1..Len(token)
    PROVE  \E p \in Process :
             LET c == call[p]
                 t == token'[i]
             IN
             /\ i = Len(token) + 1 /\ i = Len(token')
             /\ UNCHANGED <<time, account, ended>>
             /\ c \in Call /\ c # NoCall /\ c.op \in Issuing
             /\ Registered(c.user) /\ c.seen <= Len(token) /\ c.seen \in Nat
             /\ t.user = c.user /\ t.issued = time /\ t.op = c.op /\ t.from = c.from
             /\ t.seen = c.seen /\ t.at = c.at
             /\ t.root = IF c.op = "refresh" THEN token[c.from].root ELSE i
             /\ t.pass = IF c.op = "login" THEN c.pass ELSE token[c.from].pass
             /\ c.op \in Renewing => c.from \in 1..Len(token) /\ token[c.from].user = c.user
             /\ c.op = "refresh" => token'[c.from].revoked
             /\ c.op = "select" => c.at < token[c.from].issued + AccessTtl
             /\ CallBegun(p) /\ CallFirst(p)
<1>1. /\ Len(token) \in Nat /\ Len(token') \in Nat /\ Len(token') > Len(token)
      /\ i = Len(token) + 1 /\ i = Len(token')
  <2>1. /\ Len(token) \in Nat /\ Len(token') \in Nat
        /\ Len(token') = Len(token) \/ Len(token') = Len(token) + 1
    BY RowsAfter DEF RowsFit
  <2> QED BY <2>1
<1>2. PICK p \in Process :
        /\ call[p].op \in Issuing
        /\ token'[Len(token')] = NewToken(call[p])
        /\ call[p].op = "refresh" => token'[call[p].from].revoked
        /\ UNCHANGED <<time, account, ended>>
  BY <1>1 DEF Stepped, Newer
<1>3. call[p] \in Call /\ call[p] # NoCall
  BY <1>2, Called DEF SessionInv, Issuing, Op
<1>4. CallRow(p) /\ CallBegun(p) /\ CallFirst(p)
  BY DEF SessionInv
<1>5. call[p].seen \in Nat
  BY <1>3 DEF Call
<1>6. token'[i] = NewToken(call[p])
  BY <1>1, <1>2
<1> QED BY <1>1, <1>2, <1>3, <1>4, <1>5, <1>6 DEF NewToken, IssuedAt, CallRow

LEMMA TokenRowsKept ==
    ASSUME SessionInv, Stepped
    PROVE  \A i \in 1..Len(token') : TokenRow(i)'
<1>1. /\ SessionTypeOK /\ Len(token) \in Nat
      /\ time \in Nat /\ time' \in Nat /\ time <= time'
      /\ \A u \in User : Registered(u) => Registered(u)'
      /\ OlderTokens
  BY RowsAfter DEF RowsFit, Older
<1>2. ASSUME NEW i \in 1..Len(token) PROVE TokenRow(i)'
  <2>1. TokenRow(i) /\ token[i] \in Token /\ i \in Nat
    BY <1>1, <1>2, Rows DEF SessionInv
  <2>2. token[i].root \in 1..Len(token)
    BY <1>1, <1>2, <2>1 DEF TokenRow
  <2>3. token[i].op \in Renewing => token[i].from \in 1..Len(token)
    BY <1>1, <1>2, <2>1 DEF TokenRow
  <2>4. token'[i].issued <= time'
    <3>1. token[i].issued \in Nat /\ token[i].issued <= time /\ token'[i].issued = token[i].issued
      BY <1>1, <1>2, <2>1, SessionBounds DEF OlderTokens, Token, TokenRow
    <3> QED BY <1>1, <3>1
  <2>5. account'[token[i].user].password > 0
    BY <1>1, <2>1 DEF TokenRow, Token, Registered
  <2>6. /\ token'[i].user = token[i].user /\ token'[i].root = token[i].root
        /\ token'[i].op = token[i].op /\ token'[i].from = token[i].from /\ token'[i].at = token[i].at
    BY <1>1, <1>2 DEF OlderTokens
  <2>7. token'[token[i].root].user = token[token[i].root].user
        /\ token'[token[i].root].op = token[token[i].root].op
    BY <1>1, <2>2 DEF OlderTokens
  <2>8. ASSUME token[i].op \in Renewing
        PROVE  /\ token'[token[i].from].user = token[token[i].from].user
               /\ token'[token[i].from].issued = token[token[i].from].issued
               /\ token[token[i].from].revoked => token'[token[i].from].revoked
    BY <1>1, <2>3, <2>8 DEF OlderTokens
  <2>9. Registered(token[i].user)'
    BY <2>5, <2>6 DEF Registered
  <2> QED BY <2>1, <2>4, <2>6, <2>7, <2>8, <2>9 DEF TokenRow, Renewing
<1>3. ASSUME NEW i \in 1..Len(token'), i \notin 1..Len(token) PROVE TokenRow(i)'
  <2>1. PICK p \in Process :
             LET c == call[p]
                 t == token'[i]
             IN
             /\ i = Len(token) + 1 /\ i = Len(token')
             /\ UNCHANGED <<time, account, ended>>
             /\ c \in Call /\ c # NoCall /\ c.op \in Issuing
             /\ Registered(c.user)
             /\ t.user = c.user /\ t.issued = time /\ t.op = c.op /\ t.from = c.from
             /\ t.at = c.at
             /\ t.root = IF c.op = "refresh" THEN token[c.from].root ELSE i
             /\ c.op \in Renewing => c.from \in 1..Len(token) /\ token[c.from].user = c.user
             /\ c.op = "refresh" => token'[c.from].revoked
             /\ c.op = "select" => c.at < token[c.from].issued + AccessTtl
    BY <1>3, Issued
  <2> DEFINE c == call[p]
  <2>2. Registered(token[i].user)'
    BY <2>1 DEF Registered
  <2>3. token'[i].issued <= time'
    BY <1>1, <2>1
  <2>4. ASSUME c.op \in Renewing
        PROVE  /\ c.from \in 1..(i - 1) /\ token'[c.from].user = token[c.from].user
               /\ token'[c.from].issued = token[c.from].issued
    BY <1>1, <2>1, <2>4 DEF OlderTokens
  <2>5. ASSUME c.op = "refresh"
        PROVE  /\ token'[i].root \in 1..i /\ token'[token'[i].root].user = c.user
               /\ token'[token'[i].root].op \in {"login", "select"}
    <3>1. TokenRow(c.from) /\ c.from \in 1..Len(token) /\ token[c.from].user = c.user
          /\ token'[i].root = token[c.from].root
      BY <2>1, <2>5 DEF SessionInv, Renewing
    <3>2. token[c.from].root \in 1..c.from
      BY <3>1 DEF TokenRow
    <3>3. token[c.from].root \in 1..Len(token) /\ token[c.from].root \in 1..i
      BY <1>1, <2>1, <3>1, <3>2
    <3>4. token'[token[c.from].root].user = token[token[c.from].root].user
          /\ token'[token[c.from].root].op = token[token[c.from].root].op
      BY <1>1, <3>3 DEF OlderTokens
    <3> QED BY <3>1, <3>3, <3>4 DEF TokenRow
  <2>6. ASSUME c.op # "refresh"
        PROVE  /\ token'[i].root \in 1..i /\ token'[token'[i].root].user = c.user
               /\ token'[token'[i].root].op \in {"login", "select"}
    BY <1>1, <2>1, <2>6 DEF Issuing
  <2> QED BY <2>1, <2>2, <2>3, <2>4, <2>5, <2>6 DEF TokenRow, Renewing
<1> QED BY <1>2, <1>3

LEMMA UsedRowsKept ==
    ASSUME SessionInv, Stepped
    PROVE  /\ \A m \in 1..Len(used') : used'[m].link \in 1..Len(link') /\ link'[used'[m].link].used
           /\ \A m, n \in 1..Len(used') :
                m < n /\ used'[m].link = used'[n].link => used'[n].seen < m
<1>1. /\ SessionTypeOK /\ Len(used) \in Nat /\ Len(used') \in Nat
      /\ Len(used') = Len(used) \/ Len(used') = Len(used) + 1
      /\ Len(link) \in Nat /\ Len(link') \in Nat /\ Len(link) <= Len(link')
      /\ OlderUsed /\ OlderLinks
  BY RowsAfter DEF RowsFit, Older
<1>2. ASSUME NEW m \in 1..Len(used)
      PROVE  used'[m] = used[m] /\ used[m].link \in 1..Len(link) /\ link'[used[m].link].used
  BY <1>1, <1>2 DEF SessionInv, OlderUsed, OlderLinks
<1>3. ASSUME NEW m \in 1..Len(used'), m \notin 1..Len(used)
      PROVE  /\ used'[m].link \in 1..Len(link) /\ link'[used'[m].link].used
             /\ \A k \in 1..Len(used) : used[k].link = used'[m].link => used'[m].seen < k
  <2>1. Len(used') > Len(used) /\ m = Len(used')
    BY <1>1, <1>3
  <2>2. PICK p \in Process :
            /\ call[p].op = "reset"
            /\ used'[Len(used')].link = call[p].from
            /\ used'[Len(used')].seen = call[p].seen
            /\ link'[call[p].from].used
    BY <2>1 DEF Stepped, NewerUsed
  <2>3. call[p] # NoCall
    BY <1>1, <2>2, Called DEF Op
  <2>4. call[p].from \in 1..Len(link) /\ CallFirst(p)
    BY <2>2, <2>3 DEF SessionInv, CallRow
  <2> QED BY <2>1, <2>2, <2>4 DEF CallFirst
<1>4. \A m \in 1..Len(used') : used'[m].link \in 1..Len(link') /\ link'[used'[m].link].used
  <2>1. 1..Len(link) \subseteq 1..Len(link')
    BY <1>1
  <2> QED BY <1>2, <1>3, <2>1
<1>5. ASSUME NEW m \in 1..Len(used'), NEW n \in 1..Len(used'), m < n, used'[m].link = used'[n].link
      PROVE  used'[n].seen < m
  <2>1. m \in 1..Len(used)
    BY <1>1, <1>5
  <2>2. CASE n \in 1..Len(used)
    <3>1. used[m].link = used[n].link /\ m \in DOMAIN used /\ n \in DOMAIN used
      BY <1>1, <1>2, <1>5, <2>1, <2>2, Rows
    <3>2. used[n].seen < m
      BY <1>5, <3>1 DEF SessionInv, UsedOnce, ResetsOverlap
    <3> QED BY <1>2, <2>2, <3>2
  <2>3. CASE n \notin 1..Len(used)
    BY <1>2, <1>3, <1>5, <2>1, <2>3
  <2> QED BY <2>2, <2>3
<1> QED BY <1>4, <1>5

\* A session that began after the last end still did, if there is no end since.
LEMMA BegunKept ==
    ASSUME SessionInv, Stepped, NEW i \in 1..Len(token), SessionBegun(i),
           ended'[token[i].user] = ended[token[i].user]
    PROVE  SessionBegun(i)'
<1> DEFINE u == token[i].user
<1>1. /\ SessionTypeOK /\ Len(token) \in Nat /\ OlderTokens
  BY RowsAfter DEF RowsFit, Older
<1>2. TokenRow(i) /\ token[i] \in Token /\ u \in User
  BY <1>1, Rows DEF SessionInv, Token
<1>3. token[i].root \in 1..Len(token)
  BY <1>1, <1>2 DEF TokenRow
<1>4. /\ token'[i].user = u /\ token'[i].root = token[i].root /\ token'[i].pass = token[i].pass
      /\ token'[token[i].root].op = token[token[i].root].op
  BY <1>1, <1>3 DEF OlderTokens
<1>5. CASE account'[u].password = account[u].password
  BY <1>4, <1>5 DEF SessionBegun
<1>6. CASE account'[u].password # account[u].password
  <2>1. /\ ended'[u].upto = Len(token') /\ Len(token') = Len(token)
    BY <1>2, <1>6 DEF Stepped, EndStep, TokenRow
  <2>2. token[i].root > Len(token)
    BY <2>1 DEF SessionBegun
  <2> QED BY <1>1, <1>3, <2>2
<1> QED BY <1>5, <1>6

LEMMA CallsKept ==
    ASSUME SessionInv, Stepped, NEW p \in Process
    PROVE  CallRow(p)' /\ CallBegun(p)' /\ CallFirst(p)'
<1>1. /\ SessionTypeOK /\ Len(token) \in Nat /\ Len(token') \in Nat /\ Len(token) <= Len(token')
      /\ Len(used) \in Nat /\ Len(used') \in Nat /\ Len(used) <= Len(used')
      /\ Len(link) \in Nat /\ Len(link') \in Nat /\ Len(link) <= Len(link')
      /\ time \in Nat /\ time' \in Nat /\ time <= time'
      /\ \A u \in User : Registered(u) => Registered(u)'
      /\ OlderTokens /\ OlderLinks /\ OlderUsed
  BY RowsAfter DEF RowsFit, Older, OlderTokens, OlderUsed
<1>2. CASE call'[p] = NoCall
  <2>1. NoCall.op = "none"
    BY DEF NoCall
  <2> QED BY <1>2, <2>1 DEF CallRow, CallBegun, CallFirst
<1>3. CASE call'[p] = call[p] /\ call[p] # NoCall
  <2> DEFINE c == call[p]
  <2>1. /\ c \in Call /\ c.user \in User /\ c.at \in Nat /\ c.seen \in Nat /\ c.op \in Op
        /\ CallRow(p) /\ CallBegun(p) /\ CallFirst(p)
    <3>1. c \in Call
      BY <1>1, <1>3, Rows
    <3>2. c.user \in User /\ c.at \in Nat /\ c.seen \in Nat /\ c.op \in Op
      BY <3>1, SessionBounds DEF Call
    <3>3. CallRow(p) /\ CallBegun(p) /\ CallFirst(p)
      BY DEF SessionInv
    <3> QED BY <3>1, <3>2, <3>3
  <2>2. c.op \in Renewing =>
          /\ c.from \in 1..Len(token) /\ c.from \in 1..Len(token') /\ token[c.from].user = c.user
          /\ token'[c.from].user = c.user /\ token'[c.from].issued = token[c.from].issued
    <3>1. c.op \in Renewing => c.from \in 1..Len(token) /\ token[c.from].user = c.user
      BY <1>3, <2>1 DEF CallRow
    <3>2. ASSUME NEW i \in 1..Len(token)
          PROVE  /\ i \in 1..Len(token') /\ token'[i].user = token[i].user
                 /\ token'[i].issued = token[i].issued
      BY <1>1 DEF OlderTokens
    <3> QED BY <3>1, <3>2
  <2>3. CallRow(p)'
    <3>1. c.at <= time'
      BY <1>1, <1>3, <2>1 DEF CallRow
    <3>2. c.op \in Issuing => account'[c.user].password > 0 /\ c.seen <= Len(token')
      BY <1>1, <1>3, <2>1 DEF CallRow, Registered
    <3>3. c.op = "select" => c.at < token'[c.from].issued + AccessTtl
      BY <1>3, <2>1, <2>2 DEF CallRow, Renewing
    <3>4. c.op = "reset" => c.from \in 1..Len(link') /\ c.seen <= Len(used')
      <4>1. c.op = "reset" => c.from \in 1..Len(link) /\ c.seen <= Len(used)
        BY <1>3, <2>1 DEF CallRow
      <4>2. 1..Len(link) \subseteq 1..Len(link') /\ (c.seen <= Len(used) => c.seen <= Len(used'))
        BY <1>1, <2>1
      <4> QED BY <4>1, <4>2
    <3> QED BY <1>3, <2>2, <3>1, <3>2, <3>3, <3>4 DEF CallRow, Registered
  <2>4. CallBegun(p)'
    <3>1. SUFFICES ASSUME ~ended'[c.user].crossed, c.op \in Issuing
                   PROVE  /\ c.op = "refresh" => SessionBegun(c.from)'
                          /\ c.op = "login" => c.pass = account'[c.user].password
      BY <1>3 DEF CallBegun, Issuing, SessionBegun
    <3>2. ended'[c.user] = ended[c.user] /\ account'[c.user].password = account[c.user].password
      <4>1. Registered(c.user)
        BY <1>3, <2>1, <3>1 DEF CallRow
      <4> QED BY <1>3, <2>1, <3>1, <4>1 DEF Stepped, EndStep
    <3>3. c.op = "refresh" => SessionBegun(c.from)
      BY <1>3, <2>1, <3>1, <3>2 DEF CallBegun
    <3>4. c.op = "refresh" => SessionBegun(c.from)'
      <4> SUFFICES ASSUME c.op = "refresh", NEW i, i = c.from PROVE SessionBegun(i)'
        BY <1>3 DEF SessionBegun
      <4>1. i \in 1..Len(token) /\ token[i].user = c.user /\ SessionBegun(i)
        BY <2>2, <3>3 DEF Renewing
      <4>2. ended'[token[i].user] = ended[token[i].user]
        BY <3>2, <4>1
      <4> QED BY <4>1, <4>2, BegunKept
    <3>5. c.op = "login" => c.pass = account'[c.user].password
      BY <1>3, <2>1, <3>1, <3>2 DEF CallBegun
    <3> QED BY <3>4, <3>5
  <2>5. CallFirst(p)'
    <3>1. ASSUME c.op = "refresh", NEW i \in 1..Len(token'),
                 token'[i].op = "refresh", token'[i].from = c.from
          PROVE  c.seen < i
      <4>1. CASE i \in 1..Len(token)
        <5>1. token[i].op = "refresh" /\ token[i].from = c.from
          BY <1>1, <3>1, <4>1 DEF OlderTokens
        <5> QED BY <2>1, <3>1, <4>1, <5>1 DEF CallFirst
      <4>2. CASE i \notin 1..Len(token)
        <5>1. c.seen <= Len(token)
          BY <1>3, <2>1, <3>1 DEF CallRow, Issuing
        <5> QED BY <1>1, <2>1, <4>2, <5>1
      <4> QED BY <4>1, <4>2
    <3>2. ASSUME c.op = "reset", NEW m \in 1..Len(used'), used'[m].link = c.from
          PROVE  c.seen < m
      <4>1. CASE m \in 1..Len(used)
        BY <1>1, <2>1, <3>2, <4>1 DEF OlderUsed, CallFirst
      <4>2. CASE m \notin 1..Len(used)
        <5>1. c.seen <= Len(used)
          BY <1>3, <2>1, <3>2 DEF CallRow
        <5> QED BY <1>1, <2>1, <4>2, <5>1
      <4> QED BY <4>1, <4>2
    <3> QED BY <1>3, <3>1, <3>2 DEF CallFirst
  <2> QED BY <2>3, <2>4, <2>5
<1>4. CASE CallRow(p)' /\ CallBegun(p)' /\ CallFirst(p)'
  BY <1>4
<1> QED BY <1>2, <1>3, <1>4 DEF Stepped, CallStep

LEMMA EndsKept ==
    ASSUME SessionInv, Stepped, NEW u \in User
    PROVE  EndRow(u)'
<1>1. /\ SessionTypeOK /\ Len(token) \in Nat /\ Len(token') \in Nat /\ Len(token) <= Len(token')
      /\ time \in Nat /\ OlderTokens
  BY RowsAfter DEF RowsFit, Older, OlderTokens
<1>2. EndRow(u) /\ ended[u].upto \in Nat
  BY <1>1, Rows DEF SessionInv
<1>3. CASE ended'[u] = ended[u]
  <2>1. ended[u].upto <= Len(token) /\ ended[u].upto <= Len(token')
    BY <1>1, <1>2 DEF EndRow
  <2>2. ASSUME NEW i \in 1..ended[u].upto, token'[i].user = u
        PROVE  token'[i].revoked /\ token'[i].issued <= ended[u].at
    <3>1. i \in 1..Len(token)
      BY <1>1, <1>2, <2>1
    <3> QED BY <1>1, <1>2, <2>2, <3>1 DEF EndRow, OlderTokens
  <2> QED BY <1>3, <2>1, <2>2 DEF EndRow
<1>4. CASE /\ ended'[u].upto = Len(token') /\ Len(token') = Len(token)
           /\ ended'[u].at = time' /\ time' = time
           /\ \A i \in 1..Len(token) : token[i].user = u => token'[i].revoked
  <2>1. ASSUME NEW i \in 1..Len(token), token'[i].user = u
        PROVE  token'[i].revoked /\ token'[i].issued <= ended'[u].at
    <3>1. token[i].issued <= time /\ token[i].user = u /\ token'[i].issued = token[i].issued
      BY <1>1, <2>1 DEF SessionInv, TokenRow, OlderTokens
    <3> QED BY <1>4, <3>1
  <2> QED BY <1>1, <1>4, <2>1 DEF EndRow
<1> QED BY <1>3, <1>4 DEF Stepped, EndStep

\* The new token belongs to a session that began after the last end.
LEMMA NewBegun ==
    ASSUME SessionInv, Stepped, NEW i \in 1..Len(token'), i \notin 1..Len(token),
           ~ended'[token'[i].user].crossed
    PROVE  SessionBegun(i)'
<1>1. PICK p \in Process :
             LET c == call[p]
                 t == token'[i]
             IN
             /\ i = Len(token) + 1 /\ i = Len(token')
             /\ UNCHANGED <<time, account, ended>>
             /\ c \in Call /\ c # NoCall /\ c.op \in Issuing
             /\ t.user = c.user /\ t.op = c.op
             /\ t.root = IF c.op = "refresh" THEN token[c.from].root ELSE i
             /\ t.pass = IF c.op = "login" THEN c.pass ELSE token[c.from].pass
             /\ c.op \in Renewing => c.from \in 1..Len(token) /\ token[c.from].user = c.user
             /\ CallBegun(p)
  BY Issued
<1> DEFINE c == call[p]
<1>2. /\ SessionTypeOK /\ Len(token) \in Nat /\ Len(token) <= Len(token') /\ OlderTokens
  BY RowsAfter DEF RowsFit, Older, OlderTokens
<1>3. c.user \in User /\ ended[c.user].upto \in Nat /\ ended[c.user].upto <= Len(token)
  <2>1. c.user \in User
    BY <1>1 DEF Call
  <2> QED BY <1>2, <2>1, Rows DEF SessionInv, EndRow
<1>4. CASE c.op = "refresh"
  <2>1. /\ c.from \in 1..Len(token) /\ token[c.from].user = c.user
        /\ SessionBegun(c.from) /\ TokenRow(c.from)
    BY <1>1, <1>4 DEF Renewing, CallBegun, SessionInv
  <2>2. token[c.from].root \in 1..Len(token)
    BY <1>2, <2>1 DEF TokenRow
  <2>3. token'[token[c.from].root].op = token[token[c.from].root].op
    BY <1>2, <2>2 DEF OlderTokens
  <2> QED BY <1>1, <1>4, <2>1, <2>3 DEF SessionBegun
<1>5. CASE c.op = "select"
  BY <1>1, <1>2, <1>3, <1>5 DEF SessionBegun
<1>6. CASE c.op = "login"
  <2>1. c.pass = account[c.user].password
    BY <1>1, <1>6 DEF CallBegun
  <2> QED BY <1>1, <1>2, <1>3, <1>6, <2>1 DEF SessionBegun
<1> QED BY <1>1, <1>4, <1>5, <1>6 DEF Issuing

LEMMA EndsHoldKept ==
    ASSUME SessionInv, Stepped, NEW i \in 1..Len(token'), ~token'[i].revoked, ~ended'[token'[i].user].crossed
    PROVE  SessionBegun(i)'
<1>1. /\ SessionTypeOK /\ Len(token) \in Nat /\ OlderTokens
  BY RowsAfter DEF RowsFit, Older
<1>2. CASE i \in 1..Len(token)
  <2>1. token'[i].user = token[i].user /\ ~token[i].revoked /\ token[i].user \in User
    BY <1>1, <1>2, Rows DEF OlderTokens, Token
  <2>2. ended'[token[i].user] = ended[token[i].user]
    BY <1>2, <2>1 DEF Stepped, EndStep
  <2>3. SessionBegun(i)
    <3>1. i \in DOMAIN token
      BY <1>1, <1>2, Rows
    <3> QED BY <2>1, <2>2, <3>1 DEF SessionInv, EndsHold, Live, SessionBegun
  <2> QED BY <1>2, <2>2, <2>3, BegunKept
<1>3. CASE i \notin 1..Len(token)
  BY <1>3, NewBegun
<1> QED BY <1>2, <1>3

LEMMA AfterlifeKept ==
    ASSUME SessionInv, Stepped, NEW i \in 1..Len(token'), token'[i].op = "select",
           i > ended'[token'[i].user].upto, token'[i].from <= ended'[token'[i].user].upto
    PROVE  token'[i].at < ended'[token'[i].user].at + AccessTtl
<1>1. /\ SessionTypeOK /\ Len(token) \in Nat /\ Len(token') \in Nat /\ OlderTokens /\ AccessTtl \in Nat
  BY RowsAfter, SessionBounds DEF RowsFit, Older
<1>2. CASE i \in 1..Len(token)
  <2>1. /\ token'[i].user = token[i].user /\ token[i].user \in User
        /\ token'[i].op = token[i].op /\ token'[i].from = token[i].from /\ token'[i].at = token[i].at
    BY <1>1, <1>2, Rows DEF OlderTokens, Token
  <2>2. ended'[token[i].user] = ended[token[i].user]
    <3>1. CASE ended'[token[i].user].upto = Len(token') /\ Len(token') = Len(token)
      BY <1>1, <1>2, <2>1, <3>1
    <3> QED BY <2>1, <3>1 DEF Stepped, EndStep
  <2>3. i \in DOMAIN token
    BY <1>1, <1>2, Rows
  <2> QED BY <2>1, <2>2, <2>3 DEF SessionInv, AfterlifeBounded
<1>3. CASE i \notin 1..Len(token)
  <2>1. PICK p \in Process :
             LET c == call[p]
                 t == token'[i]
             IN
             /\ UNCHANGED <<time, account, ended>>
             /\ c \in Call
             /\ t.user = c.user /\ t.op = c.op /\ t.from = c.from /\ t.at = c.at
             /\ c.op \in Renewing => c.from \in 1..Len(token) /\ token[c.from].user = c.user
             /\ c.op = "select" => c.at < token[c.from].issued + AccessTtl
    BY <1>3, Issued
  <2> DEFINE c == call[p]
             u == c.user
  <2>2. u \in User /\ c.at \in Nat /\ c.op = "select"
    BY <2>1, SessionBounds DEF Call
  <2>3. ended[u].upto \in Nat /\ ended[u].at \in Nat
    <3>1. ended[u] \in [upto : Nat, at : 0..MaxTime, crossed : BOOLEAN]
      BY <1>1, <2>2, Rows
    <3> QED BY <3>1, SessionBounds
  <2>4. c.from \in 1..ended[u].upto /\ token[c.from].user = u /\ token[c.from] \in Token
    BY <1>1, <2>1, <2>2, <2>3, Rows DEF Renewing
  <2>5. token[c.from].issued <= ended[u].at /\ token[c.from].issued \in Nat
    <3>1. EndRow(u) /\ MaxTime \in Nat
      BY <2>2, SessionBounds DEF SessionInv
    <3>2. token[c.from].issued <= ended[u].at
      <4> HIDE DEF u, c
      <4> QED BY <2>4, <3>1 DEF EndRow
    <3> QED BY <2>4, <3>1, <3>2 DEF Token
  <2>6. c.at < token[c.from].issued + AccessTtl
    BY <2>1, <2>2
  <2>7. c.at < ended[u].at + AccessTtl
    <3>1. PICK a, b, d : a = c.at /\ b = token[c.from].issued /\ d = ended[u].at
      OBVIOUS
    <3>2. a \in Nat /\ b \in Nat /\ d \in Nat /\ AccessTtl \in Nat
      BY <2>2, <2>3, <2>5, <3>1, SessionBounds
    <3>3. b <= d /\ a < b + AccessTtl
      BY <2>5, <2>6, <3>1
    <3>4. a < d + AccessTtl
      BY <3>2, <3>3
    <3> QED BY <3>1, <3>4
  <2> QED BY <2>1, <2>7
<1> QED BY <1>2, <1>3

LEMMA ExchangesKept ==
    ASSUME SessionInv, Stepped, NEW i \in 1..Len(token'), NEW j \in 1..Len(token'), i < j,
           token'[i].op = "refresh", token'[j].op = "refresh", token'[i].from = token'[j].from
    PROVE  token'[j].seen < i
<1>1. /\ SessionTypeOK /\ Len(token) \in Nat /\ Len(token') \in Nat /\ OlderTokens
      /\ Len(token') = Len(token) \/ Len(token') = Len(token) + 1
  BY RowsAfter DEF RowsFit, Older
<1>2. i \in 1..Len(token)
  BY <1>1
<1>3. token[i].op = "refresh" /\ token[i].from = token'[i].from
  BY <1>1, <1>2 DEF OlderTokens
<1>4. CASE j \in 1..Len(token)
  <2>1. token[j].op = "refresh" /\ token[j].from = token'[j].from /\ token'[j].seen = token[j].seen
    BY <1>1, <1>4 DEF OlderTokens
  <2>2. i \in DOMAIN token /\ j \in DOMAIN token
    BY <1>1, <1>2, <1>4, Rows
  <2> QED BY <1>3, <2>1, <2>2 DEF SessionInv, UsedOnce, ExchangesOverlap
<1>5. CASE j \notin 1..Len(token)
  <2>1. PICK p \in Process :
             LET c == call[p]
                 t == token'[j]
             IN
             /\ t.op = c.op /\ t.from = c.from /\ t.seen = c.seen
             /\ CallFirst(p)
    BY <1>5, Issued
  <2> QED BY <1>2, <1>3, <2>1 DEF CallFirst
<1> QED BY <1>4, <1>5

LEMMA SteppedInv == SessionInv /\ Stepped => SessionInv'
<1> SUFFICES ASSUME SessionInv, Stepped PROVE SessionInv'
  OBVIOUS
<1>1. SessionTypeOK' /\ DOMAIN token' = 1..Len(token') /\ DOMAIN used' = 1..Len(used')
  <2>1. SessionTypeOK'
    BY DEF Stepped
  <2>2. token' \in Seq(Token) /\ used' \in Seq([link : Nat, seen : Nat])
    BY <2>1 DEF SessionTypeOK
  <2> QED BY <2>1, <2>2, LenProperties
<1>2. EndsHold'
  <2>1. \A i \in 1..Len(token') :
          ~token'[i].revoked /\ ~ended'[token'[i].user].crossed => SessionBegun(i)'
    BY EndsHoldKept
  <2> QED BY <1>1, <2>1 DEF EndsHold, Live, SessionBegun
<1>3. AfterlifeBounded'
  BY <1>1, AfterlifeKept DEF AfterlifeBounded
<1>4. ExchangesOverlap'
  BY <1>1, ExchangesKept DEF ExchangesOverlap
<1>5. ResetsOverlap'
  BY <1>1, UsedRowsKept DEF ResetsOverlap
<1>6. UsedOnce'
  BY <1>4, <1>5 DEF UsedOnce, Stepped
<1> QED BY <1>1, <1>2, <1>3, <1>6, TokenRowsKept, UsedRowsKept, CallsKept, EndsKept DEF SessionInv

-----------------------------------------------------------------------------
LEMMA SessionsInv == SessionSpec => []SessionInv
<1>1. SessionInv /\ [SessionNext]_sessionVars => SessionInv'
  BY NextStep, SteppedInv
<1> QED BY InitInv, <1>1, PTL DEF SessionSpec

\* Whatever requests interleave in however many processes, a logout or password
\* reset ends the sessions of its user, and access tokens older than it begin
\* sessions for no longer than they live.
THEOREM SessionsEndHolds == SessionSpec => []SessionsEnd
<1>1. SessionInv => SessionsEnd
  BY DEF SessionInv, SessionsEnd
<1> QED BY <1>1, SessionsInv, PTL

\* A refresh token or reset link is used again only by a request that had read
\* it before its first use, and a user has one usable reset link.
THEOREM UsedOnceHolds == SessionSpec => []UsedOnce
<1>1. SessionInv => UsedOnce
  BY DEF SessionInv
<1> QED BY <1>1, SessionsInv, PTL

-----------------------------------------------------------------------------
(* The limiter of attempts: module RateLimiter.                            *)

\* The counts of a process for a key: how many attempts of each instant.
Figures == [Instant -> Nat]

Sides == {"redis", "local"}

Grants == [Gate -> [Key -> [Sides -> Figures]]]

LimiterType ==
    /\ instant \in Instant
    /\ bucket \in [Gate -> [Key -> Figures]]
    /\ counter \in [Key -> [n : Nat, exp : Nat]]
    /\ check \in [Gate -> SUBSET Key]
    /\ \A g \in Gate : check[g] = {} \/ \E k \in Key : check[g] = {k}
    /\ grants \in Grants

\* Nothing is let through, or noted, ahead of the clock.
NothingAhead ==
    \A g \in Gate, k \in Key, t \in Instant : t > instant =>
        /\ bucket[g][k][t] = 0
        /\ \A by \in Sides : grants[g][k][by][t] = 0

\* A bucket has the attempts of the window that its process let through.
BucketTrue ==
    \A g \in Gate, k \in Key : \A t \in WindowOf(k) : bucket[g][k][t] = grants[g][k]["local"][t]

\* What the processes let through by Redis at some instants.
OfGate(G, k, S) == [g \in Gate |-> SumOver(G[g][k]["redis"], S)]

SharedIn(G, k, S) == SumOver(OfGate(G, k, S), Gate)

Shared(k, S) == SharedIn(grants, k, S)

Pending(k) == \E g \in Gate : check[g] = {k}

\* One process at most is about to set the expiry of a counter; none is set then, and
\* none without a counter.
PendingOne ==
    \A k \in Key :
        /\ \A g, h \in Gate : check[g] = {k} /\ check[h] = {k} => g = h
        /\ Pending(k) => counter[k].n > 0 /\ counter[k].exp = Never
        /\ counter[k].n = 0 => counter[k].exp = Never

From(s) == {t \in Instant : s <= t}

Before(s, k) == {t \in Instant : s - Window[k] <= t /\ t < s}

\* The counter of k counts what was let through since instant s, which includes what
\* is about to be; the window that ends before s is within the limit.
CountedSince(k, s) ==
    /\ s <= instant
    /\ Shared(k, From(s)) + (IF Pending(k) THEN 1 ELSE 0) <= counter[k].n
    /\ Shared(k, From(s)) + (IF Pending(k) THEN 1 ELSE 0) <= Limit
    /\ Shared(k, Before(s, k)) <= Limit
    /\ counter[k].exp >= s + Window[k]

LimiterInv ==
    /\ LimiterType
    /\ NothingAhead
    /\ BucketTrue
    /\ WindowKept
    /\ PendingOne
    /\ \A k \in Key : \E s \in Nat : CountedSince(k, s)
    /\ LockoutHasCause

-----------------------------------------------------------------------------
(* What sums of attempts are.                                              *)

LEMMA InstantFinite == ASSUME NEW S \in SUBSET Instant PROVE IsFiniteSet(S) /\ IsFiniteSet(Gate)
<1>1. MaxInstant \in Nat /\ IsFiniteSet(Gate)
  BY LimiterBounds
<1>2. IsFiniteSet(0..MaxInstant)
  BY <1>1, FS_Interval
<1> QED BY <1>1, <1>2, FS_Subset DEF Instant

LEMMA OfGateTyped ==
  ASSUME NEW G \in Grants, NEW k \in Key, NEW S \in SUBSET Instant, NEW g \in Gate
  PROVE  OfGate(G, k, S)[g] = SumOver(G[g][k]["redis"], S) /\ OfGate(G, k, S)[g] \in Nat
<1>1. \A t \in S : G[g][k]["redis"][t] \in Nat
  BY DEF Grants, Figures, Sides
<1>2. SumOver(G[g][k]["redis"], S) \in Nat
  BY <1>1, InstantFinite, SumType
<1> QED BY <1>2 DEF OfGate

LEMMA SharedTyped ==
  ASSUME NEW G \in Grants, NEW k \in Key, NEW S \in SUBSET Instant
  PROVE  SharedIn(G, k, S) \in Nat
BY OfGateTyped, InstantFinite, SumType DEF SharedIn

LEMMA SharedPart ==
  ASSUME NEW G \in Grants, NEW k \in Key, NEW S \in SUBSET Instant, NEW P \in SUBSET S
  PROVE  SharedIn(G, k, P) <= SharedIn(G, k, S)
<1>1. ASSUME NEW g \in Gate
      PROVE  OfGate(G, k, P)[g] <= OfGate(G, k, S)[g]
  <2>1. \A t \in S : G[g][k]["redis"][t] \in Nat
    BY DEF Grants, Figures, Sides
  <2>2. SumOver(G[g][k]["redis"], P) <= SumOver(G[g][k]["redis"], S)
    BY <2>1, InstantFinite, SumPart
  <2> QED BY <2>2, OfGateTyped
<1>2. \A g \in Gate : OfGate(G, k, P)[g] \in Int /\ OfGate(G, k, S)[g] \in Int
  BY OfGateTyped
<1> QED BY <1>1, <1>2, InstantFinite, SumMore DEF SharedIn

LEMMA SharedUnion ==
  ASSUME NEW G \in Grants, NEW k \in Key, NEW A \in SUBSET Instant, NEW B \in SUBSET Instant,
         A \cap B = {}
  PROVE  SharedIn(G, k, A \cup B) = SharedIn(G, k, A) + SharedIn(G, k, B)
<1>1. ASSUME NEW g \in Gate
      PROVE  OfGate(G, k, A \cup B)[g] = OfGate(G, k, A)[g] + OfGate(G, k, B)[g]
  <2>1. \A t \in A \cup B : G[g][k]["redis"][t] \in Int
    BY DEF Grants, Figures, Sides
  <2>2. SumOver(G[g][k]["redis"], A \cup B)
          = SumOver(G[g][k]["redis"], A) + SumOver(G[g][k]["redis"], B)
    BY <2>1, InstantFinite, SumUnion
  <2>3. A \cup B \in SUBSET Instant
    OBVIOUS
  <2>4. /\ OfGate(G, k, A \cup B)[g] = SumOver(G[g][k]["redis"], A \cup B)
        /\ OfGate(G, k, A)[g] = SumOver(G[g][k]["redis"], A)
        /\ OfGate(G, k, B)[g] = SumOver(G[g][k]["redis"], B)
    <3>1. \A S \in SUBSET Instant : OfGate(G, k, S)[g] = SumOver(G[g][k]["redis"], S)
      BY Zenon, OfGateTyped
    <3> QED BY Zenon, <2>3, <3>1
  <2> QED BY Zenon, <2>2, <2>4
<1>2. \A g \in Gate : OfGate(G, k, A)[g] \in Int /\ OfGate(G, k, B)[g] \in Int
  BY OfGateTyped
<1>3. PICK f, h, u : /\ f = OfGate(G, k, A) /\ h = OfGate(G, k, B)
                     /\ u = OfGate(G, k, A \cup B)
  OBVIOUS
<1>4. SumOver(u, Gate) = SumOver(f, Gate) + SumOver(h, Gate)
  <2>1. \A g \in Gate : f[g] \in Int /\ h[g] \in Int /\ u[g] = f[g] + h[g]
    BY Zenon, <1>1, <1>2, <1>3
  <2> QED BY <2>1, LimiterBounds, SumPlus
<1> QED BY Zenon, <1>3, <1>4 DEF SharedIn

LEMMA SharedZero ==
  ASSUME NEW G, NEW k, NEW S \in SUBSET Instant,
         \A g \in Gate, t \in S : G[g][k]["redis"][t] = 0
  PROVE  SharedIn(G, k, S) = 0
<1>1. ASSUME NEW g \in Gate
      PROVE  OfGate(G, k, S)[g] = 0
  <2>1. SumOver(G[g][k]["redis"], S) = 0
    BY InstantFinite, SumZero
  <2> QED BY <2>1 DEF OfGate
<1> QED BY <1>1, InstantFinite, SumZero DEF SharedIn

\* One more attempt by Redis, at instant i.
OneMore(G, H, g, k, i) ==
    /\ \A x \in Gate, j \in Key : <<x, j>> # <<g, k>> => H[x][j]["redis"] = G[x][j]["redis"]
    /\ \A t \in Instant \ {i} : H[g][k]["redis"][t] = G[g][k]["redis"][t]
    /\ H[g][k]["redis"][i] = G[g][k]["redis"][i] + 1

\* What the processes let through at the instants of S is one more where i is of S.
CountsOne(G, H, k, i, S) ==
    /\ i \in S => SharedIn(H, k, S) = SharedIn(G, k, S) + 1
    /\ i \notin S => SharedIn(H, k, S) = SharedIn(G, k, S)
    /\ \A j \in Key \ {k} : SharedIn(H, j, S) = SharedIn(G, j, S)

LEMMA SharedGrant ==
  ASSUME NEW G \in Grants, NEW g \in Gate, NEW k \in Key, NEW i \in Instant,
         NEW H \in Grants, OneMore(G, H, g, k, i),
         NEW S \in SUBSET Instant
  PROVE  CountsOne(G, H, k, i, S)
<1>1. /\ \A h \in Gate, j \in Key : <<h, j>> # <<g, k>> => H[h][j]["redis"] = G[h][j]["redis"]
      /\ \A t \in Instant \ {i} : H[g][k]["redis"][t] = G[g][k]["redis"][t]
      /\ H[g][k]["redis"][i] = G[g][k]["redis"][i] + 1
  BY DEF OneMore
<1>2. PICK d : d = IF i \in S THEN 1 ELSE 0
  OBVIOUS
<1>3. SumOver(H[g][k]["redis"], S) = SumOver(G[g][k]["redis"], S) + d
  <2>1. PICK f, h : f = G[g][k]["redis"] /\ h = H[g][k]["redis"]
    OBVIOUS
  <2>2. \A t \in S : f[t] \in Int /\ h[t] \in Int
    BY <2>1 DEF Grants, Figures, Sides
  <2>3. (\A t \in Instant \ {i} : h[t] = f[t]) /\ h[i] = f[i] + 1
    BY <1>1, <2>1
  <2>4. IsFiniteSet(S)
    BY InstantFinite
  <2>5. SumOver(h, S) = SumOver(f, S) + d
    <3>1. CASE i \in S
      <4>1. d = 1 /\ d \in Int
        BY <1>2, <3>1
      <4> QED BY <2>2, <2>3, <2>4, <3>1, <4>1, SumChange
    <3>2. CASE i \notin S
      <4>1. SumOver(h, S) = SumOver(f, S)
        BY <2>3, <2>4, <3>2, SumAgree
      <4>2. SumOver(f, S) \in Int
        BY <2>2, <2>4, SumType
      <4>3. SumOver(f, S) + 0 = SumOver(f, S)
        BY <4>2
      <4> QED BY <1>2, <3>2, <4>1, <4>3
    <3> QED BY <3>1, <3>2
  <2> QED BY Zenon, <2>1, <2>5
<1>4. PICK f, h : f = OfGate(G, k, S) /\ h = OfGate(H, k, S)
  OBVIOUS
<1>5. SumOver(h, Gate) = SumOver(f, Gate) + d
  <2>0. \A x \in Gate : /\ f[x] = SumOver(G[x][k]["redis"], S)
                       /\ h[x] = SumOver(H[x][k]["redis"], S)
    <3>1. \A x \in Gate : OfGate(G, k, S)[x] = SumOver(G[x][k]["redis"], S)
      BY OfGateTyped
    <3>2. \A x \in Gate : OfGate(H, k, S)[x] = SumOver(H[x][k]["redis"], S)
      BY OfGateTyped
    <3> QED BY Zenon, <1>4, <3>1, <3>2
  <2>1. h[g] = f[g] + d
    BY Zenon, <1>3, <2>0
  <2>2. ASSUME NEW x \in Gate \ {g} PROVE h[x] = f[x]
    <3>1. H[x][k]["redis"] = G[x][k]["redis"]
      BY <1>1
    <3>2. x \in Gate
      OBVIOUS
    <3> QED BY Zenon, <2>0, <3>1, <3>2
  <2>3. \A x \in Gate : f[x] \in Int /\ h[x] \in Int
    BY <1>4, OfGateTyped
  <2>4. d \in Int /\ IsFiniteSet(Gate)
    BY <1>2, LimiterBounds
  <2> QED BY <2>1, <2>2, <2>3, <2>4, SumChange
<1>6. ASSUME NEW j \in Key \ {k}
      PROVE  SharedIn(H, j, S) = SharedIn(G, j, S)
  <2>1. \A x \in Gate : OfGate(H, j, S)[x] = OfGate(G, j, S)[x]
    BY <1>1 DEF OfGate
  <2> QED BY <2>1, InstantFinite, SumAgree DEF SharedIn
<1>7. SharedIn(H, k, S) = SharedIn(G, k, S) + d
  BY Zenon, <1>4, <1>5 DEF SharedIn
<1>8. SharedIn(G, k, S) \in Nat
  BY SharedTyped
<1> QED BY <1>2, <1>6, <1>7, <1>8 DEF CountsOne

\* The sum of the bound is this one.
LEMMA SharedBoundIs ==
  ASSUME NEW k \in Key
  PROVE  MapThenSumSet(LAMBDA g : InWindow(g, k, "redis"), Gate) = Shared(k, WindowOf(k))
<1> DEFINE f == OfGate(grants, k, WindowOf(k))
           Sums(s, e) == e = [r \in SUBSET s |->
                                IF r = {} THEN 0
                                ELSE InWindow(Picked(r), k, "redis") + e[r \ {Picked(r)}]]
<1>1. \A g \in Gate : f[g] = InWindow(g, k, "redis")
  BY Zenon DEF OfGate, InWindow, SumOver
<1>2. MapThenSumSet(LAMBDA g : InWindow(g, k, "redis"), Gate) = (CHOOSE e : Sums(Gate, e))[Gate]
  BY Zenon DEF MapThenSumSet, MapThenFoldSet, Picked
<1>3. ASSUME NEW e
      PROVE  Sums(Gate, e) <=> SumSolution(e, f, SUBSET Gate)
  <2>1. \A r \in SUBSET Gate :
          (IF r = {} THEN 0 ELSE InWindow(Picked(r), k, "redis") + e[r \ {Picked(r)}])
            = SumRule(f, e, r)
    <3> SUFFICES ASSUME NEW r \in SUBSET Gate, r # {}
                 PROVE  InWindow(Picked(r), k, "redis") = f[Picked(r)]
      BY DEF SumRule
    <3>1. Picked(r) \in Gate
      BY PickedIn
    <3> HIDE DEF f
    <3> QED BY <1>1, <3>1
  <2> HIDE DEF f
  <2> QED BY <2>1 DEF SumSolution
<1>4. PICK e : e = (CHOOSE d : Sums(Gate, d))
  OBVIOUS
<1>5. Sums(Gate, e)
  <2>1. \E d : SumSolution(d, f, SUBSET Gate)
    <3> HIDE DEF f
    <3> QED BY SumSolvable, LimiterBounds
  <2>2. \E d : Sums(Gate, d)
    <3> HIDE DEF f, Sums
    <3> QED BY <1>3, <2>1
  <2> HIDE DEF Sums
  <2> QED BY <1>4, <2>2
<1>6. e[Gate] = SumOver(f, Gate)
  <2> HIDE DEF f, Sums
  <2> QED BY <1>3, <1>5, LimiterBounds, SumSolves
<1> QED BY Zenon, <1>2, <1>4, <1>6 DEF Shared, SharedIn

-----------------------------------------------------------------------------
(* The limiter without Redis.                                              *)

WindowIs ==
    \A g \in Gate, k \in Key : \A by \in Sides :
        InWindow(g, k, by) = SumOver(grants[g][k][by], WindowOf(k))

LEMMA InWindowIs == WindowIs /\ WindowIs'
<1>1. WindowIs
  BY Zenon DEF WindowIs, InWindow, SumOver
<1> QED BY <1>1, PTL

\* A check of key k by process g leaves the other processes' buckets alone; its own
\* keep what its windows need, and an attempt is granted and noted below the limit.
CheckForm(g, k, a) ==
    /\ a \in Figures
    /\ \A t \in Instant : a[t] = IF t \in WindowOf(k) THEN bucket[g][k][t] ELSE 0
    /\ \A h \in Gate \ {g} : bucket'[h] = bucket[h]
    /\ \A j \in Key \ {k} : \A t \in Instant :
         bucket'[g][j][t] \in {bucket[g][j][t], 0} /\ (t \in WindowOf(j) => bucket'[g][j][t] = bucket[g][j][t])
    /\ bucket' \in [Gate -> [Key -> Figures]]
    /\ \/ /\ SumOver(a, Instant) >= Limit /\ grants' = grants
          /\ \A t \in Instant : /\ bucket'[g][k][t] \in {bucket[g][k][t], 0}
                                /\ t \in WindowOf(k) => bucket'[g][k][t] = bucket[g][k][t]
       \/ /\ ~(SumOver(a, Instant) >= Limit) /\ Granted(g, k, "local")
          /\ bucket'[g][k] = [a EXCEPT ![instant] = @ + 1]

LEMMA CheckIsForm ==
  ASSUME LimiterType, NothingAhead, NEW g \in Gate, NEW k \in Key, CheckLocally(g, k)
  PROVE  \E a : CheckForm(g, k, a)
<1>1. PICK kept : kept = Swept(g, k)
  OBVIOUS
<1>2. PICK a : a = Recent(kept[k], k)
  OBVIOUS
<1>3. /\ \/ /\ SumOver(a, Instant) >= Limit /\ grants' = grants
            /\ bucket' = [bucket EXCEPT ![g] = kept]
         \/ /\ ~(SumOver(a, Instant) >= Limit) /\ Granted(g, k, "local")
            /\ bucket' = [bucket EXCEPT ![g] = [kept EXCEPT ![k] = [a EXCEPT ![instant] = @ + 1]]]
  <2>1. Attempts(a) = SumOver(a, Instant)
    BY Zenon DEF Attempts, SumOver
  <2> QED BY Zenon, <1>1, <1>2, <2>1 DEF CheckLocally
<1>4. bucket[g] \in [Key -> Figures] /\ instant \in Instant /\ instant \in Nat
  BY DEF LimiterType, Instant
<1>5. kept \in [Key -> Figures]
  BY <1>1, <1>4 DEF Swept, NoAttempts, Figures
<1>6. ASSUME NEW j \in Key, NEW t \in Instant
      PROVE  /\ kept[j][t] \in {bucket[g][j][t], 0}
             /\ t \in WindowOf(j) => kept[j][t] = bucket[g][j][t]
  <2>1. CASE kept[j] = bucket[g][j]
    BY <2>1
  <2>2. CASE kept[j] # bucket[g][j]
    <3>1. kept[j] = NoAttempts /\ Stale(bucket[g][j], k)
      BY <1>1, <1>4, <2>2 DEF Swept
    <3>2. LongWindow \in Nat /\ Window[k] \in 1..LongWindow /\ Window[j] \in 1..LongWindow
      BY LimiterBounds
    <3>3. Max({Window[k], LongWindow}) = LongWindow
      <4>1. LongWindow \in {Window[k], LongWindow} /\ \A x \in {Window[k], LongWindow} : x <= LongWindow
        BY <3>2
      <4>2. \A x \in {Window[k], LongWindow} : (\A y \in {Window[k], LongWindow} : x >= y) => x = LongWindow
        BY <3>2
      <4>3. \A y \in {Window[k], LongWindow} : LongWindow >= y
        BY <3>2
      <4> QED BY <4>1, <4>2, <4>3 DEF Max
    <3>4. bucket[g][j][t] > 0 => t < instant - LongWindow
      BY <3>1, <3>3 DEF Stale, Cutoff
    <3>5. kept[j][t] = 0 /\ bucket[g][j][t] \in Nat /\ t \in Nat
      <4>1. kept[j][t] = 0
        BY <3>1 DEF NoAttempts
      <4>2. bucket[g][j][t] \in Nat
        BY <1>4 DEF Figures
      <4> QED BY <4>1, <4>2 DEF Instant
    <3>6. t \in WindowOf(j) => ~(t < instant - LongWindow)
      BY <1>4, <3>2, <3>5 DEF WindowOf
    <3> QED BY <3>4, <3>5, <3>6
  <2> QED BY <2>1, <2>2
<1>7. a \in Figures
  BY <1>2, <1>5 DEF Recent, Figures
<1>8. ASSUME NEW t \in Instant
      PROVE  a[t] = IF t \in WindowOf(k) THEN bucket[g][k][t] ELSE 0
  <2>1. a[t] = IF t > instant - Window[k] THEN kept[k][t] ELSE 0
    BY <1>2 DEF Recent
  <2>2. t \in Nat /\ instant \in Nat /\ Window[k] \in Nat
    BY <1>4, LimiterBounds DEF Instant
  <2>3. CASE t \in WindowOf(k)
    BY <1>6, <2>1, <2>2, <2>3 DEF WindowOf
  <2>4. CASE t \notin WindowOf(k)
    <3>1. CASE t > instant
      <4>1. bucket[g][k][t] = 0
        BY <3>1 DEF NothingAhead
      <4> QED BY <1>6, <2>1, <2>4, <4>1
    <3>2. CASE ~(t > instant)
      BY <2>1, <2>2, <2>4, <3>2 DEF WindowOf
    <3> QED BY <3>1, <3>2
  <2> QED BY <2>3, <2>4
<1>9. [a EXCEPT ![instant] = @ + 1] \in Figures
  BY <1>4, <1>7 DEF Figures
<1>10. CheckForm(g, k, a)
  <2>1. CASE SumOver(a, Instant) >= Limit
    <3>1. grants' = grants /\ bucket' = [bucket EXCEPT ![g] = kept]
      BY <1>3, <2>1
    <3>2. bucket'[g] = kept /\ bucket' \in [Gate -> [Key -> Figures]]
          /\ \A h \in Gate \ {g} : bucket'[h] = bucket[h]
      BY <1>5, <3>1 DEF LimiterType
    <3> QED BY <1>6, <1>7, <1>8, <2>1, <3>1, <3>2 DEF CheckForm
  <2>2. CASE ~(SumOver(a, Instant) >= Limit)
    <3>1. PICK b : b = [a EXCEPT ![instant] = @ + 1]
      OBVIOUS
    <3>2. Granted(g, k, "local") /\ bucket' = [bucket EXCEPT ![g] = [kept EXCEPT ![k] = b]]
      BY <1>3, <2>2, <3>1
    <3>3. /\ bucket'[g][k] = b /\ \A j \in Key \ {k} : bucket'[g][j] = kept[j]
          /\ bucket' \in [Gate -> [Key -> Figures]]
          /\ \A h \in Gate \ {g} : bucket'[h] = bucket[h]
      BY <1>5, <1>9, <3>1, <3>2 DEF LimiterType
    <3> QED BY <1>6, <1>7, <1>8, <2>2, <3>1, <3>2, <3>3 DEF CheckForm
  <2> QED BY <2>1, <2>2
<1> QED BY <1>10

RedisSame ==
    \A g \in Gate, k \in Key : grants'[g][k]["redis"] = grants[g][k]["redis"]

LocalSame ==
    \A g \in Gate, k \in Key : grants'[g][k]["local"] = grants[g][k]["local"]

\* What the limiter without Redis keeps.
LocalInv ==
    /\ instant \in Instant /\ bucket \in [Gate -> [Key -> Figures]] /\ grants \in Grants
    /\ NothingAhead /\ BucketTrue /\ WindowKept

LEMMA WindowFacts ==
  ASSUME NEW k \in Key, instant \in Instant
  PROVE  /\ Window[k] \in Nat \ {0} /\ Window[k] <= LongWindow /\ WindowOf(k) \in SUBSET Instant
         /\ instant \in WindowOf(k) /\ instant \in Nat
<1>1. Window[k] \in 1..LongWindow /\ LongWindow \in Nat /\ instant \in Nat
  BY LimiterBounds DEF Instant
<1> QED BY <1>1 DEF WindowOf

\* A check of a process in its own lists.
LEMMA LocalCheck ==
  ASSUME LimiterType, LocalInv, NEW g \in Gate, NEW k \in Key, CheckLocally(g, k),
         instant' = instant
  PROVE  LocalInv' /\ RedisSame
<1>1. PICK a : CheckForm(g, k, a)
  BY CheckIsForm DEF LocalInv
<1>2. \A j \in Key : WindowOf(j)' = WindowOf(j)
  BY DEF WindowOf
<1>3. instant \in WindowOf(k) /\ WindowOf(k) \in SUBSET Instant /\ instant \in Nat
  BY WindowFacts DEF LocalInv
<1>4. /\ grants' \in Grants /\ RedisSame
      /\ \A h \in Gate, j \in Key : <<h, j>> # <<g, k>> => grants'[h][j] = grants[h][j]
      /\ \A t \in Instant \ {instant} : grants'[g][k]["local"][t] = grants[g][k]["local"][t]
      /\ \/ grants' = grants
         \/ grants'[g][k]["local"][instant] = grants[g][k]["local"][instant] + 1
  <2>1. CASE grants' = grants
    BY <2>1 DEF LocalInv, RedisSame
  <2>2. CASE Granted(g, k, "local")
    <3>1. grants' = [grants EXCEPT ![g][k]["local"][instant] = @ + 1] /\ grants \in Grants
          /\ instant \in Instant
      BY <2>2 DEF Granted, LocalInv
    <3>2. grants' \in Grants
      BY <3>1 DEF Grants, Figures, Sides
    <3>3. RedisSame
      BY <3>1 DEF Grants, Figures, Sides, RedisSame
    <3>4. \A h \in Gate, j \in Key : <<h, j>> # <<g, k>> => grants'[h][j] = grants[h][j]
      BY <3>1 DEF Grants, Figures, Sides
    <3>5. /\ \A t \in Instant \ {instant} : grants'[g][k]["local"][t] = grants[g][k]["local"][t]
          /\ grants'[g][k]["local"][instant] = grants[g][k]["local"][instant] + 1
      BY <3>1 DEF Grants, Figures, Sides
    <3> QED BY <3>2, <3>3, <3>4, <3>5
  <2> QED BY <1>1, <2>1, <2>2 DEF CheckForm
<1>5. NothingAhead'
  <2> SUFFICES ASSUME NEW h \in Gate, NEW j \in Key, NEW t \in Instant, t > instant
               PROVE  bucket'[h][j][t] = 0 /\ \A by \in Sides : grants'[h][j][by][t] = 0
    BY DEF NothingAhead
  <2>1. bucket[h][j][t] = 0 /\ \A by \in Sides : grants[h][j][by][t] = 0
    BY DEF LocalInv, NothingAhead
  <2>2. t # instant
    BY <1>3
  <2>3. \A by \in Sides : grants'[h][j][by][t] = 0
    BY <1>4, <2>1, <2>2 DEF Sides, RedisSame
  <2>4. bucket'[h][j][t] = 0
    <3>1. CASE h # g
      BY <1>1, <2>1, <3>1 DEF CheckForm
    <3>2. CASE h = g /\ j # k
      BY <1>1, <2>1, <3>2 DEF CheckForm
    <3>3. CASE h = g /\ j = k
      <4>1. a[t] = 0 /\ a \in Figures
        BY <1>1, <2>1, <3>3 DEF CheckForm
      <4>2. CASE bucket'[g][k] = [a EXCEPT ![instant] = @ + 1]
        BY <2>2, <3>3, <4>1, <4>2 DEF Figures
      <4>3. CASE bucket'[g][k][t] \in {bucket[g][k][t], 0}
        BY <2>1, <3>3, <4>3
      <4> QED BY <1>1, <4>2, <4>3 DEF CheckForm
    <3> QED BY <3>1, <3>2, <3>3
  <2> QED BY <2>3, <2>4
<1>6. BucketTrue'
  <2> SUFFICES ASSUME NEW h \in Gate, NEW j \in Key, NEW t \in WindowOf(j)
               PROVE  bucket'[h][j][t] = grants'[h][j]["local"][t]
    BY <1>2 DEF BucketTrue
  <2>1. bucket[h][j][t] = grants[h][j]["local"][t] /\ t \in Instant
    BY DEF LocalInv, BucketTrue, WindowOf
  <2>2. CASE h # g
    BY <1>1, <1>4, <2>1, <2>2 DEF CheckForm
  <2>3. CASE h = g /\ j # k
    BY <1>1, <1>4, <2>1, <2>3 DEF CheckForm
  <2>4. CASE h = g /\ j = k
    <3>1. CASE SumOver(a, Instant) >= Limit
      BY <1>1, <2>1, <2>4, <3>1 DEF CheckForm
    <3>2. CASE ~(SumOver(a, Instant) >= Limit)
      <4>1. a \in Figures /\ a[t] = bucket[g][k][t]
        BY <1>1, <2>1, <2>4 DEF CheckForm
      <4>2. bucket'[g][k] = [a EXCEPT ![instant] = @ + 1] /\ Granted(g, k, "local")
        BY <1>1, <3>2 DEF CheckForm
      <4>3. grants'[g][k]["local"] = [grants[g][k]["local"] EXCEPT ![instant] = @ + 1]
        <5>1. "local" \in Sides /\ grants \in [Gate -> [Key -> [Sides -> Figures]]]
          BY DEF LocalInv, Grants, Sides
        <5>2. grants'[g] = [grants[g] EXCEPT ![k]["local"][instant] = @ + 1]
          BY <4>2, <5>1 DEF Granted
        <5>3. grants'[g][k] = [grants[g][k] EXCEPT !["local"][instant] = @ + 1]
          BY <5>1, <5>2
        <5> QED BY <5>1, <5>3
      <4>4. grants[g][k]["local"] \in Figures
        BY DEF LocalInv, Grants, Sides
      <4> QED BY <2>1, <2>4, <4>1, <4>2, <4>3, <4>4 DEF Figures
    <3> QED BY <3>1, <3>2
  <2> QED BY <2>2, <2>3, <2>4
<1>7. WindowKept'
  <2> SUFFICES ASSUME NEW h \in Gate, NEW j \in Key
               PROVE  SumOver(grants'[h][j]["local"], WindowOf(j)) <= Limit
    BY <1>2, InWindowIs DEF WindowKept, WindowIs, Sides
  <2>1. SumOver(grants[h][j]["local"], WindowOf(j)) <= Limit
    BY InWindowIs DEF LocalInv, WindowKept, WindowIs, Sides
  <2>2. CASE grants'[h][j] = grants[h][j]
    BY <2>1, <2>2
  <2>3. CASE h = g /\ j = k /\ grants' # grants
    <3>1. PICK f, e : f = grants[g][k]["local"] /\ e = grants'[g][k]["local"]
      OBVIOUS
    <3>2. /\ \A t \in Instant : f[t] \in Nat /\ e[t] \in Nat
          /\ \A t \in Instant \ {instant} : e[t] = f[t]
          /\ e[instant] = f[instant] + 1
      BY <1>4, <2>3, <3>1 DEF LocalInv, Grants, Sides, Figures
    <3>3. IsFiniteSet(WindowOf(k)) /\ IsFiniteSet(Instant)
      BY <1>3, InstantFinite
    <3>4. SumOver(e, WindowOf(k)) = SumOver(f, WindowOf(k)) + 1
      <4>1. \A t \in WindowOf(k) : f[t] \in Int /\ e[t] \in Int
        BY <1>3, <3>2
      <4>2. \A t \in WindowOf(k) \ {instant} : e[t] = f[t]
        BY <1>3, <3>2
      <4> HIDE DEF WindowOf
      <4> QED BY <1>3, <3>2, <3>3, <4>1, <4>2, SumChange
    <3>5. a \in Figures /\ ~(SumOver(a, Instant) >= Limit)
          /\ \A t \in Instant : a[t] = IF t \in WindowOf(k) THEN bucket[g][k][t] ELSE 0
      BY <1>1, <2>3 DEF CheckForm
    <3>6. SumOver(a, Instant) = SumOver(a, WindowOf(k))
      <4>1. \A t \in Instant : a[t] \in Int
        BY <3>5 DEF Figures
      <4>2. \A t \in Instant \ WindowOf(k) : a[t] = 0
        BY <3>5
      <4> QED BY <1>3, <3>3, <4>1, <4>2, SumOfPart
    <3>7. SumOver(a, WindowOf(k)) = SumOver(f, WindowOf(k))
      <4>1. \A t \in WindowOf(k) : a[t] = f[t]
        BY <1>3, <3>1, <3>5 DEF LocalInv, BucketTrue
      <4> QED BY <3>3, <4>1, SumAgree
    <3>8. PICK n : n = SumOver(f, WindowOf(k))
      OBVIOUS
    <3>9. n \in Nat
      <4>1. \A t \in WindowOf(k) : f[t] \in Nat
        BY <1>3, <3>2
      <4> QED BY <3>3, <3>8, <4>1, SumType
    <3>10. ~(n >= Limit) /\ SumOver(e, WindowOf(k)) = n + 1
      BY Zenon, <3>4, <3>5, <3>6, <3>7, <3>8
    <3>11. n + 1 <= Limit
      BY <3>9, <3>10, LimiterBounds
    <3> QED BY Zenon, <2>3, <3>1, <3>10, <3>11
  <2> QED BY <1>4, <2>2, <2>3
<1> QED BY <1>1, <1>4, <1>5, <1>6, <1>7 DEF LocalInv, CheckForm

\* Redis lets an attempt through, or none.
LEMMA LocalKept ==
  ASSUME LocalInv, NEW g \in Gate, NEW k \in Key,
         grants' = grants \/ Granted(g, k, "redis"), UNCHANGED <<instant, bucket>>
  PROVE  LocalInv' /\ LocalSame
<1>1. instant \in Instant /\ instant \in Nat /\ grants \in Grants
  BY DEF LocalInv, Instant
<1>2. /\ grants' \in Grants /\ LocalSame
      /\ \A h \in Gate, j \in Key, t \in Instant : t # instant =>
           grants'[h][j]["redis"][t] = grants[h][j]["redis"][t]
  <2>1. CASE grants' = grants
    BY <1>1, <2>1 DEF LocalSame
  <2>2. CASE Granted(g, k, "redis")
    <3>1. grants' = [grants EXCEPT ![g][k]["redis"][instant] = @ + 1]
      BY <2>2 DEF Granted
    <3>2. grants' \in Grants
      BY <1>1, <3>1 DEF Grants, Figures, Sides
    <3>3. LocalSame
      BY <1>1, <3>1 DEF Grants, Figures, Sides, LocalSame
    <3>4. \A h \in Gate, j \in Key, t \in Instant : t # instant =>
            grants'[h][j]["redis"][t] = grants[h][j]["redis"][t]
      BY <1>1, <3>1 DEF Grants, Figures, Sides
    <3> QED BY <3>2, <3>3, <3>4
  <2> QED BY <2>1, <2>2
<1>3. NothingAhead'
  <2> SUFFICES ASSUME NEW h \in Gate, NEW j \in Key, NEW t \in Instant, t > instant
               PROVE  bucket'[h][j][t] = 0 /\ \A by \in Sides : grants'[h][j][by][t] = 0
    BY DEF NothingAhead
  <2>1. bucket[h][j][t] = 0 /\ \A by \in Sides : grants[h][j][by][t] = 0
    BY DEF LocalInv, NothingAhead
  <2>2. t # instant
    BY <1>1
  <2> QED BY <1>2, <2>1, <2>2 DEF Sides, LocalSame
<1>4. \A j \in Key : WindowOf(j)' = WindowOf(j) /\ WindowOf(j) \in SUBSET Instant
  BY DEF WindowOf
<1>5. BucketTrue'
  BY <1>2, <1>4 DEF LocalInv, BucketTrue, LocalSame
<1>6. WindowKept'
  BY <1>2, <1>4, InWindowIs DEF LocalInv, WindowKept, WindowIs, LocalSame, Sides
<1> QED BY <1>1, <1>2, <1>3, <1>5, <1>6 DEF LocalInv

LEMMA LocalRestart ==
  ASSUME LocalInv, NEW g \in Gate, RestartGate(g)
  PROVE  LocalInv' /\ RedisSame
<1>1. instant \in Instant /\ instant \in Nat /\ grants \in Grants /\ instant' = instant
      /\ NoAttempts \in Figures
  BY DEF LocalInv, Instant, RestartGate, NoAttempts, Figures
<1>2. /\ bucket' \in [Gate -> [Key -> Figures]]
      /\ bucket'[g] = [k \in Key |-> NoAttempts]
      /\ \A h \in Gate \ {g} : bucket'[h] = bucket[h]
  BY <1>1 DEF LocalInv, RestartGate
<1>3. /\ grants' \in Grants
      /\ grants'[g] = [k \in Key |-> [grants[g][k] EXCEPT !["local"] = NoAttempts]]
      /\ \A h \in Gate \ {g} : grants'[h] = grants[h]
  BY <1>1 DEF RestartGate, Grants, Sides
<1>4. RedisSame /\ \A k \in Key : grants'[g][k]["local"] = NoAttempts
  <2>1. ASSUME NEW k \in Key
        PROVE  /\ grants'[g][k]["redis"] = grants[g][k]["redis"]
               /\ grants'[g][k]["local"] = NoAttempts
    <3>1. grants'[g][k] = [grants[g][k] EXCEPT !["local"] = NoAttempts]
      BY <1>3
    <3>2. grants[g][k] \in [Sides -> Figures] /\ "redis" \in Sides /\ "local" \in Sides
      BY <1>1 DEF Grants, Sides
    <3> QED BY <3>1, <3>2
  <2>2. \A h \in Gate \ {g}, k \in Key : grants'[h][k]["redis"] = grants[h][k]["redis"]
    BY <1>3
  <2> QED BY <2>1, <2>2 DEF RedisSame
<1>5. \A j \in Key : WindowOf(j)' = WindowOf(j) /\ WindowOf(j) \in SUBSET Instant
  BY <1>1 DEF WindowOf
<1>6. \A t \in Instant : NoAttempts[t] = 0
  BY DEF NoAttempts
<1>7. NothingAhead'
  <2> SUFFICES ASSUME NEW h \in Gate, NEW j \in Key, NEW t \in Instant, t > instant
               PROVE  bucket'[h][j][t] = 0 /\ \A by \in Sides : grants'[h][j][by][t] = 0
    BY <1>1 DEF NothingAhead
  <2>1. bucket[h][j][t] = 0 /\ \A by \in Sides : grants[h][j][by][t] = 0
    BY DEF LocalInv, NothingAhead
  <2>2. CASE h = g
    <3>1. bucket'[g][j][t] = 0
      BY <1>2, <1>6
    <3>2. grants'[g][j]["local"][t] = 0
      BY <1>4, <1>6
    <3> QED BY <1>4, <2>1, <2>2, <3>1, <3>2 DEF Sides, RedisSame
  <2>3. CASE h # g
    BY <1>2, <1>3, <2>1, <2>3
  <2> QED BY <2>2, <2>3
<1>8. BucketTrue'
  <2> SUFFICES ASSUME NEW h \in Gate, NEW j \in Key, NEW t \in WindowOf(j)
               PROVE  bucket'[h][j][t] = grants'[h][j]["local"][t]
    BY <1>5 DEF BucketTrue
  <2>1. CASE h = g
    BY <1>2, <1>4, <2>1
  <2>2. CASE h # g
    BY <1>2, <1>3, <2>2 DEF LocalInv, BucketTrue
  <2> QED BY <2>1, <2>2
<1>9. WindowKept'
  <2> SUFFICES ASSUME NEW h \in Gate, NEW j \in Key
               PROVE  SumOver(grants'[h][j]["local"], WindowOf(j)) <= Limit
    BY <1>5, InWindowIs DEF WindowKept, WindowIs, Sides
  <2>1. CASE h = g
    <3>1. SumOver(NoAttempts, WindowOf(j)) = 0
      BY <1>5, <1>6, InstantFinite, SumZero
    <3>2. 0 <= Limit
      BY LimiterBounds
    <3> QED BY <1>4, <2>1, <3>1, <3>2
  <2>2. CASE h # g
    BY <1>3, <2>2, InWindowIs DEF LocalInv, WindowKept, WindowIs, Sides
  <2> QED BY <2>1, <2>2
<1> QED BY <1>1, <1>2, <1>3, <1>4, <1>7, <1>8, <1>9 DEF LocalInv

LEMMA LocalTick ==
  ASSUME LocalInv, LimiterTick
  PROVE  LocalInv' /\ RedisSame
<1>1. /\ instant' = instant + 1 /\ instant \in Nat /\ instant' \in Instant /\ instant' \in Nat
      /\ grants' = grants /\ bucket' = bucket /\ grants \in Grants
  BY LimiterBounds DEF LimiterTick, LocalInv, Instant
<1>2. NothingAhead'
  BY <1>1 DEF LocalInv, NothingAhead, Instant
<1>3. ASSUME NEW j \in Key
      PROVE  /\ \A t \in WindowOf(j)' : t \in WindowOf(j) \/ (t = instant' /\ t > instant)
             /\ WindowOf(j) \in SUBSET Instant /\ WindowOf(j)' \in SUBSET Instant
  <2>1. Window[j] \in Nat
    BY WindowFacts DEF LocalInv
  <2> QED BY <1>1, <2>1 DEF WindowOf, Instant
<1>4. BucketTrue'
  <2> SUFFICES ASSUME NEW h \in Gate, NEW j \in Key, NEW t \in WindowOf(j)'
               PROVE  bucket[h][j][t] = grants[h][j]["local"][t]
    BY <1>1 DEF BucketTrue
  <2>1. CASE t \in WindowOf(j)
    BY <2>1 DEF LocalInv, BucketTrue
  <2>2. CASE t > instant
    BY <1>3, <2>2 DEF LocalInv, NothingAhead, Sides
  <2> QED BY <1>3, <2>1, <2>2
<1>5. WindowKept'
  <2> SUFFICES ASSUME NEW h \in Gate, NEW j \in Key
               PROVE  SumOver(grants[h][j]["local"], WindowOf(j)') <= Limit
    BY <1>1, InWindowIs DEF WindowKept, WindowIs, Sides
  <2>1. SumOver(grants[h][j]["local"], WindowOf(j)) <= Limit
    BY InWindowIs DEF LocalInv, WindowKept, WindowIs, Sides
  <2>2. PICK f, W, V : f = grants[h][j]["local"] /\ W = WindowOf(j) /\ V = WindowOf(j)'
    OBVIOUS
  <2>3. \A t \in Instant : f[t] \in Nat
    BY <1>1, <2>2 DEF Grants, Sides, Figures
  <2>4. W \in SUBSET Instant /\ V \in SUBSET Instant /\ IsFiniteSet(W) /\ IsFiniteSet(V)
    BY <1>3, <2>2, InstantFinite
  <2>5. \A t \in V \ W : f[t] = 0
    BY <1>3, <2>2, <2>4 DEF LocalInv, NothingAhead, Sides
  <2>6. SumOver(f, V) = SumOver(f, V \cap W)
    <3>1. V \cap W \in SUBSET V /\ \A t \in V \ (V \cap W) : f[t] = 0
      BY <2>5
    <3>2. \A t \in V : f[t] \in Int
      BY <2>3, <2>4
    <3> QED BY <2>4, <3>1, <3>2, SumOfPart
  <2>7. SumOver(f, V \cap W) <= SumOver(f, W)
    <3>1. V \cap W \in SUBSET W /\ \A t \in W : f[t] \in Nat
      BY <2>3, <2>4
    <3> QED BY <2>4, <3>1, SumPart
  <2>8. SumOver(f, W) \in Nat /\ SumOver(f, V) \in Nat
    <3>1. (\A t \in W : f[t] \in Nat) /\ (\A t \in V : f[t] \in Nat)
      BY <2>3, <2>4
    <3> QED BY <2>4, <3>1, SumType
  <2>9. SumOver(f, V) <= SumOver(f, W)
    BY <2>6, <2>7
  <2>10. SumOver(f, W) <= Limit
    BY <2>1, <2>2
  <2>11. SumOver(f, V) <= Limit
    BY <2>8, <2>9, <2>10, LimiterBounds
  <2> QED BY <2>2, <2>11
<1> QED BY <1>1, <1>2, <1>4, <1>5 DEF LocalInv, RedisSame

-----------------------------------------------------------------------------
(* The counters.                                                           *)

\* What the steps of the counters keep, with the attempts that Redis lets through.
CounterInv ==
    /\ instant \in Instant /\ counter \in [Key -> [n : Nat, exp : Nat]]
    /\ check \in [Gate -> SUBSET Key] /\ grants \in Grants
    /\ \A g \in Gate : check[g] = {} \/ \E k \in Key : check[g] = {k}
    /\ PendingOne
    /\ \A k \in Key : \E s \in Nat : CountedSince(k, s)
    /\ LockoutHasCause

LEMMA LimiterParts == LimiterInv <=> LocalInv /\ CounterInv
BY DEF LimiterInv, LimiterType, LocalInv, CounterInv

LEMMA InstantFacts ==
  ASSUME NEW k \in Key, instant \in Instant
  PROVE  /\ instant \in Nat /\ instant <= MaxInstant /\ MaxInstant \in Nat /\ LongWindow \in Nat
         /\ Window[k] \in Nat \ {0} /\ Window[k] <= LongWindow /\ Limit \in Nat \ {0}
         /\ Never \in Nat /\ instant + Window[k] < Never
<1>1. MaxInstant \in Nat /\ LongWindow \in Nat /\ Limit \in Nat \ {0} /\ Window[k] \in 1..LongWindow
  BY LimiterBounds
<1> QED BY <1>1 DEF Instant, Never

LEMMA SpanFacts ==
  ASSUME NEW k \in Key, NEW s
  PROVE  From(s) \in SUBSET Instant /\ Before(s, k) \in SUBSET Instant
BY DEF From, Before

LEMMA SharedSame ==
  ASSUME RedisSame, NEW j \in Key, NEW S \in SUBSET Instant
  PROVE  SharedIn(grants', j, S) = SharedIn(grants, j, S)
<1>1. \A h \in Gate : OfGate(grants', j, S)[h] = OfGate(grants, j, S)[h]
  BY DEF OfGate, RedisSame
<1> QED BY <1>1, InstantFinite, SumAgree DEF SharedIn

\* A step that lets nothing of key j through by Redis, and begins no check of it.
LEMMA KeyKept ==
  ASSUME CounterInv, NEW j \in Key, instant' = instant, counter'[j] = counter[j],
         Pending(j)' => Pending(j),
         \A S \in SUBSET Instant : SharedIn(grants', j, S) = SharedIn(grants, j, S)
  PROVE  \E s \in Nat : CountedSince(j, s)'
<1>1. PICK s \in Nat : CountedSince(j, s)
  BY DEF CounterInv
<1>2. PICK x, y : x = SharedIn(grants, j, From(s)) /\ y = SharedIn(grants, j, Before(s, j))
  OBVIOUS
<1>3. x \in Nat /\ y \in Nat
  BY <1>2, SpanFacts, SharedTyped DEF CounterInv
<1>4. x = SharedIn(grants', j, From(s)) /\ y = SharedIn(grants', j, Before(s, j))
  BY <1>2, SpanFacts
<1>5. /\ s <= instant
      /\ x + (IF Pending(j) THEN 1 ELSE 0) <= counter[j].n
      /\ x + (IF Pending(j) THEN 1 ELSE 0) <= Limit
      /\ y <= Limit
      /\ counter[j].exp >= s + Window[j]
  BY <1>1, <1>2 DEF CountedSince, Shared
<1>6. counter[j].n \in Nat /\ Limit \in Nat
  BY LimiterBounds DEF CounterInv
<1>7. /\ x + (IF Pending(j)' THEN 1 ELSE 0) <= counter[j].n
      /\ x + (IF Pending(j)' THEN 1 ELSE 0) <= Limit
  BY <1>3, <1>5, <1>6
<1> QED BY <1>4, <1>5, <1>7 DEF CountedSince, Shared

\* The counter of a key, and how it changes when Redis lets an attempt through.
LEMMA KeyGranted ==
  ASSUME CounterInv, NEW g \in Gate, NEW k \in Key, Granted(g, k, "redis"), instant' = instant,
         NEW s \in Nat, s <= instant
  PROVE  /\ grants' \in Grants
         /\ SharedIn(grants', k, From(s)) = SharedIn(grants, k, From(s)) + 1
         /\ SharedIn(grants', k, Before(s, k)) = SharedIn(grants, k, Before(s, k))
         /\ \A j \in Key \ {k} : \A S \in SUBSET Instant :
              SharedIn(grants', j, S) = SharedIn(grants, j, S)
<1>1. /\ grants' = [grants EXCEPT ![g][k]["redis"][instant] = @ + 1] /\ grants \in Grants
      /\ instant \in Instant /\ instant \in Nat
  BY DEF Granted, CounterInv, Instant
<1>2. grants' \in Grants
  BY <1>1 DEF Grants, Figures, Sides
<1>3. instant \in From(s) /\ instant \notin Before(s, k)
  BY <1>1 DEF From, Before
<1>8. OneMore(grants, grants', g, k, instant)
  <2>1. grants'[g] = [grants[g] EXCEPT ![k]["redis"][instant] = @ + 1]
    BY <1>1 DEF Grants
  <2>2. grants'[g][k] = [grants[g][k] EXCEPT !["redis"][instant] = @ + 1]
    BY <1>1, <2>1 DEF Grants
  <2>3. grants'[g][k]["redis"] = [grants[g][k]["redis"] EXCEPT ![instant] = @ + 1]
    BY <1>1, <2>2 DEF Grants, Sides
  <2>4. grants[g][k]["redis"] \in [Instant -> Nat]
    BY <1>1 DEF Grants, Sides, Figures
  <2>5. \A x \in Gate, j \in Key : <<x, j>> # <<g, k>> => grants'[x][j]["redis"] = grants[x][j]["redis"]
    BY <1>1, <2>1 DEF Grants
  <2> QED BY <1>1, <2>3, <2>4, <2>5 DEF OneMore
<1>4. ASSUME NEW S \in SUBSET Instant PROVE CountsOne(grants, grants', k, instant, S)
  BY Zenon, <1>1, <1>2, <1>8, SharedGrant
<1>5. /\ CountsOne(grants, grants', k, instant, From(s))
      /\ CountsOne(grants, grants', k, instant, Before(s, k))
  BY Zenon, <1>4, SpanFacts
<1> QED BY <1>2, <1>3, <1>4, <1>5 DEF CountsOne

LEMMA CounterIncr ==
  ASSUME LimiterInv, NEW g \in Gate, NEW k \in Key, Incr(g, k)
  PROVE  LimiterInv'
<1>1. LocalInv /\ CounterInv
  BY LimiterParts
<1>2. PICK n : n = Incremented(counter[k].n)
  OBVIOUS
<1>3. /\ check[g] = {} /\ instant' = instant /\ unset' = unset /\ bucket' = bucket
      /\ counter' = [counter EXCEPT ![k].n = n]
      /\ \/ n = 1 /\ check' = [check EXCEPT ![g] = {k}] /\ grants' = grants
         \/ n # 1 /\ n > Limit /\ check' = check /\ grants' = grants
         \/ n # 1 /\ ~(n > Limit) /\ check' = check /\ Granted(g, k, "redis")
  BY Zenon, <1>2 DEF Incr, Opened, Over
<1>4. LocalInv'
  BY <1>1, <1>3, LocalKept
<1>5. /\ counter \in [Key -> [n : Nat, exp : Nat]] /\ check \in [Gate -> SUBSET Key]
      /\ instant \in Instant /\ instant \in Nat /\ grants \in Grants /\ Limit \in Nat \ {0}
  BY <1>1, InstantFacts DEF CounterInv
<1>6. /\ n \in Nat \ {0} /\ (counter[k].n = 0 <=> n = 1)
      /\ counter[k].n <= n /\ (~(n > Limit) => n = counter[k].n + 1)
  <2>1. PICK c \in Nat : c = counter[k].n
    BY <1>5
  <2>2. n = IF c < Limit + 2 THEN c + 1 ELSE c
    BY <1>2, <2>1 DEF Incremented
  <2> QED BY <1>5, <2>1, <2>2
<1>7. /\ counter' \in [Key -> [n : Nat, exp : Nat]]
      /\ counter'[k].n = n /\ counter'[k].exp = counter[k].exp
      /\ \A j \in Key \ {k} : counter'[j] = counter[j]
  BY <1>3, <1>5, <1>6
<1>8. /\ check' \in [Gate -> SUBSET Key]
      /\ \A h \in Gate : check'[h] = {} \/ \E j \in Key : check'[h] = {j}
  BY <1>1, <1>3, <1>5 DEF CounterInv
<1>9. grants' \in Grants
  BY <1>4 DEF LocalInv
<1>10. \A j \in Key \ {k} : Pending(j)' <=> Pending(j)
  <2>1. \A h \in Gate, j \in Key \ {k} : check'[h] = {j} <=> check[h] = {j}
    BY <1>3, <1>5
  <2> QED BY <2>1 DEF Pending
<1>11. PendingOne'
  <2>1. ASSUME NEW j \in Key \ {k}
        PROVE  /\ \A x, h \in Gate : check'[x] = {j} /\ check'[h] = {j} => x = h
               /\ Pending(j)' => counter'[j].n > 0 /\ counter'[j].exp = Never
               /\ counter'[j].n = 0 => counter'[j].exp = Never
    <3>1. \A h \in Gate : check'[h] = {j} <=> check[h] = {j}
      BY <1>3, <1>5
    <3>2. \A x, h \in Gate : check[x] = {j} /\ check[h] = {j} => x = h
      BY <1>1 DEF CounterInv, PendingOne
    <3>3. Pending(j) => counter[j].n > 0 /\ counter[j].exp = Never
      BY <1>1 DEF CounterInv, PendingOne
    <3>4. counter[j].n = 0 => counter[j].exp = Never
      BY <1>1 DEF CounterInv, PendingOne
    <3>5. (\A x, h \in Gate : check'[x] = {j} /\ check'[h] = {j} => x = h)
      BY <3>1, <3>2
    <3> QED BY Zenon, <1>7, <1>10, <3>3, <3>4, <3>5
  <2>2. /\ \A x, h \in Gate : check'[x] = {k} /\ check'[h] = {k} => x = h
        /\ Pending(k)' => counter'[k].n > 0 /\ counter'[k].exp = Never
        /\ counter'[k].n = 0 => counter'[k].exp = Never
    <3>1. CASE n = 1
      <4>1. ~Pending(k) /\ counter[k].exp = Never
        BY <1>1, <1>6, <3>1 DEF CounterInv, PendingOne
      <4>2. \A h \in Gate : check'[h] = {k} => h = g
        BY <1>3, <1>5, <3>1, <4>1 DEF Pending
      <4> QED BY <1>6, <1>7, <3>1, <4>1, <4>2
    <3>2. CASE n # 1
      <4>1. check' = check
        BY <1>3, <3>2
      <4>2. Pending(k)' <=> Pending(k)
        BY <4>1 DEF Pending
      <4>3. Pending(k) => counter[k].exp = Never
        BY <1>1 DEF CounterInv, PendingOne
      <4>4. \A x, h \in Gate : check[x] = {k} /\ check[h] = {k} => x = h
        BY <1>1 DEF CounterInv, PendingOne
      <4>5. n > 0
        BY <1>6
      <4> QED BY <1>6, <1>7, <4>1, <4>2, <4>3, <4>4, <4>5
    <3> QED BY <3>1, <3>2
  <2>3. \A j \in Key :
          /\ \A x, h \in Gate : check'[x] = {j} /\ check'[h] = {j} => x = h
          /\ Pending(j)' => counter'[j].n > 0 /\ counter'[j].exp = Never
          /\ counter'[j].n = 0 => counter'[j].exp = Never
    BY Zenon, <2>1, <2>2
  <2> QED BY <2>3 DEF PendingOne
<1>12. ASSUME NEW j \in Key
       PROVE  \E s \in Nat : CountedSince(j, s)'
  <2>1. CASE j # k
    <3>1. \A S \in SUBSET Instant : SharedIn(grants', j, S) = SharedIn(grants, j, S)
      <4>1. CASE grants' = grants
        BY <4>1
      <4>2. CASE Granted(g, k, "redis")
        <5>1. j \in Key \ {k} /\ 0 \in Nat /\ 0 <= instant
          BY <1>5, <2>1
        <5> QED BY <1>1, <1>3, <4>2, <5>1, KeyGranted
      <4> QED BY <1>3, <4>1, <4>2
    <3>2. counter'[j] = counter[j] /\ instant' = instant /\ (Pending(j)' => Pending(j))
      BY <1>3, <1>7, <1>10, <2>1
    <3> QED BY <1>1, <3>1, <3>2, KeyKept
  <2>2. CASE j = k
    <3>1. PICK s \in Nat : CountedSince(k, s)
      BY <1>1 DEF CounterInv
    <3>2. PICK x, y : x = SharedIn(grants, k, From(s)) /\ y = SharedIn(grants, k, Before(s, k))
      OBVIOUS
    <3>3. x \in Nat /\ y \in Nat
      BY <1>5, <3>2, SpanFacts, SharedTyped
    <3>4. /\ s <= instant
          /\ x + (IF Pending(k) THEN 1 ELSE 0) <= counter[k].n
          /\ x + (IF Pending(k) THEN 1 ELSE 0) <= Limit
          /\ y <= Limit
          /\ counter[k].exp >= s + Window[k]
      BY <3>1, <3>2 DEF CountedSince, Shared
    <3>5. PICK c \in Nat : c = counter[k].n
      BY <1>5
    <3>6. PICK u, v : u = SharedIn(grants', k, From(s)) /\ v = SharedIn(grants', k, Before(s, k))
      OBVIOUS
    <3>7. /\ u + (IF Pending(k)' THEN 1 ELSE 0) <= n
          /\ u + (IF Pending(k)' THEN 1 ELSE 0) <= Limit
          /\ v <= Limit
      <4>1. CASE n = 1
        <5>1. u = x /\ v = y
          BY <1>3, <3>2, <3>6, <4>1
        <5>2. c = 0
          BY <1>6, <3>5, <4>1
        <5>3. x = 0
          BY <3>3, <3>4, <3>5, <5>2
        <5> QED BY <1>5, <3>4, <4>1, <5>1, <5>3
      <4>2. CASE n # 1 /\ n > Limit
        <5>1. u = x /\ v = y /\ (Pending(k)' <=> Pending(k))
          BY <1>3, <3>2, <3>6, <4>2 DEF Pending
        <5> QED BY <1>5, <1>6, <3>3, <3>4, <3>5, <4>2, <5>1
      <4>3. CASE n # 1 /\ ~(n > Limit)
        <5>1. Granted(g, k, "redis") /\ check' = check
          BY <1>3, <4>3
        <5>2. u = x + 1 /\ v = y
          BY <1>1, <1>3, <3>2, <3>4, <3>6, <5>1, KeyGranted
        <5>3. Pending(k)' <=> Pending(k)
          BY <5>1 DEF Pending
        <5>4. n = c + 1
          BY <1>6, <3>5, <4>3
        <5> QED BY <1>5, <3>3, <3>4, <3>5, <4>3, <5>2, <5>3, <5>4
      <4> QED BY <4>1, <4>2, <4>3
    <3>8. CountedSince(k, s)'
      BY <1>3, <1>7, <3>4, <3>6, <3>7 DEF CountedSince, Shared
    <3> QED BY <2>2, <3>8
  <2> QED BY <2>1, <2>2
<1>13. LockoutHasCause'
  <2> SUFFICES ASSUME NEW j \in Key, counter'[j].n > 0, counter'[j].exp = Never
               PROVE  j \in unset \/ \E h \in Gate : check'[h] = {j}
    BY <1>3 DEF LockoutHasCause
  <2>1. CASE j = k /\ n = 1
    BY <1>3, <1>5, <2>1
  <2>2. CASE ~(j = k /\ n = 1)
    <3>1. counter[j].n > 0 /\ counter[j].exp = Never
      <4>1. CASE j = k
        BY <1>5, <1>6, <1>7, <2>2, <4>1
      <4> QED BY <1>7, <4>1
    <3>2. j \in unset \/ \E h \in Gate : check[h] = {j}
      BY <1>1, <3>1 DEF CounterInv, LockoutHasCause
    <3>3. ASSUME NEW h \in Gate, check[h] = {j} PROVE check'[h] = {j}
      BY <1>3, <1>5, <3>3
    <3> QED BY <3>2, <3>3
  <2> QED BY <2>1, <2>2
<1>14. CounterInv'
  BY <1>4, <1>7, <1>8, <1>9, <1>11, <1>12, <1>13 DEF CounterInv, LocalInv
<1> QED BY <1>4, <1>14 DEF LimiterInv, LimiterType, LocalInv, CounterInv

LEMMA CounterExpire ==
  ASSUME LimiterInv, NEW g \in Gate, NEW k \in Key, Expire(g, k)
  PROVE  LimiterInv'
<1>1. LocalInv /\ CounterInv
  BY LimiterParts
<1>2. /\ counter \in [Key -> [n : Nat, exp : Nat]] /\ check \in [Gate -> SUBSET Key]
      /\ instant \in Instant /\ instant \in Nat /\ grants \in Grants /\ Limit \in Nat \ {0}
      /\ Window[k] \in Nat \ {0} /\ instant + Window[k] < Never
  BY <1>1, InstantFacts DEF CounterInv
<1>3. Pending(k) /\ counter[k].n > 0 /\ counter[k].exp = Never
  <2>1. Pending(k)
    BY DEF Expire, Pending
  <2> QED BY <1>1, <2>1 DEF CounterInv, PendingOne
<1>4. /\ check[g] = {k} /\ instant' = instant /\ unset' = unset /\ bucket' = bucket
      /\ check' = [check EXCEPT ![g] = {}]
      /\ counter' = [counter EXCEPT ![k].exp = instant + Window[k]]
      /\ Granted(g, k, "redis")
  <2>1. counter[k].n # 0
    BY <1>2, <1>3
  <2>2. ~Over(1)
    BY <1>2 DEF Over
  <2>3. counter' = [counter EXCEPT ![k].exp = instant + Window[k]]
    BY <2>1 DEF Expire
  <2> QED BY <2>2, <2>3 DEF Expire
<1>5. LocalInv'
  BY <1>1, <1>4, LocalKept
<1>6. /\ counter' \in [Key -> [n : Nat, exp : Nat]]
      /\ counter'[k].n = counter[k].n /\ counter'[k].exp = instant + Window[k]
      /\ \A j \in Key \ {k} : counter'[j] = counter[j]
  <2>1. instant + Window[k] \in Nat
    BY <1>2
  <2> QED BY <1>2, <1>4, <2>1
<1>7. /\ check' \in [Gate -> SUBSET Key]
      /\ \A h \in Gate : check'[h] = {} \/ \E j \in Key : check'[h] = {j}
  BY <1>1, <1>2, <1>4 DEF CounterInv
<1>8. grants' \in Grants
  BY <1>5 DEF LocalInv
<1>9. \A h \in Gate, j \in Key : check'[h] = {j} => check[h] = {j} /\ j # k
  <2> SUFFICES ASSUME NEW h \in Gate, NEW j \in Key, check'[h] = {j}
               PROVE  check[h] = {j} /\ j # k
    OBVIOUS
  <2>1. h # g /\ check[h] = {j}
    BY <1>2, <1>4
  <2>2. j # k
    BY <1>1, <1>4, <2>1 DEF CounterInv, PendingOne
  <2> QED BY <2>1, <2>2
<1>10. \A j \in Key : Pending(j)' => Pending(j) /\ j # k
  BY <1>9 DEF Pending
<1>11. PendingOne'
  <2>1. ASSUME NEW j \in Key
        PROVE  /\ \A x, h \in Gate : check'[x] = {j} /\ check'[h] = {j} => x = h
               /\ Pending(j)' => counter'[j].n > 0 /\ counter'[j].exp = Never
               /\ counter'[j].n = 0 => counter'[j].exp = Never
    <3>1. \A x, h \in Gate : check[x] = {j} /\ check[h] = {j} => x = h
      BY <1>1 DEF CounterInv, PendingOne
    <3>2. \A x, h \in Gate : check'[x] = {j} /\ check'[h] = {j} => x = h
      BY <1>9, <3>1
    <3>3. Pending(j) => counter[j].n > 0 /\ counter[j].exp = Never
      BY <1>1 DEF CounterInv, PendingOne
    <3>4. counter[j].n = 0 => counter[j].exp = Never
      BY <1>1 DEF CounterInv, PendingOne
    <3>5. Pending(j)' => counter'[j].n > 0 /\ counter'[j].exp = Never
      BY <1>6, <1>10, <3>3
    <3>6. counter'[j].n = 0 => counter'[j].exp = Never
      BY <1>3, <1>6, <3>4
    <3> QED BY Zenon, <3>2, <3>5, <3>6
  <2> QED BY <2>1 DEF PendingOne
<1>12. ASSUME NEW j \in Key
       PROVE  \E s \in Nat : CountedSince(j, s)'
  <2>1. CASE j # k
    <3>1. \A S \in SUBSET Instant : SharedIn(grants', j, S) = SharedIn(grants, j, S)
      <4>1. j \in Key \ {k} /\ 0 \in Nat /\ 0 <= instant
        BY <1>2, <2>1
      <4> QED BY <1>1, <1>4, <4>1, KeyGranted
    <3>2. counter'[j] = counter[j] /\ instant' = instant /\ (Pending(j)' => Pending(j))
      BY <1>4, <1>6, <1>10, <2>1
    <3> QED BY <1>1, <3>1, <3>2, KeyKept
  <2>2. CASE j = k
    <3>1. PICK s \in Nat : CountedSince(k, s)
      BY <1>1 DEF CounterInv
    <3>2. PICK x, y : x = SharedIn(grants, k, From(s)) /\ y = SharedIn(grants, k, Before(s, k))
      OBVIOUS
    <3>3. x \in Nat /\ y \in Nat
      BY <1>2, <3>2, SpanFacts, SharedTyped
    <3>4. /\ s <= instant /\ y <= Limit
          /\ x + 1 <= counter[k].n /\ x + 1 <= Limit
      BY <1>3, <3>1, <3>2 DEF CountedSince, Shared
    <3>5. /\ x + 1 = SharedIn(grants', k, From(s))
          /\ y = SharedIn(grants', k, Before(s, k))
      BY <1>1, <1>4, <3>2, <3>4, KeyGranted
    <3>6. ~Pending(k)'
      BY <1>10
    <3>7. counter'[k].exp >= s + Window[k]
      BY <1>2, <1>6, <3>4
    <3>8. x + 1 + (IF Pending(k)' THEN 1 ELSE 0) = x + 1
      BY <3>3, <3>6
    <3>9. CountedSince(k, s)'
      BY <1>4, <1>6, <3>4, <3>5, <3>7, <3>8 DEF CountedSince, Shared
    <3> QED BY <2>2, <3>9
  <2> QED BY <2>1, <2>2
<1>13. LockoutHasCause'
  <2> SUFFICES ASSUME NEW j \in Key, counter'[j].n > 0, counter'[j].exp = Never
               PROVE  j \in unset \/ \E h \in Gate : check'[h] = {j}
    BY <1>4 DEF LockoutHasCause
  <2>1. j # k
    BY <1>2, <1>6
  <2>2. j \in unset \/ \E h \in Gate : check[h] = {j}
    BY <1>1, <1>6, <2>1 DEF CounterInv, LockoutHasCause
  <2>3. ASSUME NEW h \in Gate, check[h] = {j} PROVE check'[h] = {j}
    BY <1>2, <1>4, <2>1, <2>3
  <2> QED BY <2>2, <2>3
<1>14. CounterInv'
  BY <1>5, <1>6, <1>7, <1>8, <1>11, <1>12, <1>13 DEF CounterInv, LocalInv
<1> QED BY <1>5, <1>14 DEF LimiterInv, LimiterType, LocalInv, CounterInv

\* A step without Redis: some checks end, and their keys are noted.
LEMMA CounterQuiet ==
  ASSUME CounterInv, LocalInv', RedisSame, instant' = instant, counter' = counter,
         check' \in [Gate -> SUBSET Key], unset \subseteq unset',
         \A h \in Gate : check'[h] = check[h] \/ (check'[h] = {} /\ check[h] \subseteq unset')
  PROVE  CounterInv'
<1>1. \A h \in Gate, j \in Key : check'[h] = {j} => check[h] = {j}
  OBVIOUS
<1>2. \A j \in Key : Pending(j)' => Pending(j)
  BY <1>1 DEF Pending
<1>3. \A h \in Gate : check'[h] = {} \/ \E j \in Key : check'[h] = {j}
  BY DEF CounterInv
<1>4. PendingOne'
  <2>1. ASSUME NEW j \in Key
        PROVE  /\ \A x, h \in Gate : check'[x] = {j} /\ check'[h] = {j} => x = h
               /\ Pending(j)' => counter[j].n > 0 /\ counter[j].exp = Never
               /\ counter[j].n = 0 => counter[j].exp = Never
    <3>1. \A x, h \in Gate : check[x] = {j} /\ check[h] = {j} => x = h
      BY DEF CounterInv, PendingOne
    <3>2. \A x, h \in Gate : check'[x] = {j} /\ check'[h] = {j} => x = h
      BY <1>1, <3>1
    <3>3. Pending(j) => counter[j].n > 0 /\ counter[j].exp = Never
      BY DEF CounterInv, PendingOne
    <3>4. counter[j].n = 0 => counter[j].exp = Never
      BY DEF CounterInv, PendingOne
    <3> QED BY Zenon, <1>2, <3>2, <3>3, <3>4
  <2> QED BY <2>1 DEF PendingOne
<1>5. ASSUME NEW j \in Key
      PROVE  \E s \in Nat : CountedSince(j, s)'
  <2>1. \A S \in SUBSET Instant : SharedIn(grants', j, S) = SharedIn(grants, j, S)
    BY SharedSame
  <2>2. counter'[j] = counter[j] /\ (Pending(j)' => Pending(j))
    BY <1>2
  <2> QED BY <2>1, <2>2, KeyKept
<1>6. LockoutHasCause'
  <2> SUFFICES ASSUME NEW j \in Key, counter[j].n > 0, counter[j].exp = Never
               PROVE  j \in unset' \/ \E h \in Gate : check'[h] = {j}
    BY DEF LockoutHasCause
  <2>1. j \in unset \/ \E h \in Gate : check[h] = {j}
    BY DEF CounterInv, LockoutHasCause
  <2> QED BY <2>1
<1> QED BY <1>3, <1>4, <1>5, <1>6 DEF CounterInv, LocalInv

\* Redis drops a counter: its window ends, and the next is counted from now on.
LEMMA CounterTick ==
  ASSUME LimiterInv, LimiterTick
  PROVE  LimiterInv'
<1>1. LocalInv /\ CounterInv
  BY LimiterParts
<1>2. LocalInv' /\ RedisSame
  BY <1>1, LocalTick
<1>3. /\ instant' = instant + 1 /\ instant' \in Instant /\ check' = check /\ unset' = unset
      /\ grants' = grants
      /\ counter' = [k \in Key |-> IF counter[k].exp <= instant' THEN NoCounter ELSE counter[k]]
  BY <1>2 DEF LimiterTick, LocalInv
<1>4. /\ counter \in [Key -> [n : Nat, exp : Nat]]
      /\ instant \in Instant /\ instant \in Nat /\ grants \in Grants
      /\ MaxInstant \in Nat /\ LongWindow \in Nat /\ Limit \in Nat \ {0}
  BY <1>1, LimiterBounds DEF CounterInv, Instant
<1>5. Never \in Nat /\ instant' < Never /\ NoCounter \in [n : Nat, exp : Nat]
  BY <1>3, <1>4 DEF Never, NoCounter, Instant
<1>6. ASSUME NEW k \in Key
      PROVE  \/ ~(counter[k].exp <= instant') /\ counter'[k] = counter[k]
             \/ counter[k].exp <= instant' /\ counter'[k].n = 0 /\ counter'[k].exp = Never
  BY <1>3 DEF NoCounter
<1>7. counter' \in [Key -> [n : Nat, exp : Nat]]
  <2>1. \A k \in Key : counter[k] \in [n : Nat, exp : Nat]
    BY <1>4
  <2> QED BY <1>3, <1>5, <2>1
<1>8. \A k \in Key : Pending(k)' <=> Pending(k)
  BY <1>3 DEF Pending
<1>9. PendingOne'
  <2>1. ASSUME NEW j \in Key
        PROVE  /\ \A x, h \in Gate : check'[x] = {j} /\ check'[h] = {j} => x = h
               /\ Pending(j)' => counter'[j].n > 0 /\ counter'[j].exp = Never
               /\ counter'[j].n = 0 => counter'[j].exp = Never
    <3>1. \A x, h \in Gate : check[x] = {j} /\ check[h] = {j} => x = h
      BY <1>1 DEF CounterInv, PendingOne
    <3>2. Pending(j) => counter[j].n > 0 /\ counter[j].exp = Never
      BY <1>1 DEF CounterInv, PendingOne
    <3>3. counter[j].n = 0 => counter[j].exp = Never
      BY <1>1 DEF CounterInv, PendingOne
    <3>4. Pending(j) => counter'[j] = counter[j]
      BY <1>3, <1>5, <1>6, <3>2 DEF Instant
    <3>5. counter'[j].n = 0 => counter'[j].exp = Never
      BY <1>6, <3>3
    <3>6. Pending(j)' => counter'[j].n > 0 /\ counter'[j].exp = Never
      BY Zenon, <1>8, <3>2, <3>4
    <3>7. \A x, h \in Gate : check'[x] = {j} /\ check'[h] = {j} => x = h
      BY <1>3, <3>1
    <3> QED BY Zenon, <3>5, <3>6, <3>7
  <2> QED BY <2>1 DEF PendingOne
<1>10. ASSUME NEW k \in Key
       PROVE  \E s \in Nat : CountedSince(k, s)'
  <2>1. PICK s \in Nat : CountedSince(k, s)
    BY <1>1 DEF CounterInv
  <2>2. PICK x, y : x = SharedIn(grants, k, From(s)) /\ y = SharedIn(grants, k, Before(s, k))
    OBVIOUS
  <2>3. x \in Nat /\ y \in Nat
    BY <1>4, <2>2, SpanFacts, SharedTyped
  <2>4. /\ s <= instant /\ y <= Limit
        /\ x + (IF Pending(k) THEN 1 ELSE 0) <= counter[k].n
        /\ x + (IF Pending(k) THEN 1 ELSE 0) <= Limit
        /\ counter[k].exp >= s + Window[k]
    BY <2>1, <2>2 DEF CountedSince, Shared
  <2>5. CASE counter'[k] = counter[k]
    <3>1. s <= instant'
      BY <1>3, <1>4, <2>4
    <3>2. CountedSince(k, s)'
      BY <1>3, <1>8, <2>2, <2>4, <2>5, <3>1 DEF CountedSince, Shared
    <3> QED BY <3>2
  <2>6. CASE counter[k].exp <= instant' /\ counter'[k].n = 0 /\ counter'[k].exp = Never
    <3>1. PICK e \in Nat : e = counter[k].exp
      BY <1>4
    <3>2. PICK r \in Nat : r = instant' /\ r = instant + 1
      BY <1>3, <1>4
    <3>3. /\ Window[k] \in Nat \ {0} /\ Window[k] <= LongWindow
          /\ s + Window[k] <= e /\ e <= r /\ r <= MaxInstant
      BY <1>3, <1>4, <2>4, <2>6, <3>1, <3>2, InstantFacts DEF Instant
    <3>4. From(r) \in SUBSET Instant /\ Before(r, k) \in SUBSET From(s)
      <4>1. s <= r - Window[k]
        BY <3>3
      <4>2. ASSUME NEW t \in Before(r, k) PROVE t \in From(s)
        <5>1. t \in Instant /\ t \in Nat /\ r - Window[k] <= t
          BY DEF Before, Instant
        <5>2. s <= t
          BY <3>3, <4>1, <5>1
        <5> QED BY <5>1, <5>2 DEF From
      <4> QED BY <4>2, SpanFacts
    <3>5. SharedIn(grants, k, From(r)) = 0
      <4>1. \A h \in Gate, t \in From(r) : grants[h][k]["redis"][t] = 0
        <5> SUFFICES ASSUME NEW h \in Gate, NEW t \in From(r)
                     PROVE  grants[h][k]["redis"][t] = 0
          OBVIOUS
        <5>1. t \in Instant /\ t > instant
          BY <1>4, <3>2 DEF From, Instant
        <5> QED BY <1>1, <5>1 DEF LocalInv, NothingAhead, Sides
      <4> QED BY <3>4, <4>1, SharedZero
    <3>6. SharedIn(grants, k, Before(r, k)) <= x
      BY <1>4, <2>2, <3>4, SpanFacts, SharedPart
    <3>7. x <= Limit
      BY <1>4, <2>3, <2>4
    <3>8. ~Pending(k)'
      <4>1. ~Pending(k)
        BY <1>1, <1>5, <2>6, <3>2, <3>3, <1>4 DEF CounterInv, PendingOne
      <4> QED BY <1>8, <4>1
    <3>9. PICK z \in Nat : z = SharedIn(grants, k, Before(r, k))
      BY <1>4, SpanFacts, SharedTyped
    <3>10. z <= Limit
      BY <1>4, <2>3, <3>6, <3>7, <3>9
    <3>11. Never >= r + Window[k]
      BY <1>4, <3>3 DEF Never
    <3>12. SharedIn(grants, k, From(r)) + (IF Pending(k)' THEN 1 ELSE 0) = 0
      BY <3>5, <3>8
    <3>13. 0 <= Limit /\ r <= r
      BY <1>4
    <3>14. CountedSince(k, r)'
      BY <1>3, <2>6, <3>2, <3>9, <3>10, <3>11, <3>12, <3>13 DEF CountedSince, Shared
    <3> QED BY <3>14
  <2> QED BY <1>6, <2>5, <2>6
<1>11. LockoutHasCause'
  <2> SUFFICES ASSUME NEW j \in Key, counter'[j].n > 0, counter'[j].exp = Never
               PROVE  j \in unset \/ \E h \in Gate : check[h] = {j}
    BY <1>3 DEF LockoutHasCause
  <2>1. counter'[j] = counter[j]
    BY <1>6
  <2> QED BY <1>1, <2>1 DEF CounterInv, LockoutHasCause
<1>12. \A g \in Gate : check'[g] = {} \/ \E k \in Key : check'[g] = {k}
  BY <1>1, <1>3 DEF CounterInv
<1>13. check' \in [Gate -> SUBSET Key] /\ grants' \in Grants /\ instant' \in Instant
  BY <1>1, <1>3 DEF CounterInv
<1>14. CounterInv'
  BY <1>7, <1>9, <1>10, <1>11, <1>12, <1>13 DEF CounterInv
<1> QED BY <1>2, <1>14 DEF LimiterInv, LimiterType, LocalInv, CounterInv

-----------------------------------------------------------------------------
(* The theorem.                                                            *)

LEMMA LimiterStarts == LimiterInit => LimiterInv
<1> SUFFICES ASSUME LimiterInit PROVE LimiterInv
  OBVIOUS
<1>1. /\ MaxInstant \in Nat \ {0} /\ LongWindow \in Nat /\ Limit \in Nat \ {0}
      /\ instant = 0 /\ instant \in Instant /\ Never \in Nat
  BY LimiterBounds DEF LimiterInit, Instant, Never
<1>2. NoAttempts \in Figures /\ \A t \in Instant : NoAttempts[t] = 0
  BY DEF NoAttempts, Figures
<1>3. /\ bucket \in [Gate -> [Key -> Figures]] /\ grants \in Grants
      /\ counter \in [Key -> [n : Nat, exp : Nat]] /\ check \in [Gate -> SUBSET Key]
  BY <1>1, <1>2 DEF LimiterInit, Grants, Sides, NoCounter
<1>4. /\ \A k \in Key : counter[k].n = 0 /\ counter[k].exp = Never
      /\ \A g \in Gate : check[g] = {}
      /\ \A g \in Gate, k \in Key, t \in Instant :
           bucket[g][k][t] = 0 /\ \A by \in Sides : grants[g][k][by][t] = 0
  BY <1>2 DEF LimiterInit, NoCounter, Sides
<1>5. LimiterType /\ NothingAhead
  BY <1>1, <1>3, <1>4 DEF LimiterType, NothingAhead
<1>6. BucketTrue
  BY <1>4 DEF BucketTrue, WindowOf, Sides
<1>7. WindowKept
  <2> SUFFICES ASSUME NEW g \in Gate, NEW k \in Key
               PROVE  SumOver(grants[g][k]["local"], WindowOf(k)) <= Limit
    BY InWindowIs DEF WindowKept, WindowIs, Sides
  <2>1. WindowOf(k) \in SUBSET Instant
    BY DEF WindowOf
  <2>2. SumOver(grants[g][k]["local"], WindowOf(k)) = 0
    BY <1>4, <2>1, InstantFinite, SumZero DEF Sides
  <2> QED BY <1>1, <2>2
<1>8. \A k \in Key : ~Pending(k)
  BY <1>4 DEF Pending
<1>9. PendingOne
  BY <1>4, <1>8 DEF PendingOne
<1>10. ASSUME NEW k \in Key PROVE \E s \in Nat : CountedSince(k, s)
  <2>1. Shared(k, From(0)) = 0 /\ Shared(k, Before(0, k)) = 0
    BY <1>4, SpanFacts, SharedZero DEF Shared, Sides
  <2>2. Never >= 0 + Window[k]
    BY <1>1, InstantFacts
  <2>3. Shared(k, From(0)) + (IF Pending(k) THEN 1 ELSE 0) = 0
    BY <1>8, <2>1
  <2>4. 0 <= instant /\ 0 <= Limit /\ 0 \in Nat
    BY <1>1
  <2>5. CountedSince(k, 0)
    BY <1>4, <2>1, <2>2, <2>3, <2>4 DEF CountedSince
  <2> QED BY <2>4, <2>5
<1>11. LockoutHasCause
  BY <1>4 DEF LockoutHasCause
<1> QED BY <1>5, <1>6, <1>7, <1>9, <1>10, <1>11 DEF LimiterInv

LEMMA LimiterStepKept == LimiterInv /\ [LimiterNext]_limiterVars => LimiterInv'
<1> SUFFICES ASSUME LimiterInv, [LimiterNext]_limiterVars PROVE LimiterInv'
  OBVIOUS
<1>1. LocalInv /\ CounterInv /\ LimiterType
  BY LimiterParts DEF LimiterInv
<1>2. ASSUME LocalInv', CounterInv' PROVE LimiterInv'
  BY <1>2 DEF LimiterInv, LimiterType, LocalInv, CounterInv
<1>3. CASE \E g \in Gate, k \in Key : Incr(g, k)
  BY <1>3, CounterIncr
<1>4. CASE \E g \in Gate, k \in Key : Expire(g, k)
  BY <1>4, CounterExpire
<1>5. ASSUME NEW g \in Gate, NEW k \in Key, ExpireFails(g, k) PROVE LimiterInv'
  <2>1. CheckLocally(g, k) /\ instant' = instant /\ counter' = counter
    BY <1>5 DEF ExpireFails
  <2>2. LocalInv' /\ RedisSame
    BY <1>1, <2>1, LocalCheck
  <2>3. /\ check' \in [Gate -> SUBSET Key] /\ unset \subseteq unset'
        /\ \A h \in Gate : check'[h] = check[h] \/ (check'[h] = {} /\ check[h] \subseteq unset')
    BY <1>1, <1>5 DEF ExpireFails, CounterInv
  <2> QED BY <1>1, <1>2, <2>1, <2>2, <2>3, CounterQuiet
<1>6. ASSUME NEW g \in Gate, NEW k \in Key, Fallback(g, k) PROVE LimiterInv'
  <2>1. CheckLocally(g, k) /\ instant' = instant /\ counter' = counter
    BY <1>6 DEF Fallback
  <2>2. LocalInv' /\ RedisSame
    BY <1>1, <2>1, LocalCheck
  <2>3. /\ check' \in [Gate -> SUBSET Key] /\ unset \subseteq unset'
        /\ \A h \in Gate : check'[h] = check[h] \/ (check'[h] = {} /\ check[h] \subseteq unset')
    BY <1>1, <1>6 DEF Fallback, CounterInv
  <2> QED BY <1>1, <1>2, <2>1, <2>2, <2>3, CounterQuiet
<1>7. ASSUME NEW g \in Gate, RestartGate(g) PROVE LimiterInv'
  <2>1. instant' = instant /\ counter' = counter
    BY <1>7 DEF RestartGate
  <2>2. LocalInv' /\ RedisSame
    BY <1>1, <1>7, LocalRestart
  <2>3. /\ check' \in [Gate -> SUBSET Key] /\ unset \subseteq unset'
        /\ \A h \in Gate : check'[h] = check[h] \/ (check'[h] = {} /\ check[h] \subseteq unset')
    BY <1>1, <1>7 DEF RestartGate, CounterInv
  <2> QED BY <1>1, <1>2, <2>1, <2>2, <2>3, CounterQuiet
<1>8. CASE LimiterTick
  BY <1>8, CounterTick
<1>9. CASE UNCHANGED limiterVars
  <2>1. LocalInv' /\ RedisSame
    <3>1. UNCHANGED <<instant, bucket, grants>>
      BY <1>9 DEF limiterVars
    <3>2. RedisSame
      BY <3>1 DEF RedisSame
    <3>3. \A k \in Key : WindowOf(k)' = WindowOf(k)
      BY <3>1 DEF WindowOf
    <3>4. WindowKept'
      BY <1>1, <3>1, <3>3, InWindowIs DEF LocalInv, WindowKept, WindowIs, Sides
    <3> QED BY <1>1, <3>1, <3>2, <3>3, <3>4 DEF LocalInv, NothingAhead, BucketTrue
  <2>2. /\ instant' = instant /\ counter' = counter
        /\ check' \in [Gate -> SUBSET Key] /\ unset \subseteq unset'
        /\ \A h \in Gate : check'[h] = check[h] \/ (check'[h] = {} /\ check[h] \subseteq unset')
    BY <1>1, <1>9 DEF limiterVars, CounterInv
  <2> QED BY <1>1, <1>2, <2>1, <2>2, CounterQuiet
<1> QED BY <1>3, <1>4, <1>5, <1>6, <1>7, <1>8, <1>9 DEF LimiterNext, LimiterStep

\* Two fixed windows cover any span of their length.
LEMMA LimiterBound == LimiterInv => AttemptsLimited
<1> SUFFICES ASSUME LimiterInv PROVE SharedBound
  BY DEF LimiterInv, AttemptsLimited
<1> SUFFICES ASSUME NEW k \in Key
             PROVE  MapThenSumSet(LAMBDA g : InWindow(g, k, "redis"), Gate) <= 2 * Limit
  BY DEF SharedBound
<1>1. PICK s \in Nat : CountedSince(k, s)
  BY DEF LimiterInv
<1>2. /\ instant \in Instant /\ instant \in Nat /\ grants \in Grants /\ Window[k] \in Nat
      /\ Limit \in Nat
  BY InstantFacts DEF LimiterInv, LimiterType
<1>3. /\ Before(s, k) \in SUBSET Instant /\ From(s) \in SUBSET Instant
      /\ Before(s, k) \cap From(s) = {}
  BY SpanFacts DEF Before, From, Instant
<1>4. WindowOf(k) \in SUBSET (Before(s, k) \cup From(s))
  <2>1. s <= instant
    BY <1>1 DEF CountedSince
  <2>2. ASSUME NEW t \in WindowOf(k) PROVE t \in Before(s, k) \cup From(s)
    <3>1. t \in Instant /\ t \in Nat /\ instant - Window[k] < t
      BY DEF WindowOf, Instant
    <3> QED BY <1>2, <2>1, <3>1 DEF Before, From
  <2> QED BY <2>2
<1>5. PICK x, y, z, w : /\ x = SharedIn(grants, k, From(s)) /\ y = SharedIn(grants, k, Before(s, k))
                        /\ z = SharedIn(grants, k, Before(s, k) \cup From(s))
                        /\ w = SharedIn(grants, k, WindowOf(k))
  OBVIOUS
<1>6. z = y + x
  BY <1>2, <1>3, <1>5, SharedUnion
<1>7. w <= z
  <2>1. Before(s, k) \cup From(s) \in SUBSET Instant
    BY <1>3
  <2> QED BY <1>2, <1>4, <1>5, <2>1, SharedPart
<1>8. x \in Nat /\ y \in Nat /\ w \in Nat
  <2>1. WindowOf(k) \in SUBSET Instant
    BY DEF WindowOf
  <2> QED BY <1>2, <1>3, <1>5, <2>1, SharedTyped
<1>9. x <= Limit /\ y <= Limit
  <2>1. x + (IF Pending(k) THEN 1 ELSE 0) <= Limit /\ y <= Limit
    BY <1>1, <1>5 DEF CountedSince, Shared
  <2> QED BY <1>2, <1>8, <2>1
<1>10. w <= 2 * Limit
  BY <1>2, <1>6, <1>7, <1>8, <1>9
<1> QED BY Zenon, <1>5, <1>10, SharedBoundIs DEF Shared

\* However many processes, keys, windows and limits: without Redis a process lets at
\* most Limit attempts of a key through in its window, with Redis all of them let at
\* most twice as many through, and a lockout for good comes from a failed EXPIRE.
THEOREM AttemptsLimitedHolds == LimiterSpec => []AttemptsLimited
<1>1. LimiterInit => LimiterInv
  BY LimiterStarts
<1>2. LimiterInv /\ [LimiterNext]_limiterVars => LimiterInv'
  BY LimiterStepKept
<1>3. LimiterInv => AttemptsLimited
  BY LimiterBound
<1> QED BY <1>1, <1>2, <1>3, PTL DEF LimiterSpec

-----------------------------------------------------------------------------
(* Credentials.                                                            *)

Adding == {"store", "open", "dump", "gather", "list"}

AddStep ==
    [at : Adding, pv : Provider, ver : Nat, found : BOOLEAN, read : SUBSET Provider,
     crossed : BOOLEAN, alone : BOOLEAN]

DeleteStep == [at : {"remove"}, pv : Provider, alone : BOOLEAN]

Scan ==
    [asked : SUBSET Provider, left : SUBSET Provider, used : [Provider -> Nat],
     failed : SUBSET Provider, disturbed : SUBSET Provider]

Typed ==
    /\ record \in [Provider -> [ver : Nat, valid : BOOLEAN]]
    /\ file \in [Provider -> Nat]
    /\ adds \in Nat /\ mixed \in SUBSET Provider
    /\ step \in [Worker -> {NoStep} \cup AddStep \cup DeleteStep]
    /\ scan \in [Worker -> {NoScan} \cup Scan]

Readable(p) == record[p].valid /\ file[p] \in Version

\* A request that is alone is the only one for its provider, and has done to
\* row and file what its steps say.
AloneRow(w) ==
    Serving(w) /\ step[w].alone =>
        /\ \A v \in Worker : Serving(v) /\ step[v].pv = step[w].pv => v = w
        /\ step[w].at \in {"open", "dump", "gather", "list"} =>
             record[step[w].pv].ver = step[w].ver
        /\ step[w].at \in {"gather", "list"} => file[step[w].pv] = step[w].ver
        /\ step[w].at = "remove" => record[step[w].pv].ver = None

Agree(p) ==
    p \notin mixed /\ (\A w \in Worker : ~(Serving(w) /\ step[w].pv = p)) =>
        file[p] = record[p].ver

\* The list that w is about to write has all that could be read when it did,
\* unless another add went on since.
ListRow(w) ==
    step[w].at = "list" =>
        /\ step[w].pv \in step[w].read
        /\ ~step[w].crossed => \A p \in Provider : Readable(p) => p \in step[w].read

\* Who makes a provider readable will write the list.
Covered(p) ==
    ~lost /\ Readable(p) =>
        \/ p \in listed
        \/ \E w \in Worker :
              step[w].at \in {"open", "dump", "gather", "list"} /\ step[w].pv = p

\* What a scan uses, unless it was disturbed, is the version of the row, and
\* nobody changes it.
ScanRow(w) ==
    scan[w] # NoScan =>
        \A p \in Provider \ scan[w].disturbed :
            /\ scan[w].used[p] = record[p].ver
            /\ \A v \in Worker : ~(Serving(v) /\ step[v].pv = p)

CredentialInv ==
    /\ Typed
    /\ \A p \in Provider : Agree(p) /\ Covered(p)
    /\ \A w \in Worker : AloneRow(w) /\ ListRow(w) /\ ScanRow(w)

-----------------------------------------------------------------------------
\* What a worker is serving, by its place.
LEMMA Places ==
    ASSUME Typed, NEW w \in Worker
    PROVE  /\ Serving(w) <=> step[w].at # "idle"
           /\ Serving(w) => step[w].pv \in Provider /\ step[w].alone \in BOOLEAN
           /\ step[w].at \in Adding => step[w] \in AddStep
           /\ step[w].at = "remove" => step[w] \in DeleteStep
           /\ step[w].at \in {"idle", "remove"} \cup Adding
           /\ step[w].at = "idle" => step[w] = NoStep
<1>1. step[w] = NoStep \/ step[w] \in AddStep \/ step[w] \in DeleteStep
  BY DEF Typed
<1>2. NoStep.at = "idle"
  BY DEF NoStep
<1>3. CASE step[w] = NoStep
  BY <1>2, <1>3 DEF Serving, Adding
<1>4. CASE step[w] \in AddStep
  BY <1>2, <1>4 DEF Serving, Adding, AddStep
<1>5. CASE step[w] \in DeleteStep
  BY <1>2, <1>5 DEF Serving, Adding, DeleteStep
<1> QED BY <1>1, <1>3, <1>4, <1>5

LEMMA NoScanApart == \A s \in Scan : s # NoScan
<1>1. \A s \in Scan : DOMAIN s = {"asked", "left", "used", "failed", "disturbed"}
  BY DEF Scan
<1>2. DOMAIN NoScan = {"asked", "left"}
  BY DEF NoScan
<1> QED BY <1>1, <1>2

\* A version that is none, or half written, cannot be read.
LEMMA Unreadable == None \notin Version /\ Torn \notin Version /\ None \in Nat /\ Torn \in Nat
BY CredentialBounds DEF None, Torn, Version

-----------------------------------------------------------------------------
(* What the step of one request does to the others.                        *)

\* Worker v goes on where it was; others may have noted that they met it.
Calm(v) ==
    \/ step'[v] = step[v]
    \/ Serving(v) /\ step'[v] = [step[v] EXCEPT !.alone = FALSE]
    \/ step[v].at = "list" /\ step'[v] = [step[v] EXCEPT !.crossed = TRUE]

LEMMA CalmFacts ==
    ASSUME Typed, NEW v \in Worker, Calm(v)
    PROVE  /\ step'[v] \in {NoStep} \cup AddStep \cup DeleteStep
           /\ step'[v].at = step[v].at
           /\ Serving(v)' <=> Serving(v)
           /\ Serving(v) => /\ step'[v].pv = step[v].pv
                            /\ step'[v].alone => step[v].alone
           /\ step[v].at \in Adding => step'[v].ver = step[v].ver /\ step'[v].read = step[v].read
           /\ step[v].at = "list" /\ step[v].crossed => step'[v].crossed
<1>1. /\ Serving(v) <=> step[v].at # "idle"
      /\ step[v].at \in Adding => step[v] \in AddStep
      /\ step[v].at = "remove" => step[v] \in DeleteStep
      /\ step[v].at \in {"idle", "remove"} \cup Adding
      /\ step[v].at = "idle" => step[v] = NoStep
  BY Places
<1>2. NoStep.at = "idle" /\ "list" \in Adding
  BY DEF NoStep, Adding
<1>3. CASE step'[v] = step[v]
  BY <1>3 DEF Serving, Typed
<1>4. CASE Serving(v) /\ step'[v] = [step[v] EXCEPT !.alone = FALSE]
  <2>1. CASE step[v] \in AddStep
    BY <1>2, <1>4, <2>1 DEF AddStep, Serving, Adding
  <2>2. CASE step[v] \in DeleteStep
    BY <1>2, <1>4, <2>2 DEF DeleteStep, Serving, Adding
  <2> QED BY <1>1, <1>4, <2>1, <2>2
<1>5. CASE step[v].at = "list" /\ step'[v] = [step[v] EXCEPT !.crossed = TRUE]
  <2>1. step[v] \in AddStep
    BY <1>1, <1>2, <1>5
  <2> QED BY <1>2, <1>5, <2>1 DEF AddStep, Serving, Adding
<1> QED BY <1>3, <1>4, <1>5 DEF Calm

\* A step of worker w about provider p.
Step(w, p) ==
    /\ \A v \in Worker \ {w} : Calm(v) /\ (Serving(v) /\ step[v].pv = p => ~step'[v].alone)
    /\ Serving(w) => step[w].pv = p
    /\ Serving(w)' => step'[w].pv = p
    /\ \A q \in Provider \ {p} : /\ record'[q] = record[q] /\ file'[q] = file[q]
                                 /\ q \in mixed' <=> q \in mixed

\* Whoever is alone stays so if it was not about p.
LEMMA OthersAlone ==
    ASSUME CredentialInv, NEW w \in Worker, NEW p \in Provider, Step(w, p), NEW v \in Worker \ {w}
    PROVE  AloneRow(v)'
<1> SUFFICES ASSUME Serving(v)', step'[v].alone
             PROVE  /\ \A u \in Worker : Serving(u)' /\ step'[u].pv = step'[v].pv => u = v
                    /\ step'[v].at \in {"open", "dump", "gather", "list"} =>
                         record'[step'[v].pv].ver = step'[v].ver
                    /\ step'[v].at \in {"gather", "list"} => file'[step'[v].pv] = step'[v].ver
                    /\ step'[v].at = "remove" => record'[step'[v].pv].ver = None
  BY DEF AloneRow
<1>1. Typed /\ AloneRow(v)
  BY DEF CredentialInv
<1>2. /\ Calm(v) /\ Serving(v) /\ step'[v].pv = step[v].pv /\ step[v].alone
      /\ step'[v].at = step[v].at
      /\ step[v].at \in Adding => step'[v].ver = step[v].ver
  BY <1>1, CalmFacts DEF Step
<1>3. step[v].pv # p /\ step[v].pv \in Provider
  BY <1>1, <1>2, Places DEF Step
<1>4. \A u \in Worker \ {w} : Serving(u)' /\ step'[u].pv = step'[v].pv
                                => Serving(u) /\ step[u].pv = step[v].pv
  BY <1>1, <1>2, CalmFacts DEF Step
<1>5. \A u \in Worker : Serving(u)' /\ step'[u].pv = step'[v].pv => u = v
  BY <1>1, <1>2, <1>3, <1>4 DEF AloneRow, Step
<1>6. record'[step[v].pv] = record[step[v].pv] /\ file'[step[v].pv] = file[step[v].pv]
  BY <1>3 DEF Step
<1> QED BY <1>1, <1>2, <1>5, <1>6 DEF AloneRow, Adding

LEMMA OthersAgree ==
    ASSUME CredentialInv, NEW w \in Worker, NEW p \in Provider, Step(w, p), NEW q \in Provider \ {p}
    PROVE  Agree(q)'
<1>1. Agree(q) /\ Typed
  BY DEF CredentialInv
<1>2. record'[q] = record[q] /\ file'[q] = file[q] /\ (q \in mixed' <=> q \in mixed)
  BY DEF Step
<1>3. \A v \in Worker \ {w} : Serving(v) => Serving(v)' /\ step'[v].pv = step[v].pv
  BY <1>1, CalmFacts DEF Step
<1>4. Serving(w) => step[w].pv # q
  BY DEF Step
<1> QED BY <1>1, <1>2, <1>3, <1>4 DEF Agree

\* A scan that goes on while requests change p is disturbed by them.
LEMMA ScansKept ==
    ASSUME CredentialInv, NEW w \in Worker, NEW p \in Provider, Step(w, p), NEW v \in Worker,
           scan'[v] # NoScan =>
             /\ scan[v] # NoScan /\ scan'[v].used = scan[v].used
             /\ scan[v].disturbed \subseteq scan'[v].disturbed
             /\ Serving(w) \/ p \in scan'[v].disturbed
    PROVE  ScanRow(v)'
<1> SUFFICES ASSUME scan'[v] # NoScan, NEW q \in Provider \ scan'[v].disturbed
             PROVE  /\ scan'[v].used[q] = record'[q].ver
                    /\ \A u \in Worker : ~(Serving(u)' /\ step'[u].pv = q)
  BY DEF ScanRow
<1>1. Typed /\ ScanRow(v) /\ q \in Provider \ scan[v].disturbed /\ scan[v] # NoScan
  BY DEF CredentialInv
<1>2. /\ scan[v].used[q] = record[q].ver
      /\ \A u \in Worker : ~(Serving(u) /\ step[u].pv = q)
  BY <1>1 DEF ScanRow
<1>3. q # p
  BY <1>2 DEF Step
<1>4. record'[q] = record[q]
  BY <1>3 DEF Step
<1>5. \A u \in Worker \ {w} : Serving(u)' => Serving(u) /\ step'[u].pv = step[u].pv
  BY <1>1, CalmFacts DEF Step
<1>6. Serving(w)' => step'[w].pv # q
  BY <1>3 DEF Step
<1> QED BY <1>2, <1>4, <1>5, <1>6

\* Lists that are about to be written, where nothing becomes readable or all
\* of them are crossed.
LEMMA OthersLists ==
    ASSUME CredentialInv, NEW v \in Worker, Calm(v),
           \/ \A q \in Provider : Readable(q)' => Readable(q)
           \/ step'[v].at = "list" => step'[v].crossed
    PROVE  ListRow(v)'
<1>1. Typed /\ ListRow(v)
  BY DEF CredentialInv
<1>2. CASE step'[v].at # "list"
  BY <1>2 DEF ListRow
<1>3. CASE step'[v].at = "list"
  <2>1. step[v].at = "list" /\ Serving(v) /\ step[v].at \in Adding
    BY <1>1, <1>3, CalmFacts, Places DEF Adding
  <2>2. step'[v].pv = step[v].pv /\ step'[v].read = step[v].read
        /\ (step[v].crossed => step'[v].crossed)
    BY <1>1, <2>1, CalmFacts
  <2> QED BY <1>1, <2>1, <2>2 DEF ListRow
<1> QED BY <1>2, <1>3

LEMMA Composed ==
    ASSUME CredentialInv, NEW w \in Worker, NEW p \in Provider, Step(w, p),
           Typed', Agree(p)', AloneRow(w)',
           \A q \in Provider : Covered(q)',
           \A v \in Worker : ListRow(v)' /\ ScanRow(v)'
    PROVE  CredentialInv'
<1>1. \A v \in Worker : AloneRow(v)'
  BY OthersAlone
<1>2. \A q \in Provider : Agree(q)'
  BY OthersAgree
<1> QED BY <1>1, <1>2 DEF CredentialInv

\* What is covered stays covered while its request is not over.
Covers(v, q) == step[v].at \in {"open", "dump", "gather", "list"} /\ step[v].pv = q

LEMMA CoveredKept ==
    ASSUME CredentialInv, NEW q \in Provider, Readable(q)' => Readable(q), lost => lost',
           q \in listed => q \in listed',
           \A v \in Worker : Covers(v, q) => Covers(v, q)'
    PROVE  Covered(q)'
<1>1. Covered(q)
  BY DEF CredentialInv
<1> QED BY <1>1 DEF Covered, Covers

LEMMA CalmCovers ==
    ASSUME Typed, NEW v \in Worker, Calm(v), NEW q PROVE Covers(v, q) => Covers(v, q)'
<1>1. Covers(v, q) => Serving(v)
  BY Places DEF Covers, Adding
<1> QED BY <1>1, CalmFacts DEF Covers

\* The request of w, alone before its step, is alone after it.
LEMMA StillAlone ==
    ASSUME CredentialInv, NEW w \in Worker, NEW p \in Provider, Step(w, p), Serving(w), step[w].alone,
           NEW v \in Worker, Serving(v)', step'[v].pv = p
    PROVE  v = w
<1>1. Typed /\ AloneRow(w)
  BY DEF CredentialInv
<1>2. v # w => Serving(v) /\ step[v].pv = p
  BY <1>1, CalmFacts DEF Step
<1>3. step[w].pv = p
  BY DEF Step
<1> QED BY <1>1, <1>2, <1>3 DEF AloneRow

-----------------------------------------------------------------------------
(* Requests that begin.                                                    *)

LEMMA BegunFacts ==
    ASSUME CredentialInv, NEW w \in Worker, NEW s \in AddStep \cup DeleteStep, ~Serving(w),
           Begun(w, s), s.alone = (Busy(s.pv) = {})
    PROVE  /\ s.pv \in Provider
           /\ step' \in [Worker -> {NoStep} \cup AddStep \cup DeleteStep]
           /\ scan' \in [Worker -> {NoScan} \cup Scan]
           /\ mixed' \in SUBSET Provider
           /\ step'[w] = s
           /\ \A v \in Worker \ {w} :
                Calm(v) /\ (Serving(v) /\ step[v].pv = s.pv => ~step'[v].alone)
           /\ s.alone => \A v \in Worker : ~(Serving(v) /\ step[v].pv = s.pv)
           /\ \A q \in Provider \ {s.pv} : q \in mixed' <=> q \in mixed
           /\ \A v \in Worker : scan'[v] # NoScan =>
                /\ scan[v] # NoScan /\ scan'[v].used = scan[v].used
                /\ scan[v].disturbed \subseteq scan'[v].disturbed
                /\ s.pv \in scan'[v].disturbed
<1>1. Typed
  BY DEF CredentialInv
<1>2. s.pv \in Provider
  BY DEF AddStep, DeleteStep
<1>3. \A v \in Worker : step'[v] = IF v = w THEN s
                                   ELSE IF Serving(v) /\ step[v].pv = s.pv
                                        THEN [step[v] EXCEPT !.alone = FALSE]
                                   ELSE step[v]
  BY DEF Begun, Busy
<1>4. ASSUME NEW v \in Worker \ {w}
      PROVE  Calm(v) /\ (Serving(v) /\ step[v].pv = s.pv => ~step'[v].alone)
  <2>1. Calm(v)
    BY <1>3 DEF Calm
  <2>2. Serving(v) => step[v] \in AddStep \/ step[v] \in DeleteStep
    BY <1>1, Places DEF Typed, Serving
  <2>3. CASE Serving(v) /\ step[v].pv = s.pv
    <3>1. step'[v] = [step[v] EXCEPT !.alone = FALSE]
      BY <1>3, <2>3
    <3> QED BY <2>1, <2>2, <2>3, <3>1 DEF AddStep, DeleteStep
  <2> QED BY <2>1, <2>3
<1>5. \A v \in Worker : step'[v] \in {NoStep} \cup AddStep \cup DeleteStep
  BY <1>1, <1>3, <1>4, CalmFacts
<1>6. step' = [v \in Worker |-> step'[v]]
  BY DEF Begun
<1>7. \A v \in Worker : scan'[v] = IF scan[v] = NoScan THEN NoScan
                                   ELSE [scan[v] EXCEPT !.disturbed = @ \cup {s.pv}]
  BY DEF Begun
<1>8. ASSUME NEW v \in Worker
      PROVE  /\ scan'[v] \in {NoScan} \cup Scan
             /\ scan'[v] # NoScan =>
                  /\ scan[v] # NoScan /\ scan'[v].used = scan[v].used
                  /\ scan[v].disturbed \subseteq scan'[v].disturbed
                  /\ s.pv \in scan'[v].disturbed
  <2>1. scan[v] = NoScan \/ scan[v] \in Scan
    BY <1>1 DEF Typed
  <2>2. CASE scan[v] = NoScan
    BY <1>7, <2>2
  <2>3. CASE scan[v] # NoScan /\ scan[v] \in Scan
    <3>1. scan'[v] = [scan[v] EXCEPT !.disturbed = @ \cup {s.pv}]
      BY <1>7, <2>3
    <3> QED BY <1>2, <2>3, <3>1 DEF Scan
  <2> QED BY <2>1, <2>2, <2>3
<1>9. scan' = [v \in Worker |-> scan'[v]]
  BY DEF Begun
<1>10. /\ \A q \in Provider \ {s.pv} : q \in mixed' <=> q \in mixed
       /\ mixed' \in SUBSET Provider
  BY <1>1, <1>2 DEF Begun, Typed
<1>11. s.alone => \A v \in Worker : ~(Serving(v) /\ step[v].pv = s.pv)
  BY DEF Busy
<1> QED BY <1>2, <1>3, <1>4, <1>5, <1>6, <1>8, <1>9, <1>10, <1>11

\* What both beginnings have in common.
LEMMA Begins ==
    ASSUME CredentialInv, NEW w \in Worker, NEW p \in Provider, NEW s \in AddStep \cup DeleteStep,
           ~Serving(w), Begun(w, s), s.pv = p, s.alone = (Busy(p) = {}),
           s.at \in {"store", "remove"}, s.at = "remove" => record'[p].ver = None,
           record' \in [Provider -> [ver : Nat, valid : BOOLEAN]], adds' \in Nat,
           \A q \in Provider \ {p} : record'[q] = record[q],
           \A q \in Provider : Readable(q)' => Readable(q),
           UNCHANGED <<file, listed, lost>>
    PROVE  CredentialInv'
<1>1. /\ step' \in [Worker -> {NoStep} \cup AddStep \cup DeleteStep]
      /\ scan' \in [Worker -> {NoScan} \cup Scan]
      /\ mixed' \in SUBSET Provider
      /\ step'[w] = s
      /\ \A v \in Worker \ {w} :
           Calm(v) /\ (Serving(v) /\ step[v].pv = p => ~step'[v].alone)
      /\ s.alone => \A v \in Worker : ~(Serving(v) /\ step[v].pv = p)
      /\ \A q \in Provider \ {p} : q \in mixed' <=> q \in mixed
      /\ \A v \in Worker : scan'[v] # NoScan =>
           /\ scan[v] # NoScan /\ scan'[v].used = scan[v].used
           /\ scan[v].disturbed \subseteq scan'[v].disturbed
           /\ p \in scan'[v].disturbed
  BY BegunFacts
<1>2. Typed /\ file' = file
  BY DEF CredentialInv
<1>3. Serving(w)' /\ step'[w].pv = p
  <2>1. NoStep.at = "idle"
    BY DEF NoStep
  <2> QED BY <1>1, <2>1 DEF Serving
<1>4. Step(w, p)
  BY <1>1, <1>2, <1>3 DEF Step
<1>5. Typed'
  BY <1>1, <1>2 DEF Typed
<1>6. Agree(p)'
  BY <1>3 DEF Agree
<1>7. AloneRow(w)'
  <2>1. s.alone => \A v \in Worker \ {w} : ~(Serving(v)' /\ step'[v].pv = p)
    BY <1>1, <1>2, CalmFacts
  <2> QED BY <1>1, <1>3, <2>1 DEF AloneRow
<1>8. ASSUME NEW q \in Provider PROVE Covered(q)'
  <2>1. \A v \in Worker \ {w} : Covers(v, q) => Covers(v, q)'
    BY <1>1, <1>2, CalmCovers
  <2>2. ~Covers(w, q)
    BY <1>2, Places DEF Covers
  <2> QED BY <2>1, <2>2, CoveredKept
<1>9. ASSUME NEW v \in Worker PROVE ListRow(v)' /\ ScanRow(v)'
  <2>1. ScanRow(v)'
    BY <1>1, <1>4, ScansKept
  <2>2. CASE v = w
    BY <1>1, <2>1, <2>2 DEF ListRow
  <2>3. CASE v # w
    BY <1>1, <2>1, <2>3, OthersLists
  <2> QED BY <2>2, <2>3
<1> QED BY <1>4, <1>5, <1>6, <1>7, <1>8, <1>9, Composed

LEMMA AddReadStep ==
    ASSUME CredentialInv, NEW w \in Worker, NEW p \in Provider, AddRead(w, p) PROVE CredentialInv'
<1> DEFINE s == [at |-> "store", pv |-> p, ver |-> adds + 1,
                 found |-> record[p] # NoRecord, read |-> {}, crossed |-> FALSE,
                 alone |-> Busy(p) = {}]
<1>1. Typed /\ ~Serving(w) /\ Begun(w, s) /\ adds' = adds + 1
      /\ UNCHANGED <<record, file, listed, lost>>
  BY DEF CredentialInv, AddRead
<1>2. s \in AddStep
  BY <1>1 DEF AddStep, Adding, Typed
<1>3. s.pv = p /\ s.alone = (Busy(p) = {}) /\ s.at = "store"
  OBVIOUS
<1> HIDE DEF s
<1>4. record' \in [Provider -> [ver : Nat, valid : BOOLEAN]] /\ adds' \in Nat
  BY <1>1 DEF Typed
<1>5. \A q \in Provider : record'[q] = record[q] /\ (Readable(q)' => Readable(q))
  BY <1>1 DEF Readable
<1> QED BY <1>1, <1>2, <1>3, <1>4, <1>5, Begins

LEMMA DeleteRowStep ==
    ASSUME CredentialInv, NEW w \in Worker, NEW p \in Provider, DeleteRow(w, p) PROVE CredentialInv'
<1> DEFINE s == [at |-> "remove", pv |-> p, alone |-> Busy(p) = {}]
<1>1. Typed /\ ~Serving(w) /\ Begun(w, s) /\ record' = [record EXCEPT ![p] = NoRecord]
      /\ UNCHANGED <<file, listed, adds, lost>>
  BY DEF CredentialInv, DeleteRow
<1>2. s \in DeleteStep
  BY DEF DeleteStep
<1>3. s.pv = p /\ s.alone = (Busy(p) = {}) /\ s.at = "remove"
  OBVIOUS
<1> HIDE DEF s
<1>4. NoRecord \in [ver : Nat, valid : BOOLEAN] /\ NoRecord.ver = None /\ ~NoRecord.valid
  BY DEF NoRecord, None
<1>5. /\ record' \in [Provider -> [ver : Nat, valid : BOOLEAN]]
      /\ record'[p] = NoRecord
      /\ \A q \in Provider \ {p} : record'[q] = record[q]
  BY <1>1, <1>4 DEF Typed
<1>6. \A q \in Provider : Readable(q)' => Readable(q)
  BY <1>1, <1>4, <1>5 DEF Readable
<1>7. adds' \in Nat
  BY <1>1 DEF Typed
<1> QED BY <1>1, <1>2, <1>3, <1>4, <1>5, <1>6, <1>7, Begins

-----------------------------------------------------------------------------
(* Steps of an add.                                                        *)

\* The request of w goes on to another place.
LEMMA Advances ==
    ASSUME CredentialInv, NEW w \in Worker, NEW p \in Provider, NEW t \in AddStep,
           step[w] \in AddStep, step[w].pv = p, t.pv = p,
           t.ver = step[w].ver, t.alone = step[w].alone,
           t.at \in {"open", "dump", "gather", "list"},
           step' = [v \in Worker |-> step'[v]], step'[w] = t,
           \A v \in Worker \ {w} :
              step'[v] = step[v]
              \/ (step[v].at = "list" /\ step'[v] = [step[v] EXCEPT !.crossed = TRUE]),
           record' \in [Provider -> [ver : Nat, valid : BOOLEAN]], file' \in [Provider -> Nat],
           \A q \in Provider \ {p} : record'[q] = record[q] /\ file'[q] = file[q],
           UNCHANGED <<listed, scan, adds, mixed, lost>>,
           t.alone => record'[p].ver = t.ver,
           t.alone /\ t.at \in {"gather", "list"} => file'[p] = t.ver,
           t.at = "list" => \A q \in Provider : Readable(q)' => q \in t.read,
           t.at = "list" => p \in t.read,
           \/ \A q \in Provider : Readable(q)' => Readable(q)
           \/ \A v \in Worker \ {w} : step'[v].at = "list" => step'[v].crossed
    PROVE  CredentialInv'
<1>1. Typed /\ Serving(w) /\ Serving(w)' /\ t.at # "idle" /\ t.at # "remove"
  <2>1. NoStep.at = "idle"
    BY DEF NoStep
  <2>2. \A r \in AddStep : r.at # "idle" /\ r.at # "remove"
    BY DEF AddStep, Adding
  <2> QED BY <2>1, <2>2 DEF CredentialInv, Serving
<1>2. \A v \in Worker \ {w} : Calm(v)
  BY DEF Calm
<1>3. ASSUME NEW v \in Worker \ {w}, Serving(v), step[v].pv = p PROVE ~step'[v].alone
  <2>1. ~step[v].alone
    BY <1>1, <1>3 DEF CredentialInv, AloneRow
  <2>2. step'[v].alone => step[v].alone
    BY <1>1, <1>2, <1>3, CalmFacts
  <2> QED BY <2>1, <2>2
<1>4. Step(w, p)
  BY <1>1, <1>2, <1>3 DEF Step
<1>5. Typed'
  <2>1. \A v \in Worker : step'[v] \in {NoStep} \cup AddStep \cup DeleteStep
    BY <1>1, <1>2, CalmFacts
  <2> QED BY <1>1, <2>1 DEF Typed
<1>6. Agree(p)'
  BY <1>1 DEF Agree
<1>7. AloneRow(w)'
  <2>1. t.alone => \A v \in Worker : Serving(v)' /\ step'[v].pv = p => v = w
    BY <1>1, <1>4, StillAlone
  <2> QED BY <1>1, <2>1 DEF AloneRow
<1>8. ASSUME NEW q \in Provider PROVE Covered(q)'
  <2>1. \A v \in Worker \ {w} : Covers(v, q) => Covers(v, q)'
    BY <1>1, <1>2, CalmCovers
  <2>2. CASE q = p
    BY <2>2 DEF Covered
  <2>3. CASE q # p
    <3>1. Readable(q)' => Readable(q)
      BY <2>3 DEF Readable
    <3>2. ~Covers(w, q)
      BY <2>3 DEF Covers
    <3> QED BY <2>1, <3>1, <3>2, CoveredKept
  <2> QED BY <2>2, <2>3
<1>9. ASSUME NEW v \in Worker PROVE ListRow(v)' /\ ScanRow(v)'
  <2>1. ScanRow(v)'
    BY <1>1, <1>4, ScansKept
  <2>2. CASE v = w
    BY <2>1, <2>2 DEF ListRow
  <2>3. CASE v # w
    BY <1>2, <2>1, <2>3, OthersLists
  <2> QED BY <2>2, <2>3
<1> QED BY <1>4, <1>5, <1>6, <1>7, <1>8, <1>9, Composed

LEMMA StoreStep == ASSUME CredentialInv, NEW w \in Worker, Store(w) PROVE CredentialInv'
<1> DEFINE p == step[w].pv
           t == [step[w] EXCEPT !.at = "open"]
           row == [ver |-> step[w].ver, valid |-> TRUE]
<1>1. Typed /\ step[w].at = "store" /\ step[w] \in AddStep /\ p \in Provider
  <2>1. Typed /\ step[w].at = "store"
    BY DEF CredentialInv, Store
  <2> QED BY <2>1, Places DEF Adding, AddStep
<1>2. /\ t \in AddStep /\ t.pv = p /\ t.ver = step[w].ver /\ t.alone = step[w].alone
      /\ t.at = "open"
  BY <1>1 DEF AddStep, Adding
<1>3. row \in [ver : Nat, valid : BOOLEAN] /\ row.ver = step[w].ver
  BY <1>1 DEF AddStep
<1>4. record' = [record EXCEPT ![p] = row] /\ UNCHANGED <<file, listed, scan, adds, mixed, lost>>
  BY DEF Store
<1>5. /\ step' = [v \in Worker |-> step'[v]] /\ step'[w] = t
      /\ \A v \in Worker \ {w} :
           IF step[v].at = "list" THEN step'[v] = [step[v] EXCEPT !.crossed = TRUE]
           ELSE step'[v] = step[v]
  BY DEF Store
<1> HIDE DEF p, t, row
<1>6. /\ record' \in [Provider -> [ver : Nat, valid : BOOLEAN]] /\ record'[p] = row
      /\ \A q \in Provider \ {p} : record'[q] = record[q] /\ file'[q] = file[q]
      /\ file' \in [Provider -> Nat]
  BY <1>1, <1>3, <1>4 DEF Typed
<1>7. ASSUME NEW v \in Worker \ {w}, step'[v].at = "list" PROVE step'[v].crossed
  <2>1. step[v].at = "list"
    BY <1>5, <1>7
  <2>2. step[v] \in AddStep
    BY <1>1, <2>1, Places DEF Adding
  <2> QED BY <1>5, <2>1, <2>2 DEF AddStep
<1>8. step[w].pv = p
  BY DEF p
<1> QED BY <1>1, <1>2, <1>3, <1>4, <1>5, <1>6, <1>7, <1>8, Advances

LEMMA OpenStep == ASSUME CredentialInv, NEW w \in Worker, OpenFile(w) PROVE CredentialInv'
<1> DEFINE p == step[w].pv
           t == [step[w] EXCEPT !.at = "dump"]
<1>1. Typed /\ step[w].at = "open" /\ step[w] \in AddStep /\ p \in Provider
  <2>1. Typed /\ step[w].at = "open"
    BY DEF CredentialInv, OpenFile
  <2> QED BY <2>1, Places DEF Adding, AddStep
<1>2. /\ t \in AddStep /\ t.pv = p /\ t.ver = step[w].ver /\ t.alone = step[w].alone
      /\ t.at = "dump"
  BY <1>1 DEF AddStep, Adding
<1>3. file' = [file EXCEPT ![p] = Torn] /\ step' = [step EXCEPT ![w] = t]
      /\ UNCHANGED <<record, listed, scan, adds, mixed, lost>>
  BY DEF OpenFile, Advance
<1>4. t.alone => record[p].ver = t.ver
  <2>1. Serving(w)
    BY <1>1, Places
  <2> QED BY <1>1, <1>2, <2>1 DEF CredentialInv, AloneRow
<1>5. step[w].pv = p
  BY DEF p
<1> HIDE DEF p, t
<1>6. /\ record' \in [Provider -> [ver : Nat, valid : BOOLEAN]]
      /\ file' \in [Provider -> Nat] /\ file'[p] = Torn
      /\ \A q \in Provider \ {p} : record'[q] = record[q] /\ file'[q] = file[q]
  BY <1>1, <1>3, Unreadable DEF Typed
<1>7. \A q \in Provider : Readable(q)' => Readable(q)
  BY <1>3, <1>6, Unreadable DEF Readable
<1>8. step' = [v \in Worker |-> step'[v]] /\ step'[w] = t
      /\ \A v \in Worker \ {w} : step'[v] = step[v]
  BY <1>1, <1>3 DEF Typed
<1>9. t.alone => record'[p].ver = t.ver
  BY <1>3, <1>4
<1>10. /\ t.at \in {"open", "dump", "gather", "list"}
       /\ t.at \notin {"gather", "list"} /\ t.at # "list"
  BY <1>2
<1>11. UNCHANGED <<listed, scan, adds, mixed, lost>>
  BY <1>3
<1> QED BY <1>1, <1>2, <1>5, <1>6, <1>7, <1>8, <1>9, <1>10, <1>11, Advances

LEMMA DumpStep == ASSUME CredentialInv, NEW w \in Worker, DumpFile(w) PROVE CredentialInv'
<1> DEFINE p == step[w].pv
           t == [step[w] EXCEPT !.at = "gather"]
<1>1. Typed /\ step[w].at = "dump" /\ step[w] \in AddStep /\ p \in Provider
  <2>1. Typed /\ step[w].at = "dump"
    BY DEF CredentialInv, DumpFile
  <2> QED BY <2>1, Places DEF Adding, AddStep
<1>2. /\ t \in AddStep /\ t.pv = p /\ t.ver = step[w].ver /\ t.alone = step[w].alone
      /\ t.at = "gather" /\ t.ver \in Nat
  BY <1>1 DEF AddStep, Adding
<1>3. file' = [file EXCEPT ![p] = step[w].ver]
      /\ UNCHANGED <<record, listed, scan, adds, mixed, lost>>
  BY DEF DumpFile
<1>4. t.alone => record[p].ver = t.ver
  <2>1. Serving(w)
    BY <1>1, Places
  <2> QED BY <1>1, <1>2, <2>1 DEF CredentialInv, AloneRow
<1>5. /\ step' = [v \in Worker |-> step'[v]] /\ step'[w] = t
      /\ \A v \in Worker \ {w} :
           IF step[v].at = "list" THEN step'[v] = [step[v] EXCEPT !.crossed = TRUE]
           ELSE step'[v] = step[v]
  BY DEF DumpFile
<1>6. step[w].pv = p
  BY DEF p
<1> HIDE DEF p, t
<1>7. /\ record' \in [Provider -> [ver : Nat, valid : BOOLEAN]]
      /\ file' \in [Provider -> Nat] /\ file'[p] = t.ver
      /\ \A q \in Provider \ {p} : record'[q] = record[q] /\ file'[q] = file[q]
  BY <1>1, <1>2, <1>3 DEF Typed
<1>8. ASSUME NEW v \in Worker \ {w}, step'[v].at = "list" PROVE step'[v].crossed
  <2>1. step[v].at = "list"
    BY <1>5, <1>8
  <2>2. step[v] \in AddStep
    BY <1>1, <2>1, Places DEF Adding
  <2> QED BY <1>5, <2>1, <2>2 DEF AddStep
<1>9. t.alone => record'[p].ver = t.ver
  BY <1>3, <1>4
<1> QED BY <1>1, <1>2, <1>3, <1>5, <1>6, <1>7, <1>8, <1>9, Advances

LEMMA GatherStep == ASSUME CredentialInv, NEW w \in Worker, Gather(w) PROVE CredentialInv'
<1> DEFINE p == step[w].pv
           t == [step[w] EXCEPT !.at = "list", !.read = Scannable(step[w].pv)]
<1>1. Typed /\ step[w].at = "gather" /\ step[w] \in AddStep /\ p \in Provider
  <2>1. Typed /\ step[w].at = "gather"
    BY DEF CredentialInv, Gather
  <2> QED BY <2>1, Places DEF Adding, AddStep
<1>2. /\ Scannable(p) \subseteq Provider /\ p \in Scannable(p)
      /\ \A q \in Provider : Readable(q) => q \in Scannable(p)
  BY <1>1 DEF Scannable, Readable
<1>3. /\ t \in AddStep /\ t.pv = p /\ t.ver = step[w].ver /\ t.alone = step[w].alone
      /\ t.at = "list" /\ t.read = Scannable(p)
  BY <1>1, <1>2 DEF AddStep, Adding
<1>4. step' = [step EXCEPT ![w] = t] /\ UNCHANGED <<record, file, listed, scan, adds, mixed, lost>>
  BY DEF Gather
<1>5. t.alone => record[p].ver = t.ver /\ file[p] = t.ver
  <2>1. Serving(w)
    BY <1>1, Places
  <2> QED BY <1>1, <1>3, <2>1 DEF CredentialInv, AloneRow
<1>6. step[w].pv = p
  BY DEF p
<1> HIDE DEF p, t
<1>7. /\ record' \in [Provider -> [ver : Nat, valid : BOOLEAN]] /\ file' \in [Provider -> Nat]
      /\ \A q \in Provider \ {p} : record'[q] = record[q] /\ file'[q] = file[q]
  BY <1>1, <1>4 DEF Typed
<1>8. \A q \in Provider : Readable(q)' => Readable(q)
  BY <1>4 DEF Readable
<1>9. step' = [v \in Worker |-> step'[v]] /\ step'[w] = t
      /\ \A v \in Worker \ {w} : step'[v] = step[v]
  BY <1>1, <1>4 DEF Typed
<1>10. /\ t.alone => record'[p].ver = t.ver /\ file'[p] = t.ver
       /\ \A q \in Provider : Readable(q)' => q \in t.read
       /\ p \in t.read
  BY <1>2, <1>3, <1>4, <1>5, <1>8
<1> QED BY <1>1, <1>3, <1>4, <1>6, <1>7, <1>8, <1>9, <1>10, Advances

-----------------------------------------------------------------------------
(* Requests that end.                                                      *)

LEMMA Ends ==
    ASSUME CredentialInv, NEW w \in Worker, NEW p \in Provider, NEW complete \in BOOLEAN,
           Serving(w), step[w].pv = p, Done(w, complete),
           file' \in [Provider -> Nat], \A q \in Provider \ {p} : file'[q] = file[q],
           scan' \in [Worker -> {NoScan} \cup Scan],
           complete /\ step[w].alone => file'[p] = record[p].ver,
           \A q \in Provider : Readable(q)' => Readable(q),
           UNCHANGED <<record, adds>>,
           \A v \in Worker : scan'[v] = scan[v] \/ ScanRow(v)',
           \/ \A q \in Provider : Covered(q)'
           \/ UNCHANGED listed /\ (lost => lost')
              /\ (step[w].at \in {"open", "dump", "gather", "list"} => lost')
    PROVE  CredentialInv'
<1>1. Typed /\ step' = [step EXCEPT ![w] = NoStep]
  BY DEF CredentialInv, Done
<1>2. step'[w] = NoStep /\ \A v \in Worker \ {w} : step'[v] = step[v]
  BY <1>1 DEF Typed
<1>3. ~Serving(w)' /\ step'[w].at = "idle"
  BY <1>2 DEF Serving, NoStep
<1>4. \A q \in Provider \ {p} : q \in mixed' <=> q \in mixed
  BY DEF Done
<1>5. ASSUME NEW v \in Worker \ {w}
      PROVE  Calm(v) /\ (Serving(v) /\ step[v].pv = p => ~step'[v].alone)
  BY <1>2 DEF Calm, CredentialInv, AloneRow
<1>6. Step(w, p)
  BY <1>3, <1>4, <1>5 DEF Step
<1>7. Typed'
  <2>1. mixed' \in SUBSET Provider
    BY <1>1 DEF Done, Typed
  <2> QED BY <1>1, <2>1 DEF Typed
<1>8. Agree(p)'
  <2>1. p \notin mixed' => complete /\ step[w].alone
    BY DEF Done
  <2> QED BY <2>1 DEF Agree
<1>9. AloneRow(w)'
  BY <1>3 DEF AloneRow
<1>10. ASSUME NEW q \in Provider PROVE Covered(q)'
  <2>1. CASE lost'
    BY <2>1 DEF Covered
  <2>2. CASE ~lost' /\ UNCHANGED listed /\ (lost => lost')
             /\ (step[w].at \in {"open", "dump", "gather", "list"} => lost')
    <3>1. \A v \in Worker : Covers(v, q) => Covers(v, q)'
      BY <1>2, <2>2 DEF Covers
    <3> QED BY <2>2, <3>1, CoveredKept
  <2> QED BY <2>1, <2>2
<1>11. ASSUME NEW v \in Worker PROVE ListRow(v)' /\ ScanRow(v)'
  <2>1. scan'[v] = scan[v] => ScanRow(v)'
    BY <1>6, ScansKept
  <2>2. ScanRow(v)'
    BY <2>1
  <2>3. CASE v = w
    BY <1>3, <2>2, <2>3 DEF ListRow
  <2>4. CASE v # w
    BY <1>5, <2>2, <2>4, OthersLists
  <2> QED BY <2>3, <2>4
<1> QED BY <1>6, <1>7, <1>8, <1>9, <1>10, <1>11, Composed

LEMMA ListStep == ASSUME CredentialInv, NEW w \in Worker, ListAndScan(w) PROVE CredentialInv'
<1> DEFINE s == step[w]
           p == step[w].pv
           others == {q \in Provider : Busy(q) \ {w} # {}}
           new == [asked |-> s.read, left |-> s.read, used |-> file, failed |-> {},
                   disturbed |-> mixed \cup others \cup (IF s.alone THEN {} ELSE {s.pv})]
<1>1. Typed /\ s.at = "list" /\ s \in AddStep /\ p \in Provider /\ Serving(w)
      /\ s.read \in SUBSET Provider
  <2>1. Typed /\ s.at = "list"
    BY DEF CredentialInv, ListAndScan
  <2> QED BY <2>1, Places DEF Adding, AddStep
<1>2. /\ listed' = s.read /\ lost' = s.crossed /\ scan' = [scan EXCEPT ![w] = new]
      /\ Done(w, TRUE) /\ UNCHANGED <<record, file, adds>>
  BY DEF ListAndScan
<1>3. s.alone => file[p] = record[p].ver
  BY <1>1 DEF CredentialInv, AloneRow
<1>4. step'[w] = NoStep /\ \A v \in Worker \ {w} : step'[v] = step[v]
  BY <1>1, <1>2 DEF Done, Typed
<1>5. ~Serving(w)'
  BY <1>4 DEF Serving
<1>6. new \in Scan
  <2>1. others \in SUBSET Provider
    OBVIOUS
  <2> HIDE DEF others
  <2> QED BY <1>1, <2>1 DEF Scan, Typed
<1>7. \A q \in Provider \ new.disturbed :
         /\ file[q] = record[q].ver
         /\ \A v \in Worker \ {w} : ~(Serving(v) /\ step[v].pv = q)
  <2> TAKE q \in Provider \ new.disturbed
  <2>1. q \notin mixed /\ Busy(q) \ {w} = {} /\ (q = p => s.alone)
    OBVIOUS
  <2>2. \A v \in Worker \ {w} : ~(Serving(v) /\ step[v].pv = q)
    BY <2>1 DEF Busy
  <2>3. CASE q = p
    BY <1>3, <2>1, <2>2, <2>3
  <2>4. CASE q # p
    BY <2>1, <2>2, <2>4 DEF CredentialInv, Agree
  <2> QED BY <2>3, <2>4
<1>8. new.used = file
  OBVIOUS
<1> HIDE DEF new
<1>9. scan' \in [Worker -> {NoScan} \cup Scan] /\ scan'[w] = new
      /\ \A v \in Worker \ {w} : scan'[v] = scan[v]
  BY <1>1, <1>2, <1>6 DEF Typed
<1>10. ScanRow(w)'
  BY <1>2, <1>4, <1>5, <1>7, <1>8, <1>9 DEF ScanRow, Serving
<1>11. \A q \in Provider : Covered(q)'
  BY <1>1, <1>2 DEF Covered, Readable, CredentialInv, ListRow
<1>12. \A q \in Provider : Readable(q)' => Readable(q)
  BY <1>2 DEF Readable
<1>13. /\ file' \in [Provider -> Nat] /\ \A q \in Provider \ {p} : file'[q] = file[q]
       /\ s.alone => file'[p] = record[p].ver
  BY <1>1, <1>2, <1>3 DEF Typed
<1>14. \A v \in Worker : scan'[v] = scan[v] \/ ScanRow(v)'
  BY <1>9, <1>10
<1> HIDE DEF s, p
<1>15. step[w].pv = p /\ step[w].alone = s.alone
  BY DEF s, p
<1> QED BY <1>1, <1>2, <1>9, <1>11, <1>12, <1>13, <1>14, <1>15, Ends

LEMMA StopStep == ASSUME CredentialInv, NEW w \in Worker, AddStops(w) PROVE CredentialInv'
<1> DEFINE p == step[w].pv
<1>1. Typed /\ p \in Provider /\ Serving(w) /\ Done(w, FALSE)
      /\ lost' = (lost \/ step[w].at # "store")
      /\ UNCHANGED <<record, file, listed, scan, adds>>
  BY Places DEF CredentialInv, AddStops
<1> HIDE DEF p
<1>2. step[w].pv = p
  BY DEF p
<1>3. /\ file' \in [Provider -> Nat] /\ \A q \in Provider \ {p} : file'[q] = file[q]
      /\ scan' \in [Worker -> {NoScan} \cup Scan]
      /\ \A q \in Provider : Readable(q)' => Readable(q)
      /\ \A v \in Worker : scan'[v] = scan[v]
  BY <1>1 DEF Typed, Readable
<1> QED BY <1>1, <1>2, <1>3, Ends

LEMMA RemoveStep ==
    ASSUME CredentialInv, NEW w \in Worker, NEW done \in BOOLEAN, RemoveFiles(w, done) PROVE CredentialInv'
<1> DEFINE p == step[w].pv
<1>1. Typed /\ step[w].at = "remove"
      /\ file' = (IF done THEN [file EXCEPT ![p] = None] ELSE file)
      /\ Done(w, done) /\ UNCHANGED <<record, listed, scan, adds, lost>>
  BY DEF CredentialInv, RemoveFiles, Removed
<1>2. p \in Provider /\ Serving(w)
  BY <1>1, Places
<1>3. step[w].alone => record[p].ver = None
  BY <1>1, <1>2 DEF CredentialInv, AloneRow
<1> HIDE DEF p
<1>4. step[w].pv = p
  BY DEF p
<1>5. /\ file' \in [Provider -> Nat] /\ \A q \in Provider \ {p} : file'[q] = file[q]
      /\ done => file'[p] = None
      /\ ~done => file'[p] = file[p]
      /\ scan' \in [Worker -> {NoScan} \cup Scan]
      /\ \A v \in Worker : scan'[v] = scan[v]
  BY <1>1, <1>2, Unreadable DEF Typed
<1>6. \A q \in Provider : Readable(q)' => Readable(q)
  BY <1>1, <1>5, Unreadable DEF Readable
<1>7. done /\ step[w].alone => file'[p] = record[p].ver
  BY <1>3, <1>5
<1> QED BY <1>1, <1>2, <1>4, <1>5, <1>6, <1>7, Ends

-----------------------------------------------------------------------------
(* The scan.                                                               *)

\* No request moves, and no row changes but by losing its validity.
LEMMA ScanMoves ==
    ASSUME CredentialInv, Typed', UNCHANGED <<file, listed, step, mixed, lost>>,
           \A p \in Provider : /\ record'[p].ver = record[p].ver
                               /\ record'[p].valid => record[p].valid,
           \A v \in Worker : scan'[v] # NoScan =>
              scan[v] # NoScan /\ scan'[v].used = scan[v].used
              /\ scan'[v].disturbed = scan[v].disturbed
    PROVE  CredentialInv'
<1>1. Typed /\ \A p \in Provider : Readable(p)' => Readable(p)
  BY DEF CredentialInv, Readable
<1>2. \A p \in Provider : Agree(p)'
  BY DEF CredentialInv, Agree, Serving
<1>3. \A p \in Provider : Covered(p)'
  BY <1>1 DEF CredentialInv, Covered
<1>4. \A w \in Worker : ListRow(w)'
  BY <1>1 DEF CredentialInv, ListRow
<1>5. \A w \in Worker : ScanRow(w)'
  BY DEF CredentialInv, ScanRow, Serving
<1>6. ASSUME NEW w \in Worker PROVE AloneRow(w)'
  <2>1. Serving(w) => step[w].pv \in Provider
    BY <1>1, Places
  <2> QED BY <2>1 DEF CredentialInv, AloneRow, Serving
<1> QED BY <1>2, <1>3, <1>4, <1>5, <1>6 DEF CredentialInv

LEMMA AskedStep ==
    ASSUME CredentialInv, NEW w \in Worker, NEW p \in Provider, NEW fails \in BOOLEAN, Asked(w, p, fails)
    PROVE  CredentialInv'
<1> DEFINE left == scan[w].left \ {p}
           failed == IF fails /\ record[p].valid THEN scan[w].failed \cup {p} ELSE scan[w].failed
           new == [scan[w] EXCEPT !.left = left, !.failed = failed]
<1>1. Typed /\ p \in scan[w].left /\ UNCHANGED <<record, file, listed, step, adds, mixed, lost>>
      /\ scan' = [scan EXCEPT ![w] = new]
  BY DEF CredentialInv, Asked
<1>2. scan[w] # NoScan /\ scan[w] \in Scan
  <2>1. NoScan.left = {}
    BY DEF NoScan
  <2> QED BY <1>1, <2>1 DEF Typed
<1>3. left \in SUBSET Provider /\ failed \in SUBSET Provider
  BY <1>2 DEF Scan
<1> HIDE DEF left, failed
<1>4. new \in Scan /\ new.used = scan[w].used /\ new.disturbed = scan[w].disturbed
  BY <1>2, <1>3 DEF Scan
<1> HIDE DEF new
<1>5. scan' \in [Worker -> {NoScan} \cup Scan] /\ scan'[w] = new
      /\ \A v \in Worker \ {w} : scan'[v] = scan[v]
  BY <1>1, <1>4 DEF Typed
<1>6. Typed'
  BY <1>1, <1>5 DEF Typed
<1> QED BY <1>1, <1>2, <1>4, <1>5, <1>6, ScanMoves

LEMMA CommitRows ==
    ASSUME Typed, NEW w \in Worker, Commit(w)
    PROVE  /\ record' \in [Provider -> [ver : Nat, valid : BOOLEAN]]
           /\ \A p \in Provider :
                /\ record'[p].ver = record[p].ver
                /\ record'[p].valid <=> record[p].valid /\ p \notin scan[w].failed
BY DEF Typed, Commit, Blamed

LEMMA CommitStep == ASSUME CredentialInv, NEW w \in Worker, Commit(w) PROVE CredentialInv'
<1>1. Typed /\ UNCHANGED <<file, listed, step, adds, mixed, lost>>
      /\ scan' = [scan EXCEPT ![w] = NoScan]
  BY DEF CredentialInv, Commit
<1>2. scan' \in [Worker -> {NoScan} \cup Scan] /\ scan'[w] = NoScan
      /\ \A v \in Worker \ {w} : scan'[v] = scan[v]
  BY <1>1 DEF Typed
<1>3. Typed'
  BY <1>1, <1>2, CommitRows DEF Typed
<1> QED BY <1>1, <1>2, <1>3, CommitRows, ScanMoves

LEMMA ScanStopStep == ASSUME CredentialInv, NEW w \in Worker, ScanStops(w) PROVE CredentialInv'
<1>1. Typed /\ UNCHANGED <<record, file, listed, step, adds, mixed, lost>>
      /\ scan' = [scan EXCEPT ![w] = NoScan]
  BY DEF CredentialInv, ScanStops
<1>2. scan' \in [Worker -> {NoScan} \cup Scan] /\ scan'[w] = NoScan
      /\ \A v \in Worker \ {w} : scan'[v] = scan[v]
  BY <1>1 DEF Typed
<1>3. Typed'
  BY <1>1, <1>2 DEF Typed
<1> QED BY <1>1, <1>2, <1>3, ScanMoves

-----------------------------------------------------------------------------
LEMMA Starts == ASSUME CredentialInit PROVE CredentialInv
<1>1. /\ record = [p \in Provider |-> NoRecord] /\ file = [p \in Provider |-> None]
      /\ step = [w \in Worker |-> NoStep] /\ scan = [w \in Worker |-> NoScan]
      /\ adds = 0 /\ mixed = {} /\ ~lost
  BY DEF CredentialInit
<1>2. NoRecord \in [ver : Nat, valid : BOOLEAN] /\ NoRecord.ver = None /\ ~NoRecord.valid
      /\ None \in Nat /\ NoStep.at = "idle"
  BY DEF NoRecord, None, NoStep
<1>3. Typed
  BY <1>1, <1>2 DEF Typed
<1>4. \A p \in Provider : Agree(p) /\ Covered(p)
  BY <1>1, <1>2 DEF Agree, Covered, Readable
<1>5. \A w \in Worker : AloneRow(w) /\ ListRow(w) /\ ScanRow(w)
  BY <1>1, <1>2 DEF AloneRow, ListRow, ScanRow, Serving
<1> QED BY <1>3, <1>4, <1>5 DEF CredentialInv

LEMMA InvStep == ASSUME CredentialInv, [CredentialNext]_credentialVars PROVE CredentialInv'
<1>1. CASE UNCHANGED credentialVars
  <2>1. UNCHANGED <<record, file, listed, step, scan, adds, mixed, lost>>
    BY <1>1 DEF credentialVars
  <2>2. Typed'
    BY <2>1 DEF CredentialInv, Typed
  <2> QED BY <2>1, <2>2, ScanMoves
<1>2. CASE CredentialNext
  BY <1>2, AddReadStep, DeleteRowStep, StoreStep, OpenStep, DumpStep, GatherStep, ListStep,
     StopStep, RemoveStep, AskedStep, CommitStep, ScanStopStep DEF CredentialNext
<1> QED BY <1>1, <1>2

-----------------------------------------------------------------------------
LEMMA Agreement == ASSUME CredentialInv PROVE AloneAgree /\ ListCovers
<1>1. AloneAgree
  BY DEF CredentialInv, Agree, AloneAgree, Busy
<1>2. ASSUME NEW p \in Provider, ~lost, record[p].valid, file[p] \in Version, Busy(p) = {}
      PROVE  p \in listed
  <2>1. Typed /\ Covered(p)
    BY DEF CredentialInv
  <2>2. ASSUME NEW w \in Worker, step[w].at \in {"open", "dump", "gather", "list"}, step[w].pv = p
        PROVE  FALSE
    <3>1. Serving(w)
      BY <2>1, <2>2, Places
    <3> QED BY <1>2, <2>2, <3>1 DEF Busy
  <2> QED BY <1>2, <2>1, <2>2 DEF Covered, Readable
<1> QED BY <1>1, <1>2 DEF ListCovers

\* Only the commit of a scan takes the validity of a row that stays.
LEMMA Blame ==
    ASSUME CredentialInv, [CredentialNext]_credentialVars, NEW p \in Provider,
           record[p].valid, ~record'[p].valid, record'[p] # NoRecord
    PROVE  \E w \in Worker :
             /\ scan[w] # NoScan /\ p \in scan[w].failed
             /\ scan[w].used[p] = record[p].ver \/ p \in scan[w].disturbed
<1>1. Typed
  BY DEF CredentialInv
<1>2. record'[p] # record[p]
  OBVIOUS
<1>3. ASSUME NEW w \in Worker, Store(w) PROVE record'[p] = record[p] \/ record'[p].valid
  BY <1>1, <1>3 DEF Store, Typed
<1>4. ASSUME NEW w \in Worker, NEW q \in Provider, DeleteRow(w, q)
      PROVE  record'[p] = record[p] \/ record'[p] = NoRecord
  BY <1>1, <1>4 DEF DeleteRow, Typed
<1>5. PICK w \in Worker : Commit(w)
  <2>1. CredentialNext
    BY <1>2 DEF credentialVars
  <2>2. ASSUME NEW w \in Worker,
               \/ \E q \in Provider : AddRead(w, q)
               \/ OpenFile(w) \/ DumpFile(w) \/ Gather(w) \/ ListAndScan(w) \/ AddStops(w)
               \/ \E done \in BOOLEAN : RemoveFiles(w, done)
               \/ \E q \in Provider, fails \in BOOLEAN : Asked(w, q, fails)
               \/ ScanStops(w)
        PROVE  FALSE
    BY <1>2, <2>2 DEF AddRead, OpenFile, DumpFile, Gather, ListAndScan, AddStops, RemoveFiles,
       Asked, ScanStops
  <2> QED BY <1>2, <1>3, <1>4, <2>1, <2>2 DEF CredentialNext
<1>6. p \in scan[w].failed /\ scan[w] # NoScan
  BY <1>1, <1>5, CommitRows DEF Commit
<1>7. ScanRow(w)
  BY DEF CredentialInv
<1> QED BY <1>6, <1>7 DEF ScanRow

\* Row, file and list of providers agree but for requests that met or stopped,
\* and a scan takes the validity of the credential that it has used, unless the
\* provider was changed while it ran.
THEOREM CredentialsAgreeHolds == CredentialSpec => CredentialsAgree
<1>1. CredentialInit => CredentialInv
  BY Starts
<1>2. CredentialInv /\ [CredentialNext]_credentialVars => CredentialInv'
  BY InvStep
<1>3. CredentialInv => AloneAgree /\ ListCovers
  BY Agreement
<1>4. CredentialInv /\ [CredentialNext]_credentialVars =>
        \A p \in Provider :
         record[p].valid /\ ~record'[p].valid /\ record'[p] # NoRecord =>
           \E w \in Worker :
             /\ scan[w] # NoScan /\ p \in scan[w].failed
             /\ scan[w].used[p] = record[p].ver \/ p \in scan[w].disturbed
  BY Blame
<1>5. CredentialSpec => []CredentialInv
  BY <1>1, <1>2, PTL DEF CredentialSpec
<1>6. CredentialSpec => [](AloneAgree /\ ListCovers)
  BY <1>3, <1>5, PTL
<1>7. CredentialSpec => ErrorsBlameUsed
  BY <1>4, <1>5, PTL DEF CredentialSpec, ErrorsBlameUsed
<1> QED BY <1>6, <1>7 DEF CredentialsAgree
=============================================================================
