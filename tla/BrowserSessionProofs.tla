------------------------- MODULE BrowserSessionProofs -------------------------
(***************************************************************************)
(* What holds of a tab and the sessions of the API for every number of     *)
(* users, workspaces, calls and queries.  The inductive invariant says     *)
(* where a token may come from and what it is worth, what a call or a      *)
(* query in flight may still bring, and what the tab may show of a         *)
(* workspace that was just joined.                                         *)
(***************************************************************************)
EXTENDS BrowserSession, TLAPS


\* Most leaves are set theory for Zenon; those that need more cite SMT.
USE ZenonT(30)


\* A token has the stamp of the password its holder proved, and of none that
\* its account does not have yet; pw are the passwords.
Issued(pw, t) == t \in Tokens /\ t.stamp = t.proved /\ t.stamp <= pw[t.user]

\* The tab holds an issued token, and counts its user.
TokenSound == token # None => Issued(password, token) /\ token.user \in held

Steps == {"sent", "checked", "granted", "refused", "confirm"}
CallRecords ==
    [user : Users, token : Tokens \cup {None}, typed : Passwords, step : Steps,
     given : Tokens \cup {None}, awaited : BOOLEAN]

\* What the call r of the kind c may bring, with the passwords pw and the
\* members mem: Login has checked a password that the account has or had, a
\* token is issued, and an accepted invite is the guest's.
CallSound(pw, mem, c, r) ==
    /\ r \in CallRecords
    /\ c = "login" /\ r.step = "checked" => r.typed <= pw[r.user]
    /\ c # "accept" /\ r.step = "granted" => Issued(pw, r.given)
    /\ c = "accept" /\ r.step = "granted" => r.user = Guest /\ Guest \in mem[Offered]

CallsSound ==
    /\ DOMAIN calls = Calls
    /\ \A c \in Calls : calls[c] # None => CallSound(password, members, c, calls[c])

FetchRecords ==
    [token : Tokens, scope : Keys, answer : {"none", "ok", "unauthorized"},
     rows : SUBSET Workspaces]

\* What the query f with the key k may bring, in a sitting of the users hd: it
\* is for its key, carries a token the tab held in this sitting, and a token
\* that was refused stays refused.
FetchSound(pw, hd, k, f) ==
    /\ f \in FetchRecords
    /\ f.scope = k
    /\ f.token.user \in hd
    /\ f.token.stamp <= pw[f.token.user]
    /\ f.answer = "unauthorized" => f.token.stamp < pw[f.token.user]

FetchesSound ==
    /\ DOMAIN fetches = Keys
    /\ \A k \in Keys : fetches[k] # None => FetchSound(password, held, k, fetches[k])

\* The query cache is of this sitting, and empty outside the dashboard.
CacheSound ==
    /\ DOMAIN stats = Workspaces
    /\ SittingsApart
    /\ view \notin Dashboard => list = None /\ fetches = NoFetches

\* After an accepted invite the guest is a member, the tab has the guest's
\* session and the workspace selected, and every list it has or gets has it.
JoinedSound ==
    joined # None =>
        /\ joined = Offered /\ selected = Offered /\ saved = Offered
        /\ token # None /\ token.user = Guest
        /\ Guest \in members[Offered]
        /\ list # None => Offered \in list.workspaces
        /\ \A k \in Keys : fetches[k] # None => fetches[k].token.user = Guest
        /\ fetches[0] # None /\ fetches[0].answer = "ok" => Offered \in fetches[0].rows

Inv ==
    /\ TypeOK
    /\ TokenSound
    /\ CallsSound
    /\ FetchesSound
    /\ CacheSound
    /\ JoinedSound

\* What the server may do: passwords are set anew and members join.
Grown(pw, pw2, mem, mem2) ==
    /\ pw \in [Users -> 0..MaxPassword] /\ pw2 \in [Users -> 0..MaxPassword]
    /\ \A u \in Users : pw[u] <= pw2[u]
    /\ mem \in [Workspaces -> SUBSET Users] /\ mem2 \in [Workspaces -> SUBSET Users]
    /\ \A w \in Workspaces : mem[w] \subseteq mem2[w]
-----------------------------------------------------------------------------
\* What a call may bring stands while the server goes on.
LEMMA IssuedKept ==
    ASSUME NEW pw, NEW pw2, NEW mem, NEW mem2, Grown(pw, pw2, mem, mem2), NEW t, Issued(pw, t)
    PROVE  Issued(pw2, t)
<1>1. t.user \in Users /\ t.stamp \in Nat /\ t \in Tokens /\ t.stamp <= pw[t.user]
  BY SessionAssumption, SMTT(30) DEF Issued, Tokens, Passwords
<1>2. pw[t.user] \in Nat /\ pw2[t.user] \in Nat /\ pw[t.user] <= pw2[t.user]
  BY <1>1, SessionAssumption, SMTT(30) DEF Grown
<1> QED
  BY <1>1, <1>2, SMTT(30) DEF Issued

\* A sound call stays sound as passwords are set and members join.
LEMMA CallKept ==
    ASSUME NEW pw, NEW pw2, NEW mem, NEW mem2, Grown(pw, pw2, mem, mem2), NEW c, NEW r,
           CallSound(pw, mem, c, r)
    PROVE  CallSound(pw2, mem2, c, r)
<1>1. r \in CallRecords /\ r.user \in Users /\ r.typed \in Nat
  BY SessionAssumption, SMTT(30) DEF CallSound, CallRecords, Passwords
<1>2. c = "login" /\ r.step = "checked" => r.typed <= pw2[r.user]
  <2>1. pw[r.user] \in Nat /\ pw2[r.user] \in Nat /\ pw[r.user] <= pw2[r.user]
    BY <1>1, SessionAssumption, SMTT(30) DEF Grown
  <2> QED
    BY <1>1, <2>1, SMTT(30) DEF CallSound
<1>3. c # "accept" /\ r.step = "granted" => Issued(pw2, r.given)
  BY IssuedKept DEF CallSound
<1>4. c = "accept" /\ r.step = "granted" => r.user = Guest /\ Guest \in mem2[Offered]
  BY SessionAssumption DEF CallSound, Grown
<1> QED
  BY <1>1, <1>2, <1>3, <1>4 DEF CallSound

\* The server moves the call c to the step s, with the grant g.
LEMMA CallsMoved ==
    ASSUME CallsSound, Grown(password, password', members, members'),
           NEW c \in Calls, calls[c] # None,
           NEW s \in Steps, NEW g \in Tokens \cup {None}, Move(c, s, g),
           c = "login" /\ s = "checked" => calls[c].typed <= password'[calls[c].user],
           c # "accept" /\ s = "granted" => Issued(password', g),
           c = "accept" /\ s = "granted" => calls[c].user = Guest /\ Guest \in members'[Offered]
    PROVE  CallsSound'
<1>1. calls[c] \in CallRecords
  BY DEF CallsSound, CallSound
<1>2. /\ DOMAIN calls' = Calls
      /\ \A d \in Calls \ {c} : calls'[d] = calls[d]
      /\ calls'[c] = [[calls[c] EXCEPT !.step = s] EXCEPT !.given = g]
  BY DEF CallsSound, Move
<1>3. /\ calls'[c] \in CallRecords /\ calls'[c].user = calls[c].user
      /\ calls'[c].typed = calls[c].typed /\ calls'[c].step = s /\ calls'[c].given = g
  BY <1>1, <1>2 DEF CallRecords
<1>4. CallSound(password', members', c, calls'[c])
  BY <1>3 DEF CallSound
<1>5. ASSUME NEW d \in Calls \ {c}, calls'[d] # None
      PROVE  CallSound(password', members', d, calls'[d])
  BY <1>2, <1>5, CallKept DEF CallsSound
<1> QED
  BY <1>2, <1>4, <1>5 DEF CallsSound

\* Calls end or are abandoned, and the server goes on.
LEMMA CallsFewer ==
    ASSUME CallsSound, Grown(password, password', members, members'),
           DOMAIN calls' = Calls,
           \A c \in Calls : calls'[c] \in {calls[c], None, Abandoned(c)}
    PROVE  CallsSound'
<1> SUFFICES ASSUME NEW c \in Calls, calls'[c] # None
             PROVE  CallSound(password', members', c, calls'[c])
  BY DEF CallsSound
<1>1. CASE calls'[c] = calls[c]
  BY <1>1, CallKept DEF CallsSound
<1>2. CASE calls'[c] = Abandoned(c) /\ calls[c] # None
  <2>1. /\ calls[c].step \in {"sent", "checked"} /\ c # "login"
        /\ calls'[c] = [calls[c] EXCEPT !.awaited = FALSE]
    BY <1>2 DEF Abandoned
  <2>2. calls[c] \in CallRecords
    BY <1>2 DEF CallsSound, CallSound
  <2>3. calls'[c] \in CallRecords /\ calls'[c].step \in {"sent", "checked"}
    BY <2>1, <2>2 DEF CallRecords
  <2> QED
    BY <2>1, <2>3 DEF CallSound
<1> QED
  BY <1>1, <1>2 DEF Abandoned

-----------------------------------------------------------------------------
\* A step that the tab sees nothing of but that a call was sent.
ServerStep ==
    /\ UNCHANGED <<storage, view, selected, cache, history>>
    /\ Grown(password, password', members, members')
    /\ CallsSound'

\* The server does not change, or nothing but a password or a member does.
LEMMA GrownSame ==
    ASSUME TypeOK, UNCHANGED server
    PROVE  Grown(password, password', members, members')
BY SessionAssumption, SMTT(30) DEF TypeOK, server, Grown

\* A password that is set anew only grows.
LEMMA GrownPassword ==
    ASSUME TypeOK, NEW u \in Users, NEW p \in 0..MaxPassword, password[u] <= p,
           password' = [password EXCEPT ![u] = p], UNCHANGED members
    PROVE  Grown(password, password', members, members') /\ password'[u] = p
BY SessionAssumption, SMTT(30) DEF TypeOK, Grown

\* A call that is sent is sound: nothing was granted yet.
LEMMA SendStep ==
    ASSUME Inv, NEW c \in Calls, NEW u \in Users, NEW t \in Tokens \cup {None}, NEW p \in Passwords,
           Send(c, u, t, p)
    PROVE  ServerStep
<1>1. /\ UNCHANGED <<storage, view, selected, cache, history>> /\ UNCHANGED server
      /\ calls' = [calls EXCEPT ![c] =
                      [user |-> u, token |-> t, typed |-> p, step |-> "sent",
                       given |-> None, awaited |-> TRUE]]
  BY DEF Send
<1>2. Grown(password, password', members, members')
  BY <1>1, GrownSame DEF Inv
<1>3. /\ DOMAIN calls' = Calls
      /\ \A d \in Calls \ {c} : calls'[d] = calls[d]
      /\ calls'[c] \in CallRecords /\ calls'[c].step = "sent"
  BY <1>1 DEF Inv, CallsSound, CallRecords, Steps
<1>4. CallSound(password', members', c, calls'[c])
  BY <1>3 DEF CallSound
<1>5. ASSUME NEW d \in Calls \ {c}, calls'[d] # None
      PROVE  CallSound(password', members', d, calls'[d])
  BY <1>2, <1>3, <1>5, CallKept DEF Inv, CallsSound
<1>6. CallsSound'
  BY <1>3, <1>4, <1>5 DEF CallsSound
<1> QED
  BY <1>1, <1>2, <1>6 DEF ServerStep

\* Each form sends a call for an account, with the token of the tab.
LEMMA SubmitStep ==
    ASSUME Inv,
           \/ \E u \in Users : SubmitSignup(u) \/ \E p \in Passwords : SubmitLogin(u, p)
           \/ \E p \in Passwords : SubmitPassword(p)
           \/ SubmitAccept
    PROVE  ServerStep
<1>1. /\ {"login", "signup", "password", "accept"} \subseteq Calls
      /\ 1 \in Passwords /\ None \in Tokens \cup {None}
  BY SessionAssumption, SMTT(30) DEF Calls, Passwords
<1>2. view = "settings" \/ token # None => token \in Tokens /\ token.user \in Users
  BY DEF Inv, TypeOK, Tokens
<1>3. CASE \E u \in Users : SubmitSignup(u)
  BY <1>1, <1>3, SendStep DEF SubmitSignup
<1>4. CASE \E u \in Users, p \in Passwords : SubmitLogin(u, p)
  BY <1>1, <1>4, SendStep DEF SubmitLogin
<1>5. CASE \E p \in Passwords : SubmitPassword(p)
  BY <1>1, <1>2, <1>5, SendStep DEF SubmitPassword
<1>6. CASE SubmitAccept
  BY <1>1, <1>2, <1>6, SendStep DEF SubmitAccept
<1> QED
  BY <1>3, <1>4, <1>5, <1>6

\* A call that is checked was typed with the password the account had.
LEMMA CheckStep ==
    ASSUME Inv, NEW c \in Calls, Check(c)
    PROVE  ServerStep
<1>1. /\ UNCHANGED <<storage, view, selected, cache, history>> /\ UNCHANGED server
      /\ calls[c] # None
      /\ \/ Move(c, "checked", None) /\ calls[c].typed = password[calls[c].user]
         \/ Move(c, "refused", None)
  BY DEF Check, In
<1>2. Grown(password, password', members, members') /\ password' = password
  BY <1>1, GrownSame DEF Inv, server
<1>3. calls[c].typed \in Nat
  BY <1>1, SessionAssumption, SMTT(30) DEF Inv, CallsSound, CallSound, CallRecords, Passwords
<1>4. None \in Tokens \cup {None} /\ "checked" \in Steps /\ "refused" \in Steps
  BY DEF Steps
<1>5. CASE Move(c, "checked", None) /\ calls[c].typed = password[calls[c].user]
  <2>1. calls[c].typed <= password'[calls[c].user]
    BY <1>2, <1>3, <1>5, SMTT(30)
  <2>2. CallsSound'
    BY <1>1, <1>2, <1>4, <1>5, <2>1, CallsMoved DEF Inv
  <2> QED
    BY <1>1, <1>2, <2>2 DEF ServerStep
<1>6. CASE Move(c, "refused", None)
  <2>1. CallsSound'
    BY <1>1, <1>2, <1>4, <1>6, CallsMoved DEF Inv
  <2> QED
    BY <1>1, <1>2, <2>1 DEF ServerStep
<1> QED
  BY <1>1, <1>5, <1>6

\* Login grants a token with the stamp of the hash that was checked.
LEMMA IssueStep ==
    ASSUME Inv, IssueLogin
    PROVE  ServerStep
<1> DEFINE r == calls["login"]
           g == [user |-> r.user, stamp |-> r.typed, proved |-> r.typed]
<1>1. /\ UNCHANGED <<storage, view, selected, cache, history>> /\ UNCHANGED server
      /\ r # None /\ r.step = "checked" /\ Move("login", "granted", g)
  BY DEF IssueLogin, In
<1>2. Grown(password, password', members, members') /\ password' = password
  BY <1>1, GrownSame DEF Inv, server
<1>3. "login" \in Calls /\ "granted" \in Steps
  BY DEF Calls, Steps
<1>4. r \in CallRecords /\ r.typed <= password[r.user]
  BY <1>1, <1>3 DEF Inv, CallsSound, CallSound
<1>5. g \in Tokens /\ Issued(password', g)
  BY <1>2, <1>4 DEF Tokens, CallRecords, Issued
<1> HIDE DEF g
<1>6. CallsSound'
  BY <1>1, <1>2, <1>3, <1>5, CallsMoved DEF Inv
<1> QED
  BY <1>1, <1>2, <1>6 DEF ServerStep

\* ChangePassword grants a token with the stamp of the hash it wrote.
LEMMA WriteStep ==
    ASSUME Inv, WritePassword
    PROVE  ServerStep
<1> DEFINE u == calls["password"].user
           new == password[u] + 1
           g == [user |-> u, stamp |-> new, proved |-> new]
<1>1. /\ UNCHANGED <<storage, view, selected, cache, history>> /\ UNCHANGED members
      /\ calls["password"] # None /\ new \in Passwords
      /\ password' = [password EXCEPT ![u] = new] /\ Move("password", "granted", g)
  BY DEF WritePassword, In
<1>2. "password" \in Calls /\ "granted" \in Steps
  BY DEF Calls, Steps
<1>3. u \in Users
  BY <1>1, <1>2 DEF Inv, CallsSound, CallSound, CallRecords
<1>4. password[u] \in Nat /\ new \in 0..MaxPassword /\ password[u] <= new /\ new \in Nat
  BY <1>1, <1>3, SessionAssumption, SMTT(30) DEF Inv, TypeOK, Passwords
<1>5. Grown(password, password', members, members') /\ password'[u] = new
  <2> HIDE DEF u, new
  <2> QED
    BY <1>1, <1>3, <1>4, GrownPassword DEF Inv
<1>6. g \in Tokens /\ Issued(password', g)
  BY <1>1, <1>3, <1>4, <1>5, SMTT(30) DEF Tokens, Issued
<1> HIDE DEF g, u, new
<1>7. CallsSound'
  BY <1>1, <1>2, <1>5, <1>6, CallsMoved DEF Inv
<1> QED
  BY <1>1, <1>5, <1>7 DEF ServerStep

\* Register grants a token to an account that had no password.
LEMMA RegisterStep ==
    ASSUME Inv, Register
    PROVE  ServerStep
<1> DEFINE u == calls["signup"].user
           g == [user |-> u, stamp |-> 1, proved |-> 1]
<1>1. /\ UNCHANGED <<storage, view, selected, cache, history>> /\ UNCHANGED members
      /\ calls["signup"] # None
      /\ \/ Move("signup", "refused", None) /\ UNCHANGED password
         \/ /\ password[u] = 0 /\ password' = [password EXCEPT ![u] = 1]
            /\ Move("signup", "granted", g) \/ Move("signup", "confirm", None)
  BY DEF Register, In
<1>2. /\ "signup" \in Calls /\ {"granted", "refused", "confirm"} \subseteq Steps
      /\ None \in Tokens \cup {None} /\ 1 \in Passwords /\ 1 \in 0..MaxPassword
  BY SessionAssumption, SMTT(30) DEF Calls, Steps, Passwords
<1>3. u \in Users
  BY <1>1, <1>2 DEF Inv, CallsSound, CallSound, CallRecords
<1>4. CASE Move("signup", "refused", None) /\ UNCHANGED password
  <2>1. Grown(password, password', members, members')
    BY <1>1, <1>4, GrownSame DEF Inv, server
  <2>2. CallsSound'
    BY <1>1, <1>2, <1>4, <2>1, CallsMoved DEF Inv
  <2> QED
    BY <1>1, <2>1, <2>2 DEF ServerStep
<1>5. CASE /\ password[u] = 0 /\ password' = [password EXCEPT ![u] = 1]
           /\ Move("signup", "granted", g) \/ Move("signup", "confirm", None)
  <2>1. Grown(password, password', members, members') /\ password'[u] = 1
    <3>1. password[u] <= 1
      BY <1>5, SMTT(30)
    <3> HIDE DEF u
    <3> QED
      BY <1>1, <1>2, <1>3, <1>5, <3>1, GrownPassword DEF Inv
  <2>2. g \in Tokens /\ Issued(password', g)
    BY <1>2, <1>3, <2>1, SMTT(30) DEF Tokens, Issued
  <2> HIDE DEF g
  <2>3. CallsSound'
    BY <1>1, <1>2, <1>5, <2>1, <2>2, CallsMoved DEF Inv
  <2> QED
    BY <1>1, <2>1, <2>3 DEF ServerStep
<1> QED
  BY <1>1, <1>4, <1>5

\* AcceptInvite grants what is asked once the guest is a member.
LEMMA AcceptStep ==
    ASSUME Inv, AcceptInvite
    PROVE  ServerStep
<1> DEFINE r == calls["accept"]
<1>1. /\ UNCHANGED <<storage, view, selected, cache, history>> /\ UNCHANGED password
      /\ r # None
      /\ \/ /\ r.user = Guest /\ members' = [members EXCEPT ![Offered] = @ \cup {Guest}]
            /\ Move("accept", "granted", None)
         \/ Move("accept", "refused", None) /\ UNCHANGED members
  BY DEF AcceptInvite, In
<1>2. /\ "accept" \in Calls /\ {"granted", "refused"} \subseteq Steps
      /\ None \in Tokens \cup {None}
  BY DEF Calls, Steps
<1>3. CASE /\ r.user = Guest /\ members' = [members EXCEPT ![Offered] = @ \cup {Guest}]
           /\ Move("accept", "granted", None)
  <2>1. Grown(password, password', members, members') /\ Guest \in members'[Offered]
    BY <1>1, <1>3, SessionAssumption, SMTT(30) DEF Inv, TypeOK, Grown
  <2>2. CallsSound'
    BY <1>1, <1>2, <1>3, <2>1, CallsMoved DEF Inv
  <2> QED
    BY <1>1, <2>1, <2>2 DEF ServerStep
<1>4. CASE Move("accept", "refused", None) /\ UNCHANGED members
  <2>1. Grown(password, password', members, members')
    BY <1>1, <1>4, GrownSame DEF Inv, server
  <2>2. CallsSound'
    BY <1>1, <1>2, <1>4, <2>1, CallsMoved DEF Inv
  <2> QED
    BY <1>1, <2>1, <2>2 DEF ServerStep
<1> QED
  BY <1>1, <1>3, <1>4

\* A password that is set elsewhere grows, and grants nothing here.
LEMMA ElsewhereStep ==
    ASSUME Inv, NEW u \in Users, ChangeElsewhere(u)
    PROVE  ServerStep
<1>1. /\ UNCHANGED <<storage, view, selected, cache, history>> /\ UNCHANGED <<members, calls>>
      /\ password[u] \in 1..(MaxPassword - 1)
      /\ password' = [password EXCEPT ![u] = password[u] + 1]
  BY DEF ChangeElsewhere
<1>2. password[u] + 1 \in 0..MaxPassword /\ password[u] <= password[u] + 1
  BY <1>1, SessionAssumption, SMTT(30)
<1>3. Grown(password, password', members, members')
  BY <1>1, <1>2, GrownPassword DEF Inv
<1>4. CallsSound'
  BY <1>1, <1>3, CallsFewer DEF Inv, CallsSound
<1> QED
  BY <1>1, <1>3, <1>4 DEF ServerStep

\* A call that is over or given up is granted nothing more.
LEMMA OverStep ==
    ASSUME Inv, NEW c \in Calls, Over(c) \/ Timeout(c)
    PROVE  ServerStep
<1>1. /\ UNCHANGED <<storage, view, selected, cache, history>> /\ UNCHANGED server
      /\ \/ calls' = [calls EXCEPT ![c] = None]
         \/ calls' = [calls EXCEPT ![c] = Abandoned(c)]
  BY DEF Over, Timeout
<1>2. Grown(password, password', members, members')
  BY <1>1, GrownSame DEF Inv
<1>3. /\ DOMAIN calls' = Calls
      /\ \A d \in Calls : calls'[d] \in {calls[d], None, Abandoned(d)}
  BY <1>1 DEF Inv, CallsSound
<1>4. CallsSound'
  BY <1>2, <1>3, CallsFewer DEF Inv
<1> QED
  BY <1>1, <1>2, <1>4 DEF ServerStep

\* Whatever the server does, what the tab may rely on stands.
LEMMA FetchKept ==
    ASSUME NEW pw, NEW pw2, NEW mem, NEW mem2, Grown(pw, pw2, mem, mem2),
           NEW hd, NEW hd2, hd \subseteq hd2, NEW k, NEW f, FetchSound(pw, hd, k, f)
    PROVE  FetchSound(pw2, hd2, k, f)
<1>1. f.token.user \in Users /\ f.token.stamp \in Nat
  BY SessionAssumption, SMTT(30) DEF FetchSound, FetchRecords, Tokens, Passwords
<1>2. pw[f.token.user] \in Nat /\ pw2[f.token.user] \in Nat /\ pw[f.token.user] <= pw2[f.token.user]
  BY <1>1, SessionAssumption, SMTT(30) DEF Grown
<1> QED
  BY <1>1, <1>2, SMTT(30) DEF FetchSound

\* What only the server and the calls change keeps the invariant.
LEMMA ServerKeeps ==
    ASSUME Inv, ServerStep
    PROVE  Inv'
<1>1. /\ token' = token /\ email' = email /\ saved' = saved /\ invite' = invite
      /\ view' = view /\ selected' = selected /\ list' = list /\ stats' = stats
      /\ fetches' = fetches /\ held' = held /\ joined' = joined /\ asked' = asked
  BY DEF ServerStep, storage, cache, history
<1>2. Grown(password, password', members, members')
  BY DEF ServerStep
<1>3. CallsSound'
  BY DEF ServerStep
<1>4. TypeOK'
  BY <1>1, <1>2, <1>3 DEF Inv, TypeOK, Grown, CallsSound
<1>5. TokenSound'
  BY <1>1, <1>2, IssuedKept DEF Inv, TokenSound
<1>6. FetchesSound'
  BY <1>1, <1>2, FetchKept DEF Inv, FetchesSound
<1>7. CacheSound'
  BY <1>1 DEF Inv, CacheSound, SittingsApart, NoFetches
<1>8. JoinedSound'
  BY <1>1, <1>2, SessionAssumption DEF Inv, JoinedSound, Grown
<1> QED
  BY <1>3, <1>4, <1>5, <1>6, <1>7, <1>8 DEF Inv

-----------------------------------------------------------------------------
\* A step of the queries, on the dashboard.
QueryStep ==
    /\ UNCHANGED <<server, storage, view, selected, calls, history>>
    /\ view \in Dashboard
    /\ DOMAIN stats' = Workspaces
    /\ FetchesSound'
    /\ SittingsApart'
    /\ JoinedSound'

\* What only the query cache changes keeps the invariant.
LEMMA QueryKeeps ==
    ASSUME Inv, QueryStep
    PROVE  Inv'
<1>1. /\ token' = token /\ email' = email /\ saved' = saved /\ invite' = invite
      /\ view' = view /\ selected' = selected /\ calls' = calls /\ password' = password
      /\ members' = members /\ held' = held /\ joined' = joined /\ asked' = asked
  BY DEF QueryStep, server, storage, history
<1>2. TypeOK'
  BY <1>1 DEF Inv, TypeOK
<1>3. TokenSound'
  BY <1>1 DEF Inv, TokenSound
<1>4. CallsSound'
  BY <1>1 DEF Inv, CallsSound
<1>5. CacheSound'
  BY <1>1 DEF QueryStep, CacheSound
<1> QED
  BY <1>2, <1>3, <1>4, <1>5 DEF Inv, QueryStep

\* A query in flight is one of the dashboard.
LEMMA InFlight ==
    ASSUME Inv, NEW k \in Keys, fetches[k] # None
    PROVE  view \in Dashboard /\ FetchSound(password, held, k, fetches[k])
BY DEF Inv, CacheSound, FetchesSound, NoFetches

\* The query k becomes f, while the rest of the tab stays.
LEMMA QueryBecomes ==
    ASSUME Inv, UNCHANGED <<server, storage, view, selected, calls, history>>, view \in Dashboard,
           NEW k \in Keys, NEW f, fetches' = [fetches EXCEPT ![k] = f],
           f # None => FetchSound(password, held, k, f),
           f # None /\ joined # None => f.token.user = Guest,
           f # None /\ joined # None /\ k = 0 /\ f.answer = "ok" => Offered \in f.rows,
           DOMAIN stats' = Workspaces, SittingsApart',
           joined # None /\ list' # None => Offered \in list'.workspaces
    PROVE  Inv'
<1>1. /\ token' = token /\ saved' = saved /\ selected' = selected /\ password' = password
      /\ members' = members /\ held' = held /\ joined' = joined
  BY DEF server, storage, history
<1>2. /\ DOMAIN fetches' = Keys /\ fetches'[k] = f
      /\ \A q \in Keys \ {k} : fetches'[q] = fetches[q]
  BY DEF Inv, FetchesSound
<1>3. FetchesSound'
  BY <1>1, <1>2 DEF Inv, FetchesSound
<1>4. JoinedSound'
  <2> SUFFICES ASSUME joined # None
               PROVE  JoinedSound'
    BY <1>1 DEF JoinedSound
  <2>1. \A q \in Keys : fetches'[q] # None => fetches'[q].token.user = Guest
    BY <1>2 DEF Inv, JoinedSound
  <2>2. 0 \in Keys
    BY DEF Keys
  <2>3. fetches'[0] # None /\ fetches'[0].answer = "ok" => Offered \in fetches'[0].rows
    BY <1>2, <2>2 DEF Inv, JoinedSound
  <2> QED
    BY <1>1, <2>1, <2>3 DEF Inv, JoinedSound
<1>5. QueryStep
  BY <1>3, <1>4 DEF QueryStep
<1> QED
  BY <1>5, QueryKeeps

\* A query starts with the token of the tab.
LEMMA FetchStep ==
    ASSUME Inv, NEW k \in Keys, Fetch(k)
    PROVE  Inv'
<1> DEFINE f == [token |-> token, scope |-> k, answer |-> "none", rows |-> {}]
<1>1. /\ UNCHANGED <<server, storage, view, selected, calls, history>> /\ view \in Dashboard
      /\ fetches' = [fetches EXCEPT ![k] = f] /\ UNCHANGED <<list, stats>>
  BY DEF Fetch
<1>2. token \in Tokens /\ token # None
  BY <1>1 DEF Inv, TypeOK, Dashboard
<1>3. FetchSound(password, held, k, f)
  BY <1>2 DEF Inv, TokenSound, Issued, FetchSound, FetchRecords
<1>4. joined # None => f.token.user = Guest
  BY DEF Inv, JoinedSound
<1>5. f.answer # "ok"
  OBVIOUS
<1>6. DOMAIN stats' = Workspaces /\ SittingsApart' /\ held' = held
  BY <1>1 DEF Inv, CacheSound, SittingsApart, history
<1>7. joined # None /\ list' # None => Offered \in list'.workspaces
  BY <1>1 DEF Inv, JoinedSound
<1> HIDE DEF f
<1> QED
  BY <1>1, <1>3, <1>4, <1>5, <1>6, <1>7, QueryBecomes

\* The server answers a query for the account of its token.
LEMMA ServeStep ==
    ASSUME Inv, NEW k \in Keys, Serve(k)
    PROVE  Inv'
<1> DEFINE t == fetches[k].token
           ans == IF Live(t) THEN "ok" ELSE "unauthorized"
           found == {w \in Workspaces : k = 0 /\ Live(t) /\ t.user \in members[w]}
           f == [[fetches[k] EXCEPT !.answer = ans] EXCEPT !.rows = found]
<1>1. /\ UNCHANGED <<server, storage, view, selected, calls, history>> /\ fetches[k] # None
      /\ UNCHANGED <<list, stats>>
  BY DEF Serve
<1>2. view \in Dashboard /\ FetchSound(password, held, k, fetches[k])
  BY <1>1, InFlight
<1>3. fetches' = [fetches EXCEPT ![k] = f]
  BY DEF Serve, Inv, FetchesSound
<1>4. /\ f \in FetchRecords /\ f.token = t /\ f.scope = fetches[k].scope
      /\ f.answer = ans /\ f.rows = found
  BY <1>2 DEF FetchSound, FetchRecords
<1>5. ~Live(t) => t.stamp < password[t.user]
  <2>1. t.user \in Users /\ t.stamp \in Nat /\ t.stamp <= password[t.user]
    BY <1>2, SessionAssumption, SMTT(30) DEF FetchSound, FetchRecords, Tokens, Passwords
  <2>2. password[t.user] \in Nat
    BY <2>1, SessionAssumption, SMTT(30) DEF Inv, TypeOK
  <2> QED
    BY <2>1, <2>2, SMTT(30) DEF Live
<1>6. FetchSound(password, held, k, f)
  BY <1>2, <1>4, <1>5, SMTT(30) DEF FetchSound
<1>7. joined # None => f.token.user = Guest
  BY <1>1, <1>4 DEF Inv, JoinedSound
<1>8. joined # None /\ k = 0 /\ f.answer = "ok" => Offered \in f.rows
  BY <1>4, <1>7, SessionAssumption, SMTT(30) DEF Inv, JoinedSound
<1>9. DOMAIN stats' = Workspaces /\ SittingsApart'
  BY <1>1 DEF Inv, CacheSound, SittingsApart, history
<1>10. joined # None /\ list' # None => Offered \in list'.workspaces
  BY <1>1 DEF Inv, JoinedSound
<1> HIDE DEF f
<1> QED
  BY <1>1, <1>2, <1>3, <1>6, <1>7, <1>8, <1>9, <1>10, QueryBecomes

\* A query that fails is forgotten.
LEMMA UnavailableStep ==
    ASSUME Inv, NEW k \in Keys, Unavailable(k)
    PROVE  Inv'
<1>1. /\ UNCHANGED <<server, storage, view, selected, calls, history>> /\ fetches[k] # None
      /\ fetches' = [fetches EXCEPT ![k] = None] /\ UNCHANGED <<list, stats>>
  BY DEF Unavailable
<1>2. view \in Dashboard
  BY <1>1, InFlight
<1>3. DOMAIN stats' = Workspaces /\ SittingsApart'
  BY <1>1 DEF Inv, CacheSound, SittingsApart, history
<1>4. joined # None /\ list' # None => Offered \in list'.workspaces
  BY <1>1 DEF Inv, JoinedSound
<1> QED
  BY <1>1, <1>2, <1>3, <1>4, QueryBecomes

\* An answer is applied to the cache of the sitting that asked for it.
LEMMA AppliedStep ==
    ASSUME Inv, NEW k \in Keys, fetches[k] # None, fetches[k].answer = "ok", Answer(k)
    PROVE  Inv'
<1> DEFINE f == fetches[k]
<1>1. /\ UNCHANGED <<server, storage, view, selected, calls, history>>
      /\ fetches' = [fetches EXCEPT ![k] = None]
      /\ IF k = 0
         THEN list' = [user |-> f.token.user, workspaces |-> f.rows] /\ UNCHANGED stats
         ELSE /\ stats' = [stats EXCEPT ![k] = [user |-> f.token.user, scope |-> f.scope]]
              /\ UNCHANGED list
  BY DEF Answer
<1>2. view \in Dashboard /\ FetchSound(password, held, k, f)
  BY InFlight
<1>3. f.token.user \in held /\ f.scope = k /\ held' = held
  BY <1>1, <1>2 DEF FetchSound, history
<1>4. DOMAIN stats' = Workspaces
  BY <1>1 DEF Inv, CacheSound
<1>5. list' # None => list'.user \in held'
  BY <1>1, <1>3, SMTT(30) DEF Inv, CacheSound, SittingsApart
<1>6. ASSUME NEW w \in Workspaces, stats'[w] # None
      PROVE  stats'[w].user \in held' /\ stats'[w].scope = w
  BY <1>1, <1>3, <1>6, SMTT(30) DEF Inv, CacheSound, SittingsApart
<1>7. SittingsApart'
  BY <1>5, <1>6 DEF SittingsApart
<1>8. joined # None /\ list' # None => Offered \in list'.workspaces
  BY <1>1, SMTT(30) DEF Inv, JoinedSound
<1> QED
  BY <1>1, <1>2, <1>4, <1>7, <1>8, QueryBecomes
-----------------------------------------------------------------------------
\* A cache that was emptied belongs to any sitting.
LEMMA Emptied ==
    ASSUME list' = None, stats' = NoStats, fetches' = NoFetches
    PROVE  FetchesSound' /\ CacheSound'
BY DEF FetchesSound, CacheSound, SittingsApart, NoStats, NoFetches

\* Signing out empties the cache with the history of its tokens.
LEMMA LogoutKeeps ==
    ASSUME Inv, NEW v \in {"login", "invite"}, v = "invite" => view = "invite", NEW b \in BOOLEAN,
           HandleLogout(v, b), UNCHANGED <<server, calls>>
    PROVE  Inv'
<1>1. /\ token' = None /\ email' = None /\ saved' = None /\ view' = v /\ selected' = None
      /\ held' = {} /\ joined' = None /\ asked' = b /\ invite' = invite
      /\ password' = password /\ members' = members /\ calls' = calls
  BY DEF HandleLogout, server
<1>2. FetchesSound' /\ CacheSound'
  BY Emptied DEF HandleLogout
<1>3. TypeOK'
  BY <1>1 DEF Inv, TypeOK
<1>4. TokenSound' /\ JoinedSound'
  BY <1>1 DEF TokenSound, JoinedSound
<1>5. CallsSound'
  BY <1>1 DEF Inv, CallsSound
<1> QED
  BY <1>2, <1>3, <1>4, <1>5 DEF Inv

\* The user may sign out at any time.
LEMMA SignOutStep ==
    ASSUME Inv, SignOut
    PROVE  Inv'
<1>1. HandleLogout(IF view = "invite" THEN "invite" ELSE "login", TRUE) /\ UNCHANGED <<server, calls>>
  BY DEF SignOut
<1> QED
  BY <1>1, LogoutKeeps

\* An answer is cached for the account that fetched it, or ends the session.
LEMMA AnswerStep ==
    ASSUME Inv, NEW k \in Keys, Answer(k)
    PROVE  Inv'
<1>1. CASE fetches[k].answer = "ok"
  BY <1>1, AppliedStep DEF Answer
<1>2. CASE fetches[k].answer # "ok"
  <2>1. HandleLogout("login", FALSE) /\ UNCHANGED <<server, calls>>
    BY <1>2 DEF Answer
  <2> QED
    BY <2>1, LogoutKeeps
<1> QED
  BY <1>1, <1>2

\* A token that was issued is stored, whoever the tab belonged to.
LEMMA LoginKeeps ==
    ASSUME Inv, NEW t, Issued(password, t), NEW e \in Users \cup {None}, HandleLogin(t, e),
           UNCHANGED server, CallsSound'
    PROVE  Inv'
<1>0. t \in Tokens /\ t # None /\ t.user \in Users
  BY NoneAssumption DEF Issued, Tokens
<1>1. /\ token' = t /\ email' = e /\ held' = held \cup {t.user} /\ asked' = FALSE
      /\ joined' = IF token # None /\ token.user = t.user THEN joined ELSE None
      /\ invite' = invite /\ list' = list /\ stats' = stats /\ fetches' = fetches
      /\ saved' = saved /\ password' = password /\ members' = members
  BY DEF HandleLogin, server, cache
<1>2. \/ token # None /\ view' = view /\ selected' = selected
      \/ token = None /\ invite /\ view' = "invite" /\ selected' = selected
      \/ token = None /\ view' \in Dashboard /\ selected' = saved
  BY DEF HandleLogin, Mount
<1>3. TypeOK'
  <2>0. /\ token # None => view \in Dashboard \cup {"invite"}
        /\ view = "invite" => invite
    BY DEF Inv, TypeOK
  <2>1. view' \in Dashboard \cup {"invite"} /\ (view' = "invite" => invite')
    <3>1. view' \in Dashboard \cup {"invite"}
      BY <1>2, <2>0
    <3>2. "invite" \notin Dashboard
      BY DEF Dashboard
    <3>3. view' = "invite" => invite
      BY <1>2, <2>0, <3>2
    <3> QED
      BY <1>1, <3>1, <3>3
  <2>2. /\ token' \in Tokens \cup {None} /\ token' # None /\ email' \in Users \cup {None}
        /\ {saved', selected', joined'} \subseteq Workspaces \cup {None}
        /\ held' \subseteq Users /\ asked' \in BOOLEAN
    BY <1>0, <1>1, <1>2 DEF Inv, TypeOK
  <2>3. DOMAIN calls' = Calls
    BY DEF CallsSound
  <2> QED
    BY <1>1, <2>1, <2>2, <2>3 DEF Inv, TypeOK
<1>4. TokenSound'
  BY <1>1 DEF TokenSound
<1>5. FetchesSound'
  <2>1. Grown(password, password', members, members')
    BY GrownSame DEF Inv
  <2>2. held \subseteq held'
    BY <1>1
  <2> QED
    BY <1>1, <2>1, <2>2, FetchKept, SMTT(30) DEF Inv, FetchesSound
<1>6. CacheSound'
  <2>1. token = None => view \in {"login", "signup", "invite"}
    BY DEF Inv, TypeOK
  <2>2. token = None => view \notin Dashboard
    BY <2>1 DEF Dashboard
  <2>3. view' \notin Dashboard => view \notin Dashboard
    BY <1>2, <2>2
  <2> QED
    BY <1>1, <2>3 DEF Inv, CacheSound, SittingsApart, NoFetches
<1>7. JoinedSound'
  <2> SUFFICES ASSUME joined' # None
               PROVE  JoinedSound'
    BY DEF JoinedSound
  <2>1. token # None /\ token.user = t.user /\ joined' = joined /\ selected' = selected
    BY <1>1, <1>2
  <2> QED
    BY <1>0, <1>1, <2>1 DEF Inv, JoinedSound
<1> QED
  BY <1>3, <1>4, <1>5, <1>6, <1>7 DEF Inv

\* A granted token is stored, and its account joins the ones of the sitting.
LEMMA ArrivedStep ==
    ASSUME Inv, NEW c \in Calls, Arrived(c)
    PROVE  Inv'
<1> DEFINE e == IF c = "password" THEN email ELSE calls[c].user
<1>1. /\ c # "accept" /\ calls[c] # None /\ calls[c].step = "granted"
      /\ HandleLogin(calls[c].given, e)
      /\ calls' = [calls EXCEPT ![c] = None] /\ UNCHANGED server
  BY DEF Arrived, In
<1>2. Issued(password, calls[c].given) /\ e \in Users \cup {None}
  BY <1>1 DEF Inv, TypeOK, CallsSound, CallSound, CallRecords
<1>3. Grown(password, password', members, members')
  BY <1>1, GrownSame DEF Inv
<1>4. DOMAIN calls' = Calls /\ \A d \in Calls : calls'[d] \in {calls[d], None, Abandoned(d)}
  BY <1>1 DEF Inv, CallsSound
<1>5. CallsSound'
  BY <1>3, <1>4, CallsFewer DEF Inv
<1> HIDE DEF e
<1> QED
  BY <1>1, <1>2, <1>5, LoginKeeps

\* The page and the workspace on the screen change, and nothing is fetched; the
\* cache is left, or emptied on the way out of the dashboard.
LEMMA ScreenKeeps ==
    ASSUME Inv, UNCHANGED <<server, token, email, cache, held, asked>>,
           CallsSound', TypeOK',
           view' \notin Dashboard => view \notin Dashboard,
           joined' # None => selected' = Offered /\ saved' = Offered,
           joined' # None => \/ joined' = joined
                             \/ /\ view \notin Dashboard /\ joined' = Offered
                                /\ token # None /\ token.user = Guest /\ Guest \in members[Offered]
    PROVE  Inv'
<1>1. /\ password' = password /\ members' = members /\ token' = token /\ held' = held
      /\ list' = list /\ stats' = stats /\ fetches' = fetches
  BY DEF server, cache
<1>2. TokenSound'
  BY <1>1 DEF Inv, TokenSound
<1>3. FetchesSound'
  BY <1>1 DEF Inv, FetchesSound
<1>4. CacheSound'
  BY <1>1 DEF Inv, CacheSound, SittingsApart, NoFetches
<1>5. JoinedSound'
  <2> SUFFICES ASSUME joined' # None
               PROVE  JoinedSound'
    BY DEF JoinedSound
  <2>1. CASE joined' = joined
    BY <1>1, <2>1 DEF Inv, JoinedSound
  <2>2. CASE /\ view \notin Dashboard /\ joined' = Offered
             /\ token # None /\ token.user = Guest /\ Guest \in members[Offered]
    <3>1. list' = None /\ \A k \in Keys : fetches'[k] = None
      BY <1>1, <2>2 DEF Inv, CacheSound, NoFetches
    <3>2. 0 \in Keys
      BY DEF Keys
    <3> QED
      BY <1>1, <2>2, <3>1, <3>2 DEF JoinedSound
  <2> QED
    BY <2>1, <2>2
<1> QED
  BY <1>2, <1>3, <1>4, <1>5 DEF Inv

\* The tab that has no session is on no page of the dashboard.
LEMMA NoSession ==
    ASSUME TypeOK
    PROVE  /\ view \in Dashboard => token # None
           /\ view = "invite" => view \notin Dashboard
<1>1. /\ token = None => view \in {"login", "signup", "invite"}
      /\ token # None => view \in {"overview", "settings", "invite"}
  BY DEF TypeOK, Dashboard
<1> QED
  BY <1>1 DEF Dashboard

\* Going to a page that needs no session keeps the invariant.
LEMMA VisitStep ==
    ASSUME Inv, NEW v \in {"login", "signup", "invite"}, Visit(v)
    PROVE  Inv'
<1>1. /\ token = None /\ (v = "invite" => invite) /\ view' = v
      /\ UNCHANGED <<server, storage, selected, cache, calls, history>>
  BY DEF Visit
<1>2. /\ UNCHANGED <<server, token, email, cache, held, asked>>
      /\ saved' = saved /\ selected' = selected /\ joined' = joined /\ invite' = invite
      /\ calls' = calls /\ password' = password /\ members' = members
      /\ token' = token /\ email' = email /\ held' = held /\ asked' = asked
  BY <1>1 DEF server, storage, history
<1>3. CallsSound'
  BY <1>2 DEF Inv, CallsSound
<1>4. TypeOK'
  BY <1>1, <1>2 DEF Inv, TypeOK
<1>5. view \notin Dashboard
  BY <1>1, NoSession DEF Inv
<1>6. joined' = None
  BY <1>1, <1>2 DEF Inv, JoinedSound
<1> QED
  BY <1>2, <1>3, <1>4, <1>5, <1>6, ScreenKeeps

\* Going to a page of the dashboard keeps the invariant.
LEMMA SetViewStep ==
    ASSUME Inv, NEW v \in Dashboard, SetView(v)
    PROVE  Inv'
<1>1. /\ view \in Dashboard /\ view' = v
      /\ UNCHANGED <<server, token, email, cache, held, asked>>
      /\ saved' = saved /\ selected' = selected /\ joined' = joined /\ invite' = invite
      /\ calls' = calls /\ password' = password /\ members' = members
      /\ token' = token /\ email' = email /\ held' = held /\ asked' = asked
  BY DEF SetView, server, history
<1>2. CallsSound'
  BY <1>1 DEF Inv, CallsSound
<1>3. TypeOK'
  <2>1. token # None /\ v # "invite"
    BY <1>1, NoSession DEF Inv, Dashboard
  <2> QED
    BY <1>1, <2>1 DEF Inv, TypeOK
<1>4. joined' # None => selected' = Offered /\ saved' = Offered
  BY <1>1 DEF Inv, JoinedSound
<1> QED
  BY <1>1, <1>2, <1>3, <1>4, ScreenKeeps

\* Selecting a workspace ends the expectation of the joined one.
LEMMA SelectStep ==
    ASSUME Inv, NEW w \in Workspaces, SelectWorkspace(w)
    PROVE  Inv'
<1>1. /\ UNCHANGED <<server, token, email, cache, held, asked>>
      /\ saved' = w /\ selected' = w /\ joined' = None /\ invite' = invite /\ view' = view
      /\ calls' = calls /\ password' = password /\ members' = members
      /\ token' = token /\ email' = email /\ held' = held /\ asked' = asked
  BY DEF SelectWorkspace, server
<1>2. CallsSound'
  BY <1>1 DEF Inv, CallsSound
<1>3. TypeOK'
  BY <1>1 DEF Inv, TypeOK
<1> QED
  BY <1>1, <1>2, <1>3, ScreenKeeps

\* Dismissing the invite keeps what was saved and selected.
LEMMA DismissStep ==
    ASSUME Inv, Dismiss
    PROVE  Inv'
<1>1. /\ view = "invite" /\ invite' = FALSE
      /\ UNCHANGED <<server, token, email, cache, held, asked>>
      /\ saved' = saved /\ joined' = joined
      /\ calls' = calls /\ password' = password /\ members' = members
      /\ token' = token /\ email' = email /\ held' = held /\ asked' = asked
      /\ \/ token # None /\ view' = "overview" /\ selected' = saved
         \/ token = None /\ view' = "login" /\ selected' = selected
  BY DEF Dismiss, Mount, server, history
<1>2. CallsSound'
  BY <1>1 DEF Inv, CallsSound
<1>3. TypeOK'
  <2>1. view' \in (IF token' = None THEN {"login", "signup"} ELSE Dashboard) \cup {"invite"} /\ view' # "invite"
    BY <1>1 DEF Dashboard
  <2> QED
    BY <1>1, <2>1 DEF Inv, TypeOK
<1>4. joined' # None => selected' = Offered /\ saved' = Offered
  BY <1>1 DEF Inv, JoinedSound
<1>5. view \notin Dashboard
  BY <1>1, NoSession DEF Inv
<1> QED
  BY <1>1, <1>2, <1>3, <1>4, <1>5, ScreenKeeps

\* The joined workspace is the saved and the selected one.
LEMMA AcceptedStep ==
    ASSUME Inv, Accepted
    PROVE  Inv'
<1>1. /\ calls["accept"] # None /\ calls["accept"].step = "granted"
      /\ saved' = Offered /\ invite' = FALSE
      /\ calls' = [calls EXCEPT !["accept"] = None]
      /\ UNCHANGED <<server, token, email, cache, held, asked>>
      /\ password' = password /\ members' = members
      /\ token' = token /\ email' = email /\ held' = held /\ asked' = asked
      /\ joined' = IF view = "invite" /\ token # None /\ token.user = calls["accept"].user
                   THEN Offered ELSE joined
      /\ \/ view # "invite" /\ view' = view /\ selected' = selected
         \/ view = "invite" /\ token = None /\ view' = "login" /\ selected' = selected
         \/ view = "invite" /\ token # None /\ view' = "overview" /\ selected' = Offered
  BY DEF Accepted, In, Mount, server
<1>2. CallsSound'
  <2>1. Grown(password, password', members, members')
    BY <1>1, GrownSame DEF Inv
  <2>2. DOMAIN calls' = Calls /\ \A d \in Calls : calls'[d] \in {calls[d], None, Abandoned(d)}
    BY <1>1 DEF Inv, CallsSound
  <2> QED
    BY <2>1, <2>2, CallsFewer DEF Inv
<1>3. calls["accept"].user = Guest /\ Guest \in members[Offered]
  BY <1>1 DEF Inv, CallsSound, CallSound, Calls
<1>4. TypeOK'
  <2>1. view' \in (IF token' = None THEN {"login", "signup"} ELSE Dashboard) \cup {"invite"} /\ view' # "invite"
    BY <1>1 DEF Inv, TypeOK, Dashboard
  <2>2. {saved', selected', joined'} \subseteq Workspaces \cup {None} /\ DOMAIN calls' = Calls
    BY <1>1, SessionAssumption DEF Inv, TypeOK
  <2> QED
    BY <1>1, <2>1, <2>2 DEF Inv, TypeOK
<1>5. view' \notin Dashboard => view \notin Dashboard
  BY <1>1, NoSession DEF Inv
<1>6. joined' # None => selected' = Offered
  BY <1>1 DEF Inv, JoinedSound
<1>7. \/ joined' = joined
      \/ /\ view \notin Dashboard /\ joined' = Offered
         /\ token # None /\ token.user = Guest
  BY <1>1, <1>3, NoSession DEF Inv
<1> QED
  BY <1>1, <1>2, <1>3, <1>4, <1>5, <1>6, <1>7, ScreenKeeps

\* A reload keeps what is in storage, and forgets the rest.
LEMMA LoadStep ==
    ASSUME Inv, NEW invited \in BOOLEAN, Load(invited)
    PROVE  Inv'
<1>1. /\ invite' = (invite \/ invited)
      /\ view' = IF invited THEN "invite" ELSE view
      /\ selected' = IF token = None THEN None ELSE saved
      /\ list' = None /\ stats' = NoStats /\ fetches' = NoFetches
      /\ held' = IF token = None THEN {} ELSE {token.user}
      /\ calls' = [c \in Calls |-> Abandoned(c)]
      /\ password' = password /\ members' = members /\ token' = token /\ email' = email
      /\ saved' = saved /\ joined' = joined /\ asked' = asked
  BY DEF Load, server
<1>2. FetchesSound' /\ CacheSound'
  BY <1>1, Emptied
<1>3. CallsSound'
  <2>1. Grown(password, password', members, members')
    BY <1>1, GrownSame DEF Inv, server
  <2>2. DOMAIN calls' = Calls /\ \A d \in Calls : calls'[d] \in {calls[d], None, Abandoned(d)}
    BY <1>1
  <2> QED
    BY <2>1, <2>2, CallsFewer DEF Inv
<1>4. TypeOK'
  <2>1. invite' \in BOOLEAN /\ (view' = "invite" => invite')
    BY <1>1 DEF Inv, TypeOK
  <2>2. view' \in (IF token' = None THEN {"login", "signup"} ELSE Dashboard) \cup {"invite"}
    BY <1>1 DEF Inv, TypeOK
  <2>3. held' \subseteq Users /\ {saved', selected', joined'} \subseteq Workspaces \cup {None}
    BY <1>1 DEF Inv, TypeOK, Tokens
  <2> QED
    BY <1>1, <2>1, <2>2, <2>3 DEF Inv, TypeOK
<1>5. TokenSound'
  BY <1>1 DEF Inv, TokenSound
<1>6. JoinedSound'
  <2>1. 0 \in Keys /\ \A k \in Keys : fetches'[k] = None
    BY <1>1 DEF Keys, NoFetches
  <2> QED
    BY <1>1, <2>1 DEF Inv, JoinedSound
<1> QED
  BY <1>2, <1>3, <1>4, <1>5, <1>6 DEF Inv
-----------------------------------------------------------------------------
\* The invariant holds in a tab that was never signed in.
LEMMA InvInit == Init => Inv
<1> SUFFICES ASSUME Init PROVE Inv
  OBVIOUS
<1>1. TypeOK
  <2>1. password \in [Users -> 0..MaxPassword]
    <3>1. {0, 1} \subseteq 0..MaxPassword
      BY SessionAssumption, SMTT(30)
    <3> QED
      BY <3>1 DEF Init
  <2>2. members \in [Workspaces -> SUBSET Users] /\ DOMAIN calls = Calls
    BY DEF Init
  <2>3. /\ token = None /\ email = None /\ saved = None /\ selected = None /\ joined = None
        /\ invite = FALSE /\ view = "login" /\ held = {} /\ asked = FALSE
    BY DEF Init
  <2> QED
    BY <2>1, <2>2, <2>3 DEF TypeOK
<1>2. TokenSound /\ JoinedSound
  BY DEF Init, TokenSound, JoinedSound
<1>3. CallsSound
  BY DEF Init, CallsSound
<1>4. FetchesSound /\ CacheSound
  BY DEF Init, FetchesSound, CacheSound, SittingsApart, NoStats, NoFetches
<1> QED
  BY <1>1, <1>2, <1>3, <1>4 DEF Inv

\* Every step keeps the invariant, one lemma per action.
LEMMA InvNext == Inv /\ [Next]_vars => Inv'
<1> SUFFICES ASSUME Inv, [Next]_vars PROVE Inv'
  OBVIOUS
<1>1. CASE SignOut
  BY <1>1, SignOutStep
<1>2. CASE Accepted
  BY <1>2, AcceptedStep
<1>3. CASE Dismiss
  BY <1>3, DismissStep
<1>4. CASE \E v \in {"login", "signup", "invite"} : Visit(v)
  BY <1>4, VisitStep
<1>5. CASE \E v \in Dashboard : SetView(v)
  BY <1>5, SetViewStep
<1>6. CASE \E w \in Workspaces : SelectWorkspace(w)
  BY <1>6, SelectStep
<1>7. CASE \E invited \in BOOLEAN : Load(invited)
  BY <1>7, LoadStep
<1>8. CASE \E k \in Keys : Fetch(k) \/ Serve(k) \/ Unavailable(k) \/ Answer(k)
  BY <1>8, FetchStep, ServeStep, UnavailableStep, AnswerStep
<1>9. CASE \/ \E u \in Users : SubmitSignup(u) \/ \E p \in Passwords : SubmitLogin(u, p)
           \/ \E p \in Passwords : SubmitPassword(p)
           \/ SubmitAccept
  BY <1>9, SubmitStep, ServerKeeps
<1>10. CASE \E u \in Users : ChangeElsewhere(u)
  BY <1>10, ElsewhereStep, ServerKeeps
<1>11. CASE IssueLogin \/ WritePassword \/ Register \/ AcceptInvite
  BY <1>11, IssueStep, WriteStep, RegisterStep, AcceptStep, ServerKeeps
<1>12. CASE \E c \in Calls : Check(c) \/ Over(c) \/ Timeout(c) \/ Arrived(c)
  BY <1>12, CheckStep, OverStep, ArrivedStep, ServerKeeps
<1>13. CASE UNCHANGED vars
  <2>1. /\ UNCHANGED <<storage, view, selected, cache, history>> /\ UNCHANGED <<server, calls>>
    BY <1>13 DEF vars
  <2>2. Grown(password, password', members, members')
    BY <2>1, GrownSame DEF Inv
  <2>3. CallsSound'
    BY <2>1, <2>2, CallsFewer DEF Inv, CallsSound
  <2>4. ServerStep
    BY <2>1, <2>2, <2>3 DEF ServerStep
  <2> QED
    BY <2>4, ServerKeeps
<1> QED
  BY <1>1, <1>2, <1>3, <1>4, <1>5, <1>6, <1>7, <1>8, <1>9, <1>10, <1>11, <1>12, <1>13 DEF Next

\* The invariant holds in every behaviour.
LEMMA Invariance == Spec => []Inv
BY InvInit, InvNext, PTL DEF Spec

\* The state of the tab is well formed: a page of the dashboard is open exactly
\* when there is a session or a pending invite is on the screen.
THEOREM WellTyped == Spec => []TypeOK
<1>1. Inv => TypeOK
  BY DEF Inv
<1> QED
  BY <1>1, Invariance, PTL

\* Sign-out leaves nothing behind: the cache of the tab is of its own sitting,
\* however many queries were in flight and whichever sessions came late.
THEOREM SittingsStayApart == Spec => []SittingsApart
<1>1. Inv => SittingsApart
  BY DEF Inv, CacheSound
<1> QED
  BY <1>1, Invariance, PTL

\* A token that Authenticate accepts proves the current password, however a
\* login, a sign-up and a change of password interleave.
THEOREM LiveTokensProve == Spec => []SessionsProvePassword
<1>1. Inv => SessionsProvePassword
  BY DEF Inv, TokenSound, Issued, SessionsProvePassword, Live
<1> QED
  BY <1>1, Invariance, PTL

\* An accepted invite opens its workspace as soon as the list is there.
THEOREM InviteOpens == Spec => []JoinedOpens
<1>1. Inv => JoinedOpens
  BY DEF Inv, JoinedSound, JoinedOpens, Shown
<1> QED
  BY <1>1, Invariance, PTL

\* A session with a good token, whose requests are the only ones in flight, ends
\* by sign-out alone: a 401 to one of its queries would mean that the password
\* was changed since, and it never changes back.
THEOREM LiveSessionsStay == Spec => LiveSessionStays
<1>1. Inv /\ [Next]_vars =>
         [/\ token # None /\ Live(token)
          /\ \A k \in Keys : fetches[k] # None => fetches[k].token = token
          /\ ~asked'
          => token' # None]_vars
  <2> SUFFICES ASSUME Inv, Next, token # None, Live(token),
                      \A k \in Keys : fetches[k] # None => fetches[k].token = token,
                      ~asked'
               PROVE  token' # None
    OBVIOUS
  <2>1. CASE SignOut
    <3>1. asked' = TRUE
      BY <2>1 DEF SignOut, HandleLogout
    <3> QED
      BY <3>1
  <2>2. CASE \E k \in Keys : Answer(k)
    <3>1. PICK k \in Keys : Answer(k)
      BY <2>2
    <3>2. fetches[k] # None /\ fetches[k].token = token
      BY <3>1 DEF Answer
    <3>3. FetchSound(password, held, k, fetches[k])
      BY <3>2, InFlight
    <3>4. token.user \in Users /\ token.stamp \in Nat /\ token.stamp = password[token.user]
      BY SessionAssumption, SMTT(30) DEF Inv, TypeOK, Tokens, Passwords, Live
    <3>5. fetches[k].answer # "unauthorized"
      BY <3>2, <3>3, <3>4, SMTT(30) DEF FetchSound
    <3>6. UNCHANGED storage
      BY <3>1, <3>5 DEF Answer
    <3> QED
      BY <3>6 DEF storage
  <2>3. CASE \E c \in Calls : Arrived(c)
    <3>1. PICK c \in Calls : Arrived(c)
      BY <2>3
    <3>2. token' = calls[c].given /\ Issued(password, calls[c].given)
      BY <3>1 DEF Arrived, In, HandleLogin, Inv, CallsSound, CallSound
    <3> QED
      BY <3>2, NoneAssumption DEF Issued
  <2>4. CASE \/ Accepted \/ Dismiss
             \/ \E v \in {"login", "signup", "invite"} : Visit(v)
             \/ \E v \in Dashboard : SetView(v)
             \/ \E w \in Workspaces : SelectWorkspace(w)
             \/ \E invited \in BOOLEAN : Load(invited)
    BY <2>4 DEF Accepted, Dismiss, Visit, SetView, SelectWorkspace, Load, storage
  <2>5. CASE \E k \in Keys : Fetch(k) \/ Serve(k) \/ Unavailable(k)
    BY <2>5 DEF Fetch, Serve, Unavailable, storage
  <2>6. CASE \/ \E u \in Users : SubmitSignup(u) \/ \E p \in Passwords : SubmitLogin(u, p)
             \/ \E p \in Passwords : SubmitPassword(p)
             \/ SubmitAccept
    BY <2>6, SubmitStep DEF ServerStep, storage
  <2>7. CASE \E u \in Users : ChangeElsewhere(u)
    BY <2>7, ElsewhereStep DEF ServerStep, storage
  <2>8. CASE IssueLogin \/ WritePassword \/ Register \/ AcceptInvite
    BY <2>8, IssueStep, WriteStep, RegisterStep, AcceptStep DEF ServerStep, storage
  <2>9. CASE \E c \in Calls : Check(c) \/ Over(c) \/ Timeout(c)
    BY <2>9, CheckStep, OverStep DEF ServerStep, storage
  <2> QED
    BY <2>1, <2>2, <2>3, <2>4, <2>5, <2>6, <2>7, <2>8, <2>9 DEF Next
<1> QED
  BY <1>1, Invariance, PTL DEF Spec, LiveSessionStays

\* A pending invite is given up by dismissing it, or once its guest has joined:
\* the call that removes it from storage is one the server granted.
THEOREM InvitesHeld == Spec => InviteHeld
<1>1. Inv /\ [Next]_vars => [invite /\ ~invite' => Dismiss \/ Guest \in members[Offered]]_vars
  <2> SUFFICES ASSUME Inv, Next, invite, ~invite', ~Dismiss
               PROVE  Guest \in members[Offered]
    OBVIOUS
  <2>1. CASE Accepted
    <3>1. calls["accept"] # None /\ calls["accept"].step = "granted" /\ "accept" \in Calls
      BY <2>1 DEF Accepted, In, Calls
    <3> QED
      BY <3>1 DEF Inv, CallsSound, CallSound
  <2>2. CASE \/ SignOut
             \/ \E v \in {"login", "signup", "invite"} : Visit(v)
             \/ \E v \in Dashboard : SetView(v)
             \/ \E w \in Workspaces : SelectWorkspace(w)
    BY <2>2 DEF SignOut, HandleLogout, Visit, SetView, SelectWorkspace, storage
  <2>3. CASE \E invited \in BOOLEAN : Load(invited)
    BY <2>3 DEF Load
  <2>4. CASE \E k \in Keys : Fetch(k) \/ Serve(k) \/ Unavailable(k) \/ Answer(k)
    BY <2>4 DEF Fetch, Serve, Unavailable, Answer, HandleLogout, storage
  <2>5. CASE \/ \E u \in Users : SubmitSignup(u) \/ \E p \in Passwords : SubmitLogin(u, p)
             \/ \E p \in Passwords : SubmitPassword(p)
             \/ SubmitAccept
    BY <2>5, SubmitStep DEF ServerStep, storage
  <2>6. CASE \E u \in Users : ChangeElsewhere(u)
    BY <2>6, ElsewhereStep DEF ServerStep, storage
  <2>7. CASE IssueLogin \/ WritePassword \/ Register \/ AcceptInvite
    BY <2>7, IssueStep, WriteStep, RegisterStep, AcceptStep DEF ServerStep, storage
  <2>8. CASE \E c \in Calls : Check(c) \/ Over(c) \/ Timeout(c)
    BY <2>8, CheckStep, OverStep DEF ServerStep, storage
  <2>9. CASE \E c \in Calls : Arrived(c)
    BY <2>9 DEF Arrived, HandleLogin
  <2> QED
    BY <2>1, <2>2, <2>3, <2>4, <2>5, <2>6, <2>7, <2>8, <2>9 DEF Next
<1> QED
  BY <1>1, Invariance, PTL DEF Spec, InviteHeld
=============================================================================
