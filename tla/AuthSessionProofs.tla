-------------------------- MODULE AuthSessionProofs --------------------------
(***************************************************************************)
(* What is proved about AuthSession: the query cache holds what the        *)
(* account shown may see, the account shown is the one the person asked    *)
(* for last, an accepted logout revokes the cookie's account, and no call  *)
(* ends a session made after it, for any number of accounts and calls.     *)
(***************************************************************************)
EXTENDS AuthSession, SequenceTheorems, TLAPS

TaskState ==
  [kind: {"none", "login", "logout", "read", "boot"},
   pc: {"idle", "queued", "sent", "answered", "failed", "onSuccess", "unauthorized",
        "waiting", "refresh", "renewed", "denied"},
   ver: Nat, acct: Accounts \cup {None}, tok: Tokens \cup {None}, retry: BOOLEAN]

\* Types; an answer carries a token, and no call is of a session to come.
TaskTyped(t) ==
  /\ task[t] \in TaskState
  /\ task[t].kind = "none" => task[t] = Idle
  /\ task[t].kind = "login" =>
       /\ task[t].acct \in Accounts
       /\ task[t].pc \in {"queued", "sent", "answered", "failed", "onSuccess"}
       /\ task[t].pc \in {"answered", "onSuccess"} =>
            task[t].tok \in Tokens /\ task[t].tok.acct = task[t].acct
  /\ task[t].kind = "logout" => task[t].pc \in {"queued", "sent", "answered", "failed"}
  /\ task[t].kind = "boot" => task[t].pc \in {"queued", "refresh", "renewed", "denied"}
  /\ task[t].kind = "read" => task[t].pc \notin {"idle", "onSuccess"}
  /\ task[t].pc = "renewed" => task[t].tok \in Tokens
  /\ task[t].kind = "read" /\ task[t].pc = "answered" => task[t].tok \in Tokens
  /\ task[t].ver <= sessionVersion

Typed ==
  /\ tokenVersion \in [Accounts -> Nat] /\ scope \in [Accounts -> {0, 1}]
  /\ cookie \in Tokens \cup {None} /\ token \in Tokens \cup {None}
  /\ cookieToken \in Tokens \cup {None}
  /\ stored \in Accounts \cup {None} /\ user \in Accounts \cup {None}
  /\ perms \in {0, 1, None}
  /\ sessionVersion \in Nat /\ inputs \in Nat
  /\ queue \in Seq(Tasks)
  /\ task = [t \in Tasks |-> task[t]]
  /\ otherTab \in {"none", "cookie", "past"}

\* The calls that have a place in the queue, and those that hold the lease.
InQueue(t) ==
  \/ task[t].kind \in {"login", "logout"}
     /\ task[t].pc \in {"queued", "sent", "answered", "failed"}
  \/ task[t].kind \in {"read", "boot"}
     /\ task[t].pc \in {"queued", "refresh", "renewed", "denied"}

Last(t) == queue # <<>> /\ queue[Len(queue)] = t

Places(q) == {q[i] : i \in 1 .. Len(q)}
Distinct(q) == \A i, j \in 1 .. Len(q) : q[i] = q[j] => i = j

\* One call that writes the cookie runs at a time, and each has one place.
QueueOK ==
  /\ Distinct(queue) /\ \A t \in Tasks : InQueue(t) <=> t \in Places(queue)
  /\ \A t \in Tasks : InQueue(t) /\ task[t].pc # "queued" => Running(t)

\* A call of the present session: a read or a boot has a user, a read carries
\* the token of what is shown, a login is the last in the queue until it is
\* answered, and from then on it is who is shown.
Present(t) ==
  task[t].ver = sessionVersion =>
    /\ task[t].kind \in {"read", "boot"} => user # None
    /\ task[t].kind = "read" /\ task[t].pc \in {"sent", "answered"} /\ task[t].tok # None
         => SameScope(task[t].tok)
    /\ task[t].kind = "login" /\ task[t].pc # "onSuccess" => user = None /\ Last(t)
    /\ task[t].kind = "login" /\ task[t].pc = "onSuccess" => SameScope(task[t].tok)
    /\ task[t].kind = "login" /\ otherTab = "none" => task[t].acct \in wanted

\* The token in memory is of the account and the scope shown.
TokenShown == token # None => SameScope(token)

\* A call with a place in the queue renews the session of an account wanted.
OwnRefresh(t) ==
  InQueue(t) =>
    /\ task[t].kind \in {"read", "boot"}
    /\ task[t].pc \in {"refresh", "renewed"} /\ task[t].tok # None
         => task[t].tok.acct \in wanted

\* With one tab, the account shown, its cookie and every refresh that is under
\* way belong to the account wanted, and no other call waits for the cookie.
Intended ==
  otherTab = "none" =>
    /\ stored = user
    /\ user # None => /\ user \in wanted
                      /\ cookie # None => cookie.acct \in wanted
                      /\ \A t \in Tasks : OwnRefresh(t)

\* A call knows of no token, or is a logout that carries the cookie's account.
Unsigned(t) ==
  /\ task[t].kind = "login" => task[t].pc # "onSuccess"
  /\ task[t].kind = "logout" => task[t].tok = None
RightBearer(t) ==
  task[t].kind = "logout" /\ task[t].pc = "sent" /\ task[t].tok # None
    => task[t].tok.acct = cookie.acct

\* The tab knows whose cookie the browser has, or it is fresh and has nothing
\* to log out with; a logout that was sent carries the account of the cookie.
CookieKnown ==
  otherTab # "cookie" /\ cookie # None =>
    /\ IF cookieToken = None THEN token = None /\ \A t \in Tasks : Unsigned(t)
                             ELSE cookieToken.acct = cookie.acct
    /\ \A t \in Tasks : RightBearer(t)

\* The inductive invariant.
IInv ==
  /\ Typed /\ \A t \in Tasks : TaskTyped(t)
  /\ QueueOK /\ (\A t \in Tasks : Present(t))
  /\ TokenShown /\ CacheIsTheSessions /\ Intended /\ CookieKnown

-----------------------------------------------------------------------------
(* The queue *)

\* Releasing the head leaves the others in their places.
LEMMA TailPlaces ==
  ASSUME NEW q \in Seq(Tasks), q # <<>>, Distinct(q)
  PROVE  /\ Tail(q) \in Seq(Tasks) /\ Distinct(Tail(q))
         /\ Places(Tail(q)) = Places(q) \ {Head(q)}
         /\ \A t \in Tasks : t # Head(q) /\ q[Len(q)] = t =>
              Tail(q) # <<>> /\ Tail(q)[Len(Tail(q))] = t
<1> DEFINE r == Tail(q)
<1>1. /\ r \in Seq(Tasks) /\ Len(r) = Len(q) - 1 /\ \A i \in 1 .. Len(r) : r[i] = q[i + 1]
      /\ Len(q) \in Nat \ {0} /\ Len(r) \in Nat /\ Head(q) = q[1]
  BY HeadTailProperties, EmptySeq, LenProperties
<1> HIDE DEF r
<1>2. Distinct(r)
  <2> SUFFICES ASSUME NEW i \in 1 .. Len(r), NEW j \in 1 .. Len(r), r[i] = r[j] PROVE i = j
    BY DEF Distinct
  <2>1. i + 1 \in 1 .. Len(q) /\ j + 1 \in 1 .. Len(q) /\ q[i + 1] = q[j + 1]
    BY <1>1
  <2>q. QED BY <2>1 DEF Distinct
<1>3. Places(r) = Places(q) \ {Head(q)}
  <2>1. ASSUME NEW i \in 1 .. Len(r) PROVE r[i] \in Places(q) \ {Head(q)}
    <3>1. i + 1 \in 1 .. Len(q) /\ 1 \in 1 .. Len(q) /\ r[i] = q[i + 1] /\ i + 1 # 1
      BY <1>1
    <3>q. QED BY <1>1, <3>1 DEF Places, Distinct
  <2>2. ASSUME NEW i \in 1 .. Len(q), q[i] # Head(q) PROVE q[i] \in Places(r)
    <3>1. i - 1 \in 1 .. Len(r)
      BY <1>1, <2>2
    <3>2. r[i - 1] = q[i]
      BY <1>1, <3>1
    <3>q. QED BY <3>1, <3>2 DEF Places
  <2>q. QED BY <2>1, <2>2 DEF Places
<1>4. ASSUME NEW t \in Tasks, t # Head(q), q[Len(q)] = t PROVE r # <<>> /\ r[Len(r)] = t
  <2>1. Len(q) # 1
    BY <1>1, <1>4
  <2>2. Len(r) \in 1 .. Len(r)
    BY <1>1, <2>1
  <2>3. r[Len(r)] = q[Len(r) + 1]
    BY <1>1, <2>2
  <2>4. r # <<>>
    BY <2>2, EmptySeq
  <2>q. QED BY <1>1, <1>4, <2>3, <2>4
<1>q. QED BY <1>1, <1>2, <1>3, <1>4 DEF r

\* A call that enters is the last, and the others keep their places.
LEMMA AppendPlaces ==
  ASSUME NEW q \in Seq(Tasks), Distinct(q), NEW t \in Tasks, t \notin Places(q)
  PROVE  LET r == Append(q, t)
         IN  /\ r \in Seq(Tasks) /\ Distinct(r) /\ Places(r) = Places(q) \cup {t}
             /\ r # <<>> /\ r[Len(r)] = t
             /\ q # <<>> => Head(r) = Head(q)
             /\ q = <<>> => Head(r) = t
<1> DEFINE r == Append(q, t)
<1>1. /\ r \in Seq(Tasks) /\ r # <<>> /\ Len(r) = Len(q) + 1
      /\ \A i \in 1 .. Len(q) : r[i] = q[i]
      /\ r[Len(q) + 1] = t /\ Len(q) \in Nat
  BY AppendProperties, LenProperties
<1>2. /\ q # <<>> => Head(r) = Head(q)
      /\ q = <<>> => Head(r) = t
  BY HeadTailAppend
<1> HIDE DEF r
<1>3. Places(r) = Places(q) \cup {t}
  <2>1. \A i \in 1 .. Len(r) : i \in 1 .. Len(q) \/ i = Len(q) + 1
    BY <1>1
  <2>2. Len(q) + 1 \in 1 .. Len(r) /\ \A i \in 1 .. Len(q) : i \in 1 .. Len(r)
    BY <1>1
  <2>q. QED BY <1>1, <2>1, <2>2 DEF Places
<1>4. Distinct(r)
  <2> SUFFICES ASSUME NEW i \in 1 .. Len(r), NEW j \in 1 .. Len(r), r[i] = r[j] PROVE i = j
    BY DEF Distinct
  <2>1. CASE i \in 1 .. Len(q) /\ j \in 1 .. Len(q)
    BY <1>1, <2>1 DEF Distinct
  <2>2. CASE i \in 1 .. Len(q) /\ j = Len(q) + 1
    BY <1>1, <2>2 DEF Places
  <2>3. CASE j \in 1 .. Len(q) /\ i = Len(q) + 1
    BY <1>1, <2>3 DEF Places
  <2>4. CASE i = Len(q) + 1 /\ j = Len(q) + 1
    BY <2>4
  <2>q. QED BY <1>1, <2>1, <2>2, <2>3, <2>4
<1>q. QED BY <1>1, <1>2, <1>3, <1>4 DEF r

\* The queue of one call.
LEMMA OnePlace ==
  ASSUME NEW t \in Tasks
  PROVE  <<t>> \in Seq(Tasks) /\ Distinct(<<t>>) /\ Places(<<t>>) = {t} /\ <<t>> # <<>>
         /\ <<>> \in Seq(Tasks) /\ Distinct(<<>>) /\ Places(<<>>) = {} /\ Head(<<t>>) = t
BY DEF Distinct, Places

\* The head that is the last is alone.
LEMMA AloneInQueue ==
  ASSUME NEW q \in Seq(Tasks), q # <<>>, Distinct(q), Head(q) = q[Len(q)]
  PROVE  Places(q) = {Head(q)}
<1>1. Len(q) \in Nat \ {0} /\ Head(q) = q[1]
  BY EmptySeq, HeadTailProperties
<1>2. 1 \in 1 .. Len(q) /\ Len(q) \in 1 .. Len(q)
  BY <1>1
<1>3. Len(q) = 1
  BY <1>1, <1>2 DEF Distinct
<1>q. QED BY <1>1, <1>3 DEF Places

-----------------------------------------------------------------------------
(* What the steps have in common *)

\* What the fields of a call are when one or two of them are set.
LEMMA SetPc ==
  ASSUME NEW k \in TaskState,
         NEW p \in {"idle", "queued", "sent", "answered", "failed", "onSuccess",
                    "unauthorized", "waiting", "refresh", "renewed", "denied"}
  PROVE  LET n == [k EXCEPT !.pc = p]
         IN  /\ n \in TaskState /\ n.kind = k.kind /\ n.pc = p /\ n.ver = k.ver
             /\ n.acct = k.acct /\ n.tok = k.tok /\ n.retry = k.retry
BY DEF TaskState

LEMMA SetKind ==
  ASSUME NEW k \in TaskState, NEW w \in {"none", "login", "logout", "read", "boot"}
  PROVE  LET n == [k EXCEPT !.kind = w]
         IN  /\ n \in TaskState /\ n.kind = w /\ n.pc = k.pc /\ n.ver = k.ver
             /\ n.acct = k.acct /\ n.tok = k.tok /\ n.retry = k.retry
BY DEF TaskState

LEMMA SetAcct ==
  ASSUME NEW k \in TaskState, NEW a \in Accounts \cup {None}
  PROVE  LET n == [k EXCEPT !.acct = a]
         IN  /\ n \in TaskState /\ n.kind = k.kind /\ n.pc = k.pc /\ n.ver = k.ver
             /\ n.acct = a /\ n.tok = k.tok /\ n.retry = k.retry
BY DEF TaskState

LEMMA SetTok ==
  ASSUME NEW k \in TaskState, NEW x \in Tokens \cup {None}
  PROVE  LET n == [k EXCEPT !.tok = x]
         IN  /\ n \in TaskState /\ n.kind = k.kind /\ n.pc = k.pc /\ n.ver = k.ver
             /\ n.acct = k.acct /\ n.tok = x /\ n.retry = k.retry
BY DEF TaskState

LEMMA SetVer ==
  ASSUME NEW k \in TaskState, NEW v \in Nat
  PROVE  LET n == [k EXCEPT !.ver = v]
         IN  /\ n \in TaskState /\ n.kind = k.kind /\ n.pc = k.pc /\ n.ver = v
             /\ n.acct = k.acct /\ n.tok = k.tok /\ n.retry = k.retry
BY DEF TaskState

LEMMA SetRetry ==
  ASSUME NEW k \in TaskState, NEW b \in BOOLEAN
  PROVE  LET n == [k EXCEPT !.retry = b]
         IN  /\ n \in TaskState /\ n.kind = k.kind /\ n.pc = k.pc /\ n.ver = k.ver
             /\ n.acct = k.acct /\ n.tok = k.tok /\ n.retry = b
BY DEF TaskState

\* A task that is free.
LEMMA IdleTask ==
  /\ Idle \in TaskState /\ Idle.kind = "none" /\ Idle.pc = "idle" /\ Idle.ver = 0
  /\ Idle.acct = None /\ Idle.tok = None /\ Idle.retry = FALSE
BY DEF Idle, TaskState

\* The calls as they start.
LoginCall(v, a)  == [Idle EXCEPT !.kind = "login", !.pc = "queued", !.ver = v, !.acct = a]
LogoutCall(v, x) == [Idle EXCEPT !.kind = "logout", !.pc = "queued", !.ver = v, !.tok = x]
ReadCall(v, x)   == [Idle EXCEPT !.kind = "read", !.pc = "sent", !.ver = v, !.tok = x]
BootCall         == [Idle EXCEPT !.kind = "boot", !.pc = "queued"]

LEMMA NewLogin ==
  ASSUME NEW v \in Nat, NEW a \in Accounts
  PROVE  /\ LoginCall(v, a) \in TaskState
         /\ LoginCall(v, a).kind = "login" /\ LoginCall(v, a).pc = "queued"
         /\ LoginCall(v, a).ver = v /\ LoginCall(v, a).acct = a /\ LoginCall(v, a).tok = None
<1> DEFINE k1 == [Idle EXCEPT !.kind = "login"]
           k2 == [k1 EXCEPT !.pc = "queued"]
           k3 == [k2 EXCEPT !.ver = v]
           k4 == [k3 EXCEPT !.acct = a]
<1>0. LoginCall(v, a) = k4
  BY DEF LoginCall
<1> HIDE DEF k1, k2, k3, k4
<1>1. /\ k1 \in TaskState /\ k1.kind = "login" /\ k1.pc = "idle" /\ k1.ver = 0
      /\ k1.acct = None /\ k1.tok = None
  BY IdleTask, SetKind DEF k1
<1>2. /\ k2 \in TaskState /\ k2.kind = "login" /\ k2.pc = "queued" /\ k2.ver = 0
      /\ k2.acct = None /\ k2.tok = None
  BY ZenonT(60), <1>1, SetPc DEF k2
<1>3. /\ k3 \in TaskState /\ k3.kind = "login" /\ k3.pc = "queued" /\ k3.ver = v
      /\ k3.acct = None /\ k3.tok = None
  BY <1>2, SetVer DEF k3
<1>4. /\ k4 \in TaskState /\ k4.kind = "login" /\ k4.pc = "queued" /\ k4.ver = v
      /\ k4.acct = a /\ k4.tok = None
  BY <1>3, SetAcct DEF k4
<1>q. QED BY <1>0, <1>4

LEMMA NewLogout ==
  ASSUME NEW v \in Nat, NEW x \in Tokens \cup {None}
  PROVE  /\ LogoutCall(v, x) \in TaskState
         /\ LogoutCall(v, x).kind = "logout" /\ LogoutCall(v, x).pc = "queued"
         /\ LogoutCall(v, x).ver = v /\ LogoutCall(v, x).acct = None /\ LogoutCall(v, x).tok = x
<1> DEFINE k1 == [Idle EXCEPT !.kind = "logout"]
           k2 == [k1 EXCEPT !.pc = "queued"]
           k3 == [k2 EXCEPT !.ver = v]
           k4 == [k3 EXCEPT !.tok = x]
<1>0. LogoutCall(v, x) = k4
  BY DEF LogoutCall
<1> HIDE DEF k1, k2, k3, k4
<1>1. /\ k1 \in TaskState /\ k1.kind = "logout" /\ k1.pc = "idle" /\ k1.ver = 0
      /\ k1.acct = None /\ k1.tok = None
  BY IdleTask, SetKind DEF k1
<1>2. /\ k2 \in TaskState /\ k2.kind = "logout" /\ k2.pc = "queued" /\ k2.ver = 0
      /\ k2.acct = None /\ k2.tok = None
  BY ZenonT(60), <1>1, SetPc DEF k2
<1>3. /\ k3 \in TaskState /\ k3.kind = "logout" /\ k3.pc = "queued" /\ k3.ver = v
      /\ k3.acct = None /\ k3.tok = None
  BY <1>2, SetVer DEF k3
<1>4. /\ k4 \in TaskState /\ k4.kind = "logout" /\ k4.pc = "queued" /\ k4.ver = v
      /\ k4.acct = None /\ k4.tok = x
  BY <1>3, SetTok DEF k4
<1>q. QED BY <1>0, <1>4

LEMMA NewRead ==
  ASSUME NEW v \in Nat, NEW x \in Tokens \cup {None}
  PROVE  /\ ReadCall(v, x) \in TaskState
         /\ ReadCall(v, x).kind = "read" /\ ReadCall(v, x).pc = "sent"
         /\ ReadCall(v, x).ver = v /\ ReadCall(v, x).acct = None /\ ReadCall(v, x).tok = x
<1> DEFINE k1 == [Idle EXCEPT !.kind = "read"]
           k2 == [k1 EXCEPT !.pc = "sent"]
           k3 == [k2 EXCEPT !.ver = v]
           k4 == [k3 EXCEPT !.tok = x]
<1>0. ReadCall(v, x) = k4
  BY DEF ReadCall
<1> HIDE DEF k1, k2, k3, k4
<1>1. /\ k1 \in TaskState /\ k1.kind = "read" /\ k1.pc = "idle" /\ k1.ver = 0
      /\ k1.acct = None /\ k1.tok = None
  BY IdleTask, SetKind DEF k1
<1>2. /\ k2 \in TaskState /\ k2.kind = "read" /\ k2.pc = "sent" /\ k2.ver = 0
      /\ k2.acct = None /\ k2.tok = None
  BY ZenonT(60), <1>1, SetPc DEF k2
<1>3. /\ k3 \in TaskState /\ k3.kind = "read" /\ k3.pc = "sent" /\ k3.ver = v
      /\ k3.acct = None /\ k3.tok = None
  BY <1>2, SetVer DEF k3
<1>4. /\ k4 \in TaskState /\ k4.kind = "read" /\ k4.pc = "sent" /\ k4.ver = v
      /\ k4.acct = None /\ k4.tok = x
  BY <1>3, SetTok DEF k4
<1>q. QED BY <1>0, <1>4

LEMMA NewBoot ==
  /\ BootCall \in TaskState /\ BootCall.kind = "boot" /\ BootCall.pc = "queued"
  /\ BootCall.ver = 0 /\ BootCall.acct = None /\ BootCall.tok = None
<1> DEFINE k1 == [Idle EXCEPT !.kind = "boot"]
           k2 == [k1 EXCEPT !.pc = "queued"]
<1>0. BootCall = k2
  BY DEF BootCall
<1> HIDE DEF k1, k2
<1>1. /\ k1 \in TaskState /\ k1.kind = "boot" /\ k1.pc = "idle" /\ k1.ver = 0
      /\ k1.acct = None /\ k1.tok = None
  BY IdleTask, SetKind DEF k1
<1>2. /\ k2 \in TaskState /\ k2.kind = "boot" /\ k2.pc = "queued" /\ k2.ver = 0
      /\ k2.acct = None /\ k2.tok = None
  BY <1>1, SetPc DEF k2
<1>q. QED BY <1>0, <1>2

\* A call that nobody touches is typed as long as versions only grow.
LEMMA OthersTyped ==
  ASSUME Typed, NEW u \in Tasks, TaskTyped(u), task'[u] = task[u] \/ task'[u] = Idle,
         sessionVersion' \in Nat, sessionVersion <= sessionVersion'
  PROVE  TaskTyped(u)'
<1>1. CASE task'[u] = task[u]
  <2>1. task[u].ver \in Nat /\ sessionVersion \in Nat
    BY DEF TaskTyped, TaskState, Typed
  <2>2. task[u].ver <= sessionVersion'
    BY <2>1 DEF TaskTyped
  <2>q. QED BY <1>1, <2>2 DEF TaskTyped
<1>2. CASE task'[u] = Idle
  BY <1>2, IdleTask DEF TaskTyped
<1>q. QED BY <1>1, <1>2

\* A call that nobody touches stays as it should be when its session ends, or
\* goes on with the same account and scope.
LEMMA OthersPresent ==
  ASSUME Typed, NEW u \in Tasks, TaskTyped(u), Present(u),
         task'[u] = task[u] \/ task'[u] = Idle,
         sessionVersion' \in Nat,
         \/ sessionVersion' > sessionVersion
         \/ /\ UNCHANGED <<sessionVersion, user, perms>>
            /\ otherTab' = "none" => otherTab = "none" /\ wanted' = wanted
            /\ InQueue(u) /\ Last(u) => Last(u)'
  PROVE  Present(u)'
<1>1. CASE task'[u] = Idle
  BY <1>1, IdleTask DEF Present
<1>2. CASE task'[u] = task[u] /\ sessionVersion' > sessionVersion
  <2>1. task[u].ver \in Nat /\ sessionVersion \in Nat /\ task[u].ver <= sessionVersion
    BY DEF TaskTyped, TaskState, Typed
  <2>2. task[u].ver # sessionVersion'
    BY <1>2, <2>1
  <2>q. QED BY <1>2, <2>2 DEF Present
<1>3. CASE /\ task'[u] = task[u] /\ UNCHANGED <<sessionVersion, user, perms>>
           /\ otherTab' = "none" => otherTab = "none" /\ wanted' = wanted
           /\ InQueue(u) /\ Last(u) => Last(u)'
  <2>1. task[u].kind = "login" /\ task[u].pc # "onSuccess" => InQueue(u)
    BY DEF TaskTyped, InQueue
  <2>q. QED BY <1>3, <2>1 DEF Present, SameScope
<1>q. QED BY <1>1, <1>2, <1>3

\* Whoever holds the lease is the head, and is the only one that holds it.
LEMMA Holder ==
  ASSUME QueueOK, NEW t \in Tasks, InQueue(t), task[t].pc # "queued"
  PROVE  /\ Running(t) /\ queue # <<>> /\ Head(queue) = t
         /\ \A u \in Tasks : u # t /\ InQueue(u) => task[u].pc = "queued"
BY DEF QueueOK, Running

\* The queue stays.
LEMMA QueueStays ==
  ASSUME QueueOK, UNCHANGED queue, \A u \in Tasks : InQueue(u)' <=> InQueue(u),
         \A u \in Tasks : InQueue(u) /\ task'[u].pc # "queued" =>
           task[u].pc # "queued" \/ Running(u)
  PROVE  QueueOK'
BY DEF QueueOK, Running

\* The head leaves.
LEMMA QueueLeaves ==
  ASSUME Typed, QueueOK, NEW t \in Tasks, Running(t), queue' = Tail(queue), ~InQueue(t)',
         \A u \in Tasks \ {t} : (InQueue(u)' <=> InQueue(u))
                                /\ (InQueue(u) => task'[u].pc = "queued")
  PROVE  QueueOK' /\ queue' \in Seq(Tasks) /\ \A u \in Tasks \ {t} : Last(u) => Last(u)'
<1>1. queue \in Seq(Tasks) /\ queue # <<>> /\ Head(queue) = t /\ Distinct(queue)
  BY DEF Typed, Running, QueueOK
<1>2. /\ queue' \in Seq(Tasks) /\ Distinct(queue') /\ Places(queue') = Places(queue) \ {t}
      /\ \A u \in Tasks : u # t /\ queue[Len(queue)] = u => Last(u)'
  BY <1>1, TailPlaces DEF Last
<1>3. QueueOK'
  BY <1>1, <1>2 DEF QueueOK
<1>q. QED BY <1>2, <1>3 DEF Last

\* A call enters the queue.
LEMMA QueueEnters ==
  ASSUME Typed, QueueOK, NEW t \in Tasks, ~InQueue(t), Enqueue(t), InQueue(t)',
         task'[t].pc = "queued", \A u \in Tasks \ {t} : task'[u] = task[u]
  PROVE  QueueOK' /\ queue' \in Seq(Tasks) /\ Last(t)'
<1>1. queue \in Seq(Tasks) /\ Distinct(queue) /\ t \notin Places(queue) /\ queue' = Append(queue, t)
  BY DEF Typed, QueueOK, Enqueue
<1>2. /\ queue' \in Seq(Tasks) /\ Distinct(queue') /\ Places(queue') = Places(queue) \cup {t}
      /\ queue # <<>> => Head(queue') = Head(queue)
      /\ Last(t)' /\ queue' # <<>>
  BY <1>1, AppendPlaces DEF Last
<1>3. \A u \in Tasks \ {t} : (InQueue(u)' <=> InQueue(u)) /\ task'[u].pc = task[u].pc
  BY DEF InQueue
<1>4. QueueOK'
  BY <1>1, <1>2, <1>3 DEF QueueOK, Running
<1>q. QED BY <1>2, <1>4

\* The head leaves and enters again: "release first".
LEMMA QueueReenters ==
  ASSUME Typed, QueueOK, NEW t \in Tasks, Running(t), queue' = Append(Tail(queue), t),
         InQueue(t)', task'[t].pc = "queued",
         \A u \in Tasks \ {t} : (InQueue(u)' <=> InQueue(u))
                                /\ (InQueue(u) => task'[u].pc = "queued")
  PROVE  QueueOK' /\ queue' \in Seq(Tasks) /\ Last(t)'
<1> DEFINE q == Tail(queue)
<1>1. queue \in Seq(Tasks) /\ queue # <<>> /\ Head(queue) = t /\ Distinct(queue)
  BY DEF Typed, Running, QueueOK
<1>2. q \in Seq(Tasks) /\ Distinct(q) /\ Places(q) = Places(queue) \ {t}
  BY <1>1, TailPlaces
<1>3. queue' = Append(q, t)
  OBVIOUS
<1> HIDE DEF q
<1>4. /\ queue' \in Seq(Tasks) /\ Distinct(queue') /\ Places(queue') = Places(q) \cup {t}
      /\ Last(t)'
  BY <1>2, <1>3, AppendPlaces DEF Last
<1>5. InQueue(t)
  BY <1>1 DEF QueueOK, Places
<1>6. QueueOK'
  BY <1>2, <1>4 DEF QueueOK
<1>q. QED BY <1>4, <1>6

\* A call goes on by itself: it keeps its place, if it has one, and nothing of
\* the session changes, but that a read's answer may be cached.
LEMMA Moves ==
  ASSUME IInv, NEW t \in Tasks, NEW n, task' = [task EXCEPT ![t] = n],
         tokenVersion' \in [Accounts -> Nat], inputs' \in Nat,
         UNCHANGED <<scope, browser, token, user, perms, sessionVersion, cookieToken,
                     queue, history>>,
         UNCHANGED cache \/ CacheIsTheSessions',
         TaskTyped(t)', Present(t)', InQueue(t)' <=> InQueue(t),
         InQueue(t) /\ n.pc # "queued" => task[t].pc # "queued" \/ Running(t),
         otherTab = "none" /\ user # None => OwnRefresh(t)',
         otherTab # "cookie" /\ cookie # None =>
           RightBearer(t)' /\ (cookieToken = None => Unsigned(t)')
  PROVE  IInv'
<1>1. /\ task'[t] = n /\ \A u \in Tasks \ {t} : task'[u] = task[u]
      /\ task' = [u \in Tasks |-> task'[u]]
  <2>1. task = [u \in Tasks |-> task[u]]
    BY DEF IInv, Typed
  <2>2. DOMAIN task = Tasks
    BY <2>1
  <2>q. QED BY <2>2
<1>u. UNCHANGED <<cookie, stored, wanted, otherTab>>
  BY DEF browser, history
<1>2. Typed'
  <2>1. Typed
    BY DEF IInv
  <2>2. task' = [u \in Tasks |-> task[u]]'
    BY <1>1
  <2>q. QED BY <2>1, <2>2, <1>u DEF Typed
<1>3. \A u \in Tasks : TaskTyped(u)'
  <2>1. sessionVersion' \in Nat /\ sessionVersion <= sessionVersion'
    BY DEF IInv, Typed
  <2>q. QED BY <1>1, <2>1, OthersTyped DEF IInv
<1>4. QueueOK'
  <2>1. \A u \in Tasks : InQueue(u)' <=> InQueue(u)
    BY <1>1 DEF InQueue
  <2>q. QED BY <1>1, <2>1, QueueStays DEF IInv
<1>5. \A u \in Tasks : Present(u)'
  <2>1. ASSUME NEW u \in Tasks PROVE Last(u) => Last(u)'
    BY DEF Last
  <2>q. QED BY <1>1, <1>u, <2>1, OthersPresent DEF IInv, Typed
<1>6. TokenShown' /\ CacheIsTheSessions'
  BY DEF IInv, TokenShown, CacheIsTheSessions, SameScope
<1>7. Intended'
  <2>1. ASSUME NEW u \in Tasks \ {t} PROVE OwnRefresh(u) => OwnRefresh(u)'
    BY <1>1, <1>u DEF OwnRefresh, InQueue
  <2>q. QED BY <1>u, <2>1 DEF IInv, Intended
<1>8. CookieKnown'
  <2>1. ASSUME NEW u \in Tasks \ {t}
        PROVE  (RightBearer(u) => RightBearer(u)') /\ (Unsigned(u) => Unsigned(u)')
    BY <1>1, <1>u DEF RightBearer, Unsigned
  <2>q. QED BY <1>u, <2>1 DEF IInv, CookieKnown
<1>q. QED BY <1>2, <1>3, <1>4, <1>5, <1>6, <1>7, <1>8 DEF IInv

\* The session ends: a new version with no account, no token and no data.
LEMMA Cleared ==
  ASSUME IInv, NEW t \in Tasks, user' = None, perms' = None, token' = None, stored' = None,
         sessionVersion' = sessionVersion + 1, cache' = {}, inputs' \in Nat,
         UNCHANGED <<server, cookie, otherTab>>,
         cookieToken' = cookieToken \/ (cookieToken = None /\ cookieToken' = token),
         task' = [u \in Tasks |-> task'[u]],
         \A u \in Tasks \ {t} : task'[u] = task[u] \/ task'[u] = Idle,
         TaskTyped(t)', Present(t)', QueueOK', queue' \in Seq(Tasks),
         ~(task'[t].kind = "login" /\ task'[t].pc = "onSuccess"),
         task'[t].kind = "logout" => task'[t].pc = "queued" /\ task'[t].tok \in {None, token}
  PROVE  IInv'
<1>1. sessionVersion \in Nat /\ sessionVersion' \in Nat /\ sessionVersion' > sessionVersion
      /\ sessionVersion <= sessionVersion'
  BY DEF IInv, Typed
<1>2. Typed'
  BY <1>1 DEF IInv, Typed, server
<1>3. \A u \in Tasks : TaskTyped(u)'
  BY <1>1, OthersTyped DEF IInv
<1>4. \A u \in Tasks : Present(u)'
  BY <1>1, OthersPresent DEF IInv
<1>5. TokenShown' /\ CacheIsTheSessions' /\ Intended'
  BY DEF TokenShown, CacheIsTheSessions, Intended
<1>6. CookieKnown'
  <2> SUFFICES ASSUME otherTab # "cookie", cookie # None PROVE CookieKnown'
    BY DEF CookieKnown
  <2>1. /\ IF cookieToken = None THEN token = None /\ \A u \in Tasks : Unsigned(u)
                                 ELSE cookieToken.acct = cookie.acct
        /\ \A u \in Tasks : RightBearer(u)
    BY DEF IInv, CookieKnown
  <2>2. ASSUME NEW u \in Tasks PROVE RightBearer(u)'
    BY <2>1, IdleTask DEF RightBearer
  <2>3. cookieToken' = cookieToken
    BY <2>1
  <2>4. ASSUME NEW u \in Tasks, cookieToken = None PROVE Unsigned(u)'
    BY <2>1, <2>4, IdleTask DEF Unsigned
  <2>q. QED BY <2>1, <2>2, <2>3, <2>4 DEF CookieKnown
<1>q. QED BY <1>2, <1>3, <1>4, <1>5, <1>6 DEF IInv

\* A call that holds the lease ends and gives it up; the session goes on, with
\* the cookie that the call may have changed.
LEMMA Leaves ==
  ASSUME IInv, NEW t \in Tasks, Running(t), InQueue(t), Leave,
         task' = [u \in Tasks |-> task'[u]], task'[t] = Idle,
         \A u \in Tasks \ {t} :
           task'[u] = task[u] \/ (task[u].pc = "waiting" /\ task'[u] = Idle),
         UNCHANGED <<server, stored, token, user, perms, sessionVersion, cache, inputs, wanted>>,
         \/ UNCHANGED <<cookie, cookieToken, otherTab>>
         \/ /\ cookie' = cookieToken' /\ cookie' \in Tokens \cup {None} /\ ThisTabsCookie
            /\ \A u \in Tasks \ {t} : InQueue(u) => task[u].pc = "queued"
            /\ otherTab = "none" /\ user # None /\ cookie' # None => cookie'.acct \in wanted
  PROVE  IInv'
<1>1. \A u \in Tasks \ {t} : (InQueue(u)' <=> InQueue(u)) /\ (InQueue(u) => task'[u] = task[u])
  <2> SUFFICES ASSUME NEW u \in Tasks \ {t}
               PROVE  (InQueue(u)' <=> InQueue(u)) /\ (InQueue(u) => task'[u] = task[u])
    OBVIOUS
  <2>1. CASE task'[u] = task[u]
    BY <2>1 DEF InQueue
  <2>2. CASE task[u].pc = "waiting" /\ task'[u] = Idle
    BY <2>2, IdleTask DEF InQueue
  <2>q. QED BY <2>1, <2>2
<1>2. \A u \in Tasks \ {t} : InQueue(u) => task[u].pc = "queued"
  <2>1. \A u \in Tasks : InQueue(u) /\ task[u].pc # "queued" => u = t
    BY DEF IInv, QueueOK, Running
  <2>q. QED BY <2>1
<1>3. ~InQueue(t)'
  BY IdleTask DEF InQueue
<1>4. /\ QueueOK' /\ queue' \in Seq(Tasks)
      /\ \A u \in Tasks \ {t} : Last(u) => Last(u)'
  <2>1. \A u \in Tasks \ {t} : (InQueue(u)' <=> InQueue(u))
                                /\ (InQueue(u) => task'[u].pc = "queued")
    BY <1>1, <1>2
  <2>q. QED BY <1>3, <2>1, QueueLeaves DEF IInv, Leave
<1>5. otherTab' \in {"none", "cookie", "past"} /\ (otherTab' = "none" => otherTab = "none")
  BY DEF IInv, Typed, ThisTabsCookie
<1>6. Typed'
  BY <1>4, <1>5 DEF IInv, Typed, server
<1>7. sessionVersion \in Nat /\ sessionVersion <= sessionVersion
  BY DEF IInv, Typed
<1>8. \A u \in Tasks : TaskTyped(u)'
  <2>1. \A u \in Tasks : task'[u] = task[u] \/ task'[u] = Idle
    OBVIOUS
  <2>q. QED BY <1>7, <2>1, OthersTyped DEF IInv
<1>9. \A u \in Tasks : Present(u)'
  <2>1. Present(t)'
    BY IdleTask DEF Present
  <2>2. ASSUME NEW u \in Tasks \ {t} PROVE Present(u)'
    BY <1>4, <1>5, <1>7, OthersPresent DEF IInv
  <2>q. QED BY <2>1, <2>2
<1>10. TokenShown' /\ CacheIsTheSessions'
  BY DEF IInv, TokenShown, CacheIsTheSessions, SameScope
<1>11. Intended'
  <2> SUFFICES ASSUME otherTab' = "none" PROVE Intended'
    BY DEF Intended
  <2>1. ASSUME NEW u \in Tasks, OwnRefresh(u) PROVE OwnRefresh(u)'
    BY <1>1, <1>3, <2>1 DEF OwnRefresh
  <2>q. QED BY <1>5, <2>1 DEF IInv, Intended
<1>12. CookieKnown'
  <2>1. CASE UNCHANGED <<cookie, cookieToken, otherTab>>
    <3>1. ASSUME NEW u \in Tasks
          PROVE  (RightBearer(u) => RightBearer(u)') /\ (Unsigned(u) => Unsigned(u)')
      BY <2>1, IdleTask DEF RightBearer, Unsigned
    <3>q. QED BY <2>1, <3>1 DEF IInv, CookieKnown
  <2>2. CASE cookie' = cookieToken'
    <3>1. ASSUME NEW u \in Tasks PROVE RightBearer(u)'
      <4>1. ~(task'[u].kind = "logout" /\ task'[u].pc = "sent")
        BY <1>1, <1>2, <1>3, IdleTask DEF InQueue
      <4>q. QED BY <4>1 DEF RightBearer
    <3>q. QED BY <2>2, <3>1 DEF CookieKnown
  <2>q. QED BY <2>1, <2>2
<1>q. QED BY <1>4, <1>6, <1>8, <1>9, <1>10, <1>11, <1>12 DEF IInv
-----------------------------------------------------------------------------
(* Calls that go on and leave the session as it is *)

\* What is known of a call.
LEMMA Facts ==
  ASSUME IInv, NEW t \in Tasks
  PROVE  /\ task[t] \in TaskState /\ TaskTyped(t) /\ Present(t) /\ Typed /\ QueueOK
         /\ DOMAIN task = Tasks /\ sessionVersion \in Nat
         /\ task[t].tok \in Tokens \cup {None} /\ task[t].ver \in Nat
BY DEF IInv, TaskTyped, Typed, TaskState

\* The call as it goes on, after one or two of its fields were set.
LEMMA PcSet ==
  ASSUME IInv, NEW t \in Tasks,
         NEW p \in {"idle", "queued", "sent", "answered", "failed", "onSuccess",
                    "unauthorized", "waiting", "refresh", "renewed", "denied"},
         task' = [task EXCEPT ![t].pc = p]
  PROVE  /\ task' = [task EXCEPT ![t] = task'[t]] /\ task'[t] \in TaskState
         /\ task'[t].kind = task[t].kind /\ task'[t].pc = p /\ task'[t].ver = task[t].ver
         /\ task'[t].acct = task[t].acct /\ task'[t].tok = task[t].tok
         /\ task'[t].retry = task[t].retry
<1> DEFINE n == [task[t] EXCEPT !.pc = p]
<1>f. task[t] \in TaskState
  BY Facts
<1>1. /\ n \in TaskState /\ n.kind = task[t].kind /\ n.pc = p /\ n.ver = task[t].ver
      /\ n.acct = task[t].acct /\ n.tok = task[t].tok /\ n.retry = task[t].retry
  BY ZenonT(60), <1>f, SetPc
<1>2. task' = [task EXCEPT ![t] = n] /\ task'[t] = n
  BY Facts
<1> HIDE DEF n
<1>q. QED BY <1>1, <1>2

LEMMA PcTokSet ==
  ASSUME IInv, NEW t \in Tasks,
         NEW p \in {"sent", "answered", "renewed", "denied", "refresh"},
         NEW x \in Tokens \cup {None},
         task' = [task EXCEPT ![t].pc = p, ![t].tok = x]
  PROVE  /\ task' = [task EXCEPT ![t] = task'[t]] /\ task'[t] \in TaskState
         /\ task'[t].kind = task[t].kind /\ task'[t].pc = p /\ task'[t].ver = task[t].ver
         /\ task'[t].acct = task[t].acct /\ task'[t].tok = x
<1> DEFINE m == [task[t] EXCEPT !.pc = p]
           n == [m EXCEPT !.tok = x]
<1>0. p \in {"idle", "queued", "sent", "answered", "failed", "onSuccess",
            "unauthorized", "waiting", "refresh", "renewed", "denied"}
  OBVIOUS
<1>f. task[t] \in TaskState
  BY Facts
<1>1. /\ m \in TaskState /\ m.kind = task[t].kind /\ m.pc = p /\ m.ver = task[t].ver
      /\ m.acct = task[t].acct /\ m.tok = task[t].tok /\ m.retry = task[t].retry
  BY ZenonT(60), <1>0, <1>f, SetPc
<1>2. task' = [task EXCEPT ![t] = n] /\ task'[t] = n
  BY Facts
<1> HIDE DEF m
<1>3. n \in TaskState /\ n.kind = m.kind /\ n.pc = m.pc /\ n.ver = m.ver
      /\ n.acct = m.acct /\ n.tok = x
  BY <1>1, SetTok
<1> HIDE DEF n
<1>q. QED BY <1>1, <1>2, <1>3

LEMMA PcVerSet ==
  ASSUME IInv, NEW t \in Tasks, NEW v \in Nat,
         task' = [task EXCEPT ![t].pc = "onSuccess", ![t].ver = v]
  PROVE  /\ task' = [task EXCEPT ![t] = task'[t]] /\ task'[t] \in TaskState
         /\ task'[t].kind = task[t].kind /\ task'[t].pc = "onSuccess" /\ task'[t].ver = v
         /\ task'[t].acct = task[t].acct /\ task'[t].tok = task[t].tok
<1> DEFINE m == [task[t] EXCEPT !.pc = "onSuccess"]
           n == [m EXCEPT !.ver = v]
<1>f. task[t] \in TaskState
  BY Facts
<1>1. m \in TaskState /\ m.kind = task[t].kind /\ m.pc = "onSuccess"
      /\ m.acct = task[t].acct /\ m.tok = task[t].tok
  BY <1>f, SetPc
<1>2. task' = [task EXCEPT ![t] = n] /\ task'[t] = n
  BY Facts
<1> HIDE DEF m
<1>3. n \in TaskState /\ n.kind = m.kind /\ n.pc = m.pc /\ n.ver = v
      /\ n.acct = m.acct /\ n.tok = m.tok
  BY <1>1, SetVer
<1> HIDE DEF n
<1>q. QED BY <1>1, <1>2, <1>3

LEMMA PcRetrySet ==
  ASSUME IInv, NEW t \in Tasks, NEW p \in {"waiting", "queued"},
         task' = [task EXCEPT ![t].pc = p, ![t].retry = TRUE]
  PROVE  /\ task' = [task EXCEPT ![t] = task'[t]] /\ task'[t] \in TaskState
         /\ task'[t].kind = task[t].kind /\ task'[t].pc = p /\ task'[t].ver = task[t].ver
         /\ task'[t].acct = task[t].acct /\ task'[t].tok = task[t].tok
<1> DEFINE m == [task[t] EXCEPT !.pc = p]
           n == [m EXCEPT !.retry = TRUE]
<1>0. p \in {"idle", "queued", "sent", "answered", "failed", "onSuccess",
            "unauthorized", "waiting", "refresh", "renewed", "denied"}
  OBVIOUS
<1>f. task[t] \in TaskState
  BY Facts
<1>1. /\ m \in TaskState /\ m.kind = task[t].kind /\ m.pc = p /\ m.ver = task[t].ver
      /\ m.acct = task[t].acct /\ m.tok = task[t].tok /\ m.retry = task[t].retry
  BY ZenonT(60), <1>0, <1>f, SetPc
<1>2. task' = [task EXCEPT ![t] = n] /\ task'[t] = n
  BY Facts
<1> HIDE DEF m
<1>3. n \in TaskState /\ n.kind = m.kind /\ n.pc = m.pc /\ n.ver = m.ver
      /\ n.acct = m.acct /\ n.tok = m.tok
  BY <1>1, SetRetry
<1> HIDE DEF n
<1>q. QED BY <1>1, <1>2, <1>3

\* A login goes out when its turn comes.
LEMMA SendLoginKeeps == ASSUME IInv, NEW t \in Tasks, SendLogin(t) PROVE IInv'
<1>1. /\ task[t].kind = "login" /\ task[t].pc = "queued" /\ Running(t) /\ InQueue(t)
      /\ UNCHANGED <<server, browser, token, user, perms, sessionVersion, cookieToken, cache,
                     inputs, history>>
  BY DEF SendLogin, InQueue
<1>2. CASE task[t].ver = sessionVersion
  <2>1. task' = [task EXCEPT ![t].pc = "sent"] /\ UNCHANGED queue
    BY <1>2 DEF SendLogin
  <2>2. /\ task' = [task EXCEPT ![t] = task'[t]] /\ task'[t] \in TaskState
        /\ task'[t].kind = "login" /\ task'[t].pc = "sent" /\ task'[t].ver = task[t].ver
        /\ task'[t].acct = task[t].acct
    BY <1>1, <2>1, PcSet
  <2>3. UNCHANGED <<wanted, otherTab>>
    BY <1>1 DEF history
  <2>4. TaskTyped(t)' /\ (InQueue(t)' <=> InQueue(t))
    BY <1>1, <2>2, Facts DEF TaskTyped, InQueue
  <2>5. Present(t)'
    BY <1>1, <2>1, <2>2, <2>3, Facts DEF Present, Last
  <2>6. otherTab = "none" /\ user # None => OwnRefresh(t)'
    BY <1>1 DEF IInv, Intended, OwnRefresh
  <2>7. RightBearer(t)' /\ Unsigned(t)'
    BY <2>2 DEF RightBearer, Unsigned
  <2>q. QED BY <1>1, <2>1, <2>2, <2>4, <2>5, <2>6, <2>7, Moves, Facts DEF server, Typed
<1>3. CASE task[t].ver # sessionVersion
  <2>1. Leave /\ task' = [task EXCEPT ![t] = Idle]
    BY <1>3 DEF SendLogin, Ends
  <2>2. task'[t] = Idle /\ task' = [u \in Tasks |-> task'[u]]
        /\ \A u \in Tasks \ {t} : task'[u] = task[u]
    BY <2>1, Facts
  <2>q. QED BY <1>1, <2>1, <2>2, Leaves DEF browser, history
<1>q. QED BY <1>2, <1>3

\* The server's answer to a login, or none.
LEMMA ServeLoginKeeps == ASSUME IInv, NEW t \in Tasks, ServeLogin(t) PROVE IInv'
<1>1. /\ task[t].kind = "login" /\ task[t].pc = "sent" /\ InQueue(t)
      /\ UNCHANGED <<tokenVersion, scope, browser, token, user, perms, sessionVersion,
                     cookieToken, cache, queue, inputs, history>>
      /\ UNCHANGED <<wanted, otherTab>>
  BY DEF ServeLogin, InQueue, server, session, history
<1>2. PICK p \in {"answered", "failed"}, x \in Tokens \cup {None} :
        /\ \/ p = "answered" /\ task' = [task EXCEPT ![t].pc = p, ![t].tok = x]
           \/ task' = [task EXCEPT ![t].pc = p] /\ x = task[t].tok
        /\ p = "answered" => x \in Tokens /\ x.acct = task[t].acct
  <2> DEFINE x == [acct |-> task[t].acct, ver |-> tokenVersion[task[t].acct],
                   scope |-> scope[task[t].acct]]
  <2>1. x \in Tokens /\ x.acct = task[t].acct
    BY <1>1, Facts DEF Tokens, TaskTyped, Typed
  <2>2. task' = [task EXCEPT ![t].pc = "answered", ![t].tok = x]
        \/ task' = [task EXCEPT ![t].pc = "failed"]
    BY DEF ServeLogin
  <2> HIDE DEF x
  <2>q. QED BY <2>1, <2>2, Facts
<1>3. /\ task' = [task EXCEPT ![t] = task'[t]] /\ task'[t] \in TaskState
      /\ task'[t].kind = "login" /\ task'[t].pc = p /\ task'[t].ver = task[t].ver
      /\ task'[t].acct = task[t].acct /\ task'[t].tok = x
  <2>1. CASE p = "answered" /\ task' = [task EXCEPT ![t].pc = p, ![t].tok = x]
    BY <1>1, <2>1, PcTokSet
  <2>2. CASE task' = [task EXCEPT ![t].pc = p] /\ x = task[t].tok
    BY <1>1, <2>2, PcSet
  <2>q. QED BY <1>2, <2>1, <2>2
<1>4. TaskTyped(t)' /\ (InQueue(t)' <=> InQueue(t))
  BY <1>1, <1>2, <1>3, Facts DEF TaskTyped, InQueue
<1>5. Present(t)'
  BY <1>1, <1>3, Facts DEF Present, Last
<1>6. otherTab = "none" /\ user # None => OwnRefresh(t)'
  BY <1>1 DEF IInv, Intended, OwnRefresh
<1>7. RightBearer(t)' /\ Unsigned(t)'
  BY <1>3 DEF RightBearer, Unsigned
<1>q. QED BY <1>1, <1>3, <1>4, <1>5, <1>6, <1>7, Moves, Facts DEF Typed

\* A logout goes out with the bearer chosen when its turn comes.
LEMMA SendLogoutKeeps == ASSUME IInv, NEW t \in Tasks, SendLogout(t) PROVE IInv'
<1>1. /\ task[t].kind = "logout" /\ task[t].pc = "queued" /\ Running(t) /\ InQueue(t)
      /\ UNCHANGED <<tokenVersion, scope, browser, token, user, perms, sessionVersion,
                     cookieToken, cache, queue, inputs, history>>
      /\ UNCHANGED <<cookie, wanted, otherTab>>
  BY DEF SendLogout, InQueue, server, session, history, browser
<1> DEFINE x == IF cookieToken = None THEN task[t].tok ELSE cookieToken
<1>2. x \in Tokens \cup {None} /\ task' = [task EXCEPT ![t].pc = "sent", ![t].tok = x]
  BY Facts DEF SendLogout, Typed
<1>x. /\ cookieToken = None => x = task[t].tok
      /\ cookieToken # None => x = cookieToken
  OBVIOUS
<1> HIDE DEF x
<1>3. /\ task' = [task EXCEPT ![t] = task'[t]] /\ task'[t] \in TaskState
      /\ task'[t].kind = "logout" /\ task'[t].pc = "sent" /\ task'[t].ver = task[t].ver
      /\ task'[t].tok = x
  BY <1>1, <1>2, PcTokSet
<1>4. TaskTyped(t)' /\ (InQueue(t)' <=> InQueue(t)) /\ Present(t)'
  BY <1>1, <1>3, Facts DEF TaskTyped, InQueue, Present
<1>5. otherTab = "none" /\ user # None => OwnRefresh(t)'
  BY <1>1 DEF IInv, Intended, OwnRefresh
<1>6. otherTab # "cookie" /\ cookie # None =>
        RightBearer(t)' /\ (cookieToken = None => Unsigned(t)')
  BY <1>1, <1>3, <1>x DEF IInv, CookieKnown, RightBearer, Unsigned
<1>q. QED BY <1>1, <1>3, <1>4, <1>5, <1>6, Moves, Facts DEF Typed

\* The server's answer to a logout, or none.
LEMMA ServeLogoutKeeps == ASSUME IInv, NEW t \in Tasks, ServeLogout(t) PROVE IInv'
<1>1. /\ task[t].kind = "logout" /\ task[t].pc = "sent" /\ InQueue(t)
      /\ UNCHANGED <<scope, browser, token, user, perms, sessionVersion,
                     cookieToken, cache, queue, inputs, history>>
  BY DEF ServeLogout, InQueue, session
<1>2. tokenVersion' \in [Accounts -> Nat]
  <2>1. task[t].tok # None => task[t].tok.acct \in Accounts
    BY Facts DEF Tokens
  <2>q. QED BY <2>1, Facts DEF ServeLogout, Typed
<1>3. PICK p \in {"answered", "failed"} : task' = [task EXCEPT ![t].pc = p]
  BY DEF ServeLogout
<1>4. /\ task' = [task EXCEPT ![t] = task'[t]] /\ task'[t] \in TaskState
      /\ task'[t].kind = "logout" /\ task'[t].pc = p /\ task'[t].ver = task[t].ver
      /\ task'[t].tok = task[t].tok
  BY <1>1, <1>3, PcSet
<1>5. TaskTyped(t)' /\ (InQueue(t)' <=> InQueue(t)) /\ Present(t)'
  BY <1>1, <1>4, Facts DEF TaskTyped, InQueue, Present
<1>6. otherTab = "none" /\ user # None => OwnRefresh(t)'
  BY <1>1 DEF IInv, Intended, OwnRefresh
<1>7. RightBearer(t)' /\ (Unsigned(t) => Unsigned(t)')
  BY <1>1, <1>4 DEF RightBearer, Unsigned
<1>q. QED BY <1>1, <1>2, <1>4, <1>5, <1>6, <1>7, Moves, Facts DEF Typed, IInv, CookieKnown

\* A read goes out with the token of what is shown.
LEMMA StartReadKeeps == ASSUME IInv, NEW t \in Tasks, StartRead(t) PROVE IInv'
<1>1. /\ task[t] = Idle /\ user # None /\ inputs' \in Nat
      /\ UNCHANGED <<tokenVersion, scope, browser, token, user, perms, sessionVersion,
                     cookieToken, cache, queue, history>>
  BY Facts DEF StartRead, Input, session, server, Typed
<1>2. /\ task' = [task EXCEPT ![t] = task'[t]]
      /\ task'[t] = ReadCall(sessionVersion, token)
  BY Facts DEF StartRead, ReadCall
<1>v. sessionVersion \in Nat /\ token \in Tokens \cup {None}
  BY Facts DEF Typed
<1>3. /\ task'[t] \in TaskState /\ task'[t].kind = "read" /\ task'[t].pc = "sent"
      /\ task'[t].ver = sessionVersion /\ task'[t].tok = token
  BY <1>2, <1>v, NewRead
<1>5. TaskTyped(t)' /\ ~InQueue(t)' /\ ~InQueue(t)
  BY <1>1, <1>3, Facts, IdleTask DEF TaskTyped, InQueue
<1>6. Present(t)'
  BY <1>1, <1>3 DEF IInv, TokenShown, Present, SameScope
<1>7. RightBearer(t)' /\ Unsigned(t)' /\ OwnRefresh(t)'
  BY <1>3, <1>5 DEF RightBearer, Unsigned, OwnRefresh
<1>q. QED BY <1>1, <1>2, <1>5, <1>6, <1>7, Moves, Facts DEF Typed

\* The server's answer to a read, or none.
LEMMA ServeReadKeeps == ASSUME IInv, NEW t \in Tasks, ServeRead(t) PROVE IInv'
<1>1. /\ task[t].kind = "read" /\ task[t].pc = "sent"
      /\ UNCHANGED <<tokenVersion, scope, browser, token, user, perms, sessionVersion,
                     cookieToken, cache, queue, inputs, history>>
  BY DEF ServeRead, session, server
<1>2. PICK p \in {"answered", "unauthorized", "failed"} :
        (p = "answered" => task[t].tok # None) /\ task' = [task EXCEPT ![t].pc = p]
  BY DEF ServeRead
<1>3. /\ task' = [task EXCEPT ![t] = task'[t]] /\ task'[t] \in TaskState
      /\ task'[t].kind = "read" /\ task'[t].pc = p /\ task'[t].ver = task[t].ver
      /\ task'[t].tok = task[t].tok
  BY <1>1, <1>2, PcSet
<1>4. TaskTyped(t)' /\ ~InQueue(t)' /\ ~InQueue(t)
  BY <1>1, <1>2, <1>3, Facts DEF TaskTyped, InQueue
<1>5. Present(t)'
  BY <1>1, <1>3, Facts DEF Present, SameScope
<1>6. RightBearer(t)' /\ Unsigned(t)' /\ OwnRefresh(t)'
  BY <1>3, <1>4 DEF RightBearer, Unsigned, OwnRefresh
<1>q. QED BY <1>1, <1>3, <1>4, <1>5, <1>6, Moves, Facts DEF Typed

\* A refused read ends, waits for the refresh under way, or starts one.
LEMMA ReadUnauthorizedKeeps == ASSUME IInv, NEW t \in Tasks, ReadUnauthorized(t) PROVE IInv'
<1>1. /\ task[t].kind = "read" /\ task[t].pc = "unauthorized" /\ ~InQueue(t)
      /\ UNCHANGED <<tokenVersion, scope, browser, token, user, perms, sessionVersion,
                     cookieToken, cache, inputs, history>>
      /\ UNCHANGED <<cookie, stored, wanted, otherTab>>
  BY DEF ReadUnauthorized, session, server, InQueue, browser, history
<1>2. CASE task' = [task EXCEPT ![t] = Idle] /\ UNCHANGED queue
  <2>1. task'[t] = Idle
    BY <1>2, Facts
  <2>2. TaskTyped(t)' /\ ~InQueue(t)' /\ Present(t)' /\ RightBearer(t)' /\ Unsigned(t)'
        /\ OwnRefresh(t)'
    BY <1>1, <2>1, IdleTask, Facts
       DEF TaskTyped, InQueue, Present, RightBearer, Unsigned, OwnRefresh
  <2>q. QED BY <1>1, <1>2, <2>2, Moves, Facts DEF Typed
<1>3. CASE /\ task[t].ver = sessionVersion /\ UNCHANGED queue
           /\ task' = [task EXCEPT ![t].pc = "waiting", ![t].retry = TRUE]
  <2>1. /\ task' = [task EXCEPT ![t] = task'[t]] /\ task'[t] \in TaskState
        /\ task'[t].kind = "read" /\ task'[t].pc = "waiting" /\ task'[t].ver = task[t].ver
    BY <1>1, <1>3, PcRetrySet
  <2>2. TaskTyped(t)' /\ ~InQueue(t)' /\ RightBearer(t)' /\ Unsigned(t)' /\ OwnRefresh(t)'
    BY <1>1, <2>1, Facts DEF TaskTyped, InQueue, RightBearer, Unsigned, OwnRefresh
  <2>3. Present(t)'
    BY <1>1, <2>1, Facts DEF Present
  <2>q. QED BY <1>1, <1>3, <2>1, <2>2, <2>3, Moves, Facts DEF Typed
<1>4. CASE /\ task[t].ver = sessionVersion /\ Enqueue(t)
           /\ task' = [task EXCEPT ![t].pc = "queued", ![t].retry = TRUE]
  <2>1. /\ task' = [task EXCEPT ![t] = task'[t]] /\ task'[t] \in TaskState
        /\ task'[t].kind = "read" /\ task'[t].pc = "queued" /\ task'[t].ver = task[t].ver
    BY <1>1, <1>4, PcRetrySet
  <2>2. /\ \A u \in Tasks \ {t} : task'[u] = task[u]
        /\ task' = [u \in Tasks |-> task'[u]]
    BY <2>1, Facts DEF Typed
  <2>3. TaskTyped(t)' /\ InQueue(t)' /\ RightBearer(t)' /\ Unsigned(t)' /\ OwnRefresh(t)'
    BY <1>1, <2>1, Facts DEF TaskTyped, InQueue, RightBearer, Unsigned, OwnRefresh
  <2>4. user # None /\ Present(t)'
    BY <1>1, <1>4, <2>1, Facts DEF Present
  <2>5. QueueOK' /\ queue' \in Seq(Tasks)
    BY <1>1, <1>4, <2>1, <2>2, <2>3, QueueEnters, Facts
  <2>6. Typed'
    BY <1>1, <2>2, <2>5, Facts DEF Typed
  <2>7. \A u \in Tasks : TaskTyped(u)'
    BY <1>1, <2>2, <2>3, OthersTyped, Facts DEF IInv
  <2>8. ASSUME NEW u \in Tasks \ {t} PROVE Present(u)'
    BY <1>1, <2>2, <2>4, Facts DEF Present, SameScope
  <2>9. TokenShown' /\ CacheIsTheSessions'
    BY <1>1 DEF IInv, TokenShown, CacheIsTheSessions, SameScope
  <2>10. Intended'
    <3>1. ASSUME NEW u \in Tasks \ {t} PROVE OwnRefresh(u) => OwnRefresh(u)'
      BY <1>1, <2>2 DEF OwnRefresh, InQueue
    <3>q. QED BY <1>1, <2>3, <3>1 DEF IInv, Intended
  <2>11. CookieKnown'
    <3>1. ASSUME NEW u \in Tasks \ {t}
          PROVE  (RightBearer(u) => RightBearer(u)') /\ (Unsigned(u) => Unsigned(u)')
      BY <1>1, <2>2 DEF RightBearer, Unsigned
    <3>q. QED BY <1>1, <2>3, <3>1 DEF IInv, CookieKnown
  <2>q. QED BY <2>4, <2>5, <2>6, <2>7, <2>8, <2>9, <2>10, <2>11 DEF IInv
<1>q. QED BY <1>2, <1>3, <1>4 DEF ReadUnauthorized, Ends

\* A refresh goes out with the cookie that the browser has when its turn comes.
LEMMA SendRefreshKeeps == ASSUME IInv, NEW t \in Tasks, SendRefresh(t) PROVE IInv'
<1>1. /\ task[t].kind \in {"read", "boot"} /\ task[t].pc = "queued" /\ Running(t) /\ InQueue(t)
      /\ UNCHANGED <<tokenVersion, scope, browser, token, user, perms, sessionVersion,
                     cookieToken, cache, queue, inputs, history>>
      /\ UNCHANGED <<wanted, otherTab>>
  BY DEF SendRefresh, Refresh, session, server, InQueue, history
<1>2. PICK p \in {"refresh", "denied"} : task' = [task EXCEPT ![t].pc = p, ![t].tok = cookie]
  BY DEF SendRefresh
<1>3. /\ task' = [task EXCEPT ![t] = task'[t]] /\ task'[t] \in TaskState
      /\ task'[t].kind = task[t].kind /\ task'[t].pc = p /\ task'[t].ver = task[t].ver
      /\ task'[t].tok = cookie
  <2>1. cookie \in Tokens \cup {None}
    BY Facts DEF Typed
  <2>2. p \in {"sent", "answered", "renewed", "denied", "refresh"}
    OBVIOUS
  <2>q. QED BY <1>2, <2>1, <2>2, PcTokSet
<1>4. TaskTyped(t)' /\ InQueue(t)' /\ RightBearer(t)' /\ Unsigned(t)'
  BY <1>1, <1>3, Facts DEF TaskTyped, InQueue, RightBearer, Unsigned
<1>5. Present(t)'
  BY <1>1, <1>3, Facts DEF Present
<1>6. otherTab = "none" /\ user # None => OwnRefresh(t)'
  BY <1>1, <1>3 DEF IInv, Intended, OwnRefresh
<1>q. QED BY <1>1, <1>3, <1>4, <1>5, <1>6, Moves, Facts DEF Typed

\* The server's answer to a refresh, or none.
LEMMA ServeRefreshKeeps == ASSUME IInv, NEW t \in Tasks, ServeRefresh(t) PROVE IInv'
<1>1. /\ task[t].kind \in {"read", "boot"} /\ task[t].pc = "refresh" /\ InQueue(t)
      /\ UNCHANGED <<tokenVersion, scope, browser, token, user, perms, sessionVersion,
                     cookieToken, cache, queue, inputs, history>>
      /\ UNCHANGED <<wanted, otherTab>>
  BY DEF ServeRefresh, Refresh, session, server, InQueue, history
<1>2. PICK p \in {"renewed", "denied"}, x \in Tokens \cup {None} :
        /\ task' = [task EXCEPT ![t] = task'[t]] /\ task'[t] \in TaskState
        /\ task'[t].kind = task[t].kind /\ task'[t].pc = p /\ task'[t].ver = task[t].ver
        /\ task'[t].tok = x
        /\ p = "renewed" => x \in Tokens /\ task[t].tok # None /\ x.acct = task[t].tok.acct
  <2>1. CASE task' = [task EXCEPT ![t].pc = "denied"]
    <3>1. "denied" \in {"idle", "queued", "sent", "answered", "failed", "onSuccess",
                        "unauthorized", "waiting", "refresh", "renewed", "denied"}
      OBVIOUS
    <3>q. QED BY <2>1, <3>1, PcSet, Facts
  <2>2. CASE /\ task[t].tok # None
             /\ task' = [task EXCEPT ![t].pc = "renewed",
                   ![t].tok = [acct |-> task[t].tok.acct,
                               ver |-> tokenVersion[task[t].tok.acct],
                               scope |-> scope[task[t].tok.acct]]]
    <3> DEFINE x == [acct |-> task[t].tok.acct, ver |-> tokenVersion[task[t].tok.acct],
                     scope |-> scope[task[t].tok.acct]]
    <3>1. task[t].tok.acct \in Accounts
      BY <2>2, Facts DEF Tokens
    <3>2. x \in Tokens /\ x.acct = task[t].tok.acct
      BY <3>1, Facts DEF Tokens, Typed
    <3>3. task' = [task EXCEPT ![t].pc = "renewed", ![t].tok = x]
      BY <2>2
    <3> HIDE DEF x
    <3>4. "renewed" \in {"sent", "answered", "renewed", "denied", "refresh"}
      OBVIOUS
    <3>q. QED BY ZenonT(60), <2>2, <3>2, <3>3, <3>4, PcTokSet
  <2>q. QED BY <2>1, <2>2 DEF ServeRefresh
<1>3. TaskTyped(t)' /\ InQueue(t)' /\ RightBearer(t)' /\ Unsigned(t)'
  BY <1>1, <1>2, Facts DEF TaskTyped, InQueue, RightBearer, Unsigned
<1>4. Present(t)'
  BY <1>1, <1>2, Facts DEF Present
<1>5. otherTab = "none" /\ user # None => OwnRefresh(t)'
  BY <1>1, <1>2 DEF IInv, Intended, OwnRefresh
<1>q. QED BY <1>1, <1>2, <1>3, <1>4, <1>5, Moves, Facts DEF Typed

\* An answer to a read is cached if its session is the present one.
LEMMA ReadDoneKeeps == ASSUME IInv, NEW t \in Tasks, ReadDone(t) PROVE IInv'
<1>1. /\ task[t].kind = "read" /\ task[t].pc \in {"answered", "failed"}
      /\ task' = [task EXCEPT ![t] = Idle]
      /\ UNCHANGED <<tokenVersion, scope, browser, token, user, perms, sessionVersion,
                     cookieToken, queue, inputs, history>>
  BY DEF ReadDone, Ends, server
<1>2. task'[t] = Idle
  BY <1>1, Facts
<1>3. /\ TaskTyped(t)' /\ ~InQueue(t)' /\ ~InQueue(t) /\ Present(t)' /\ RightBearer(t)'
      /\ Unsigned(t)' /\ OwnRefresh(t)'
  BY <1>1, <1>2, IdleTask, Facts DEF TaskTyped, InQueue, Present, RightBearer, Unsigned, OwnRefresh
<1>4. CacheIsTheSessions'
  <2>1. task[t].pc = "answered" => task[t].tok \in Tokens
    BY <1>1, Facts DEF TaskTyped
  <2>2. task[t].pc = "answered" => task[t].tok # None
    BY <2>1, AuthAssumption
  <2>3. task[t].pc = "answered" /\ task[t].ver = sessionVersion => SameScope(task[t].tok)
    BY <1>1, <2>2, Facts DEF Present
  <2>q. QED BY <1>1, <2>3 DEF IInv, ReadDone, CacheIsTheSessions, SameScope
<1>q. QED BY <1>1, <1>3, <1>4, Moves, Facts DEF Typed

-----------------------------------------------------------------------------
(* Calls that give the lease up *)

\* What a call that holds the lease tells of the others.
LEMMA Ended ==
  ASSUME IInv, NEW t \in Tasks, task' = [task EXCEPT ![t] = Idle]
  PROVE  /\ task'[t] = Idle /\ task' = [u \in Tasks |-> task'[u]]
         /\ \A u \in Tasks \ {t} : task'[u] = task[u]
BY Facts

\* An answer to a login: the cookie is the browser's in any case, and the
\* session begins if it is still the one that asked.
LEMMA LoginAnsweredKeeps == ASSUME IInv, NEW t \in Tasks, LoginAnswered(t) PROVE IInv'
<1> DEFINE x == task[t].tok
<1>1. /\ task[t].kind = "login" /\ task[t].pc = "answered" /\ InQueue(t) /\ Leave
      /\ cookie' = x /\ cookieToken' = x /\ ThisTabsCookie
      /\ UNCHANGED <<server, inputs, wanted>>
  BY DEF LoginAnswered, InQueue, ApplyAuthCookieResponse
<1>2. /\ x \in Tokens /\ x.acct = task[t].acct /\ x.acct \in Accounts /\ x # None
      /\ x.scope \in {0, 1}
  BY <1>1, Facts, AuthAssumption DEF TaskTyped, Tokens
<1> HIDE DEF x
<1>3. /\ Running(t) /\ queue # <<>> /\ Head(queue) = t
      /\ \A u \in Tasks \ {t} : InQueue(u) => task[u].pc = "queued"
  BY <1>1, Holder, Facts
<1>4. CASE task[t].ver # sessionVersion
  <2>1. /\ task' = [task EXCEPT ![t] = Idle]
        /\ UNCHANGED <<stored, token, user, perms, sessionVersion, cache>>
    BY <1>4 DEF LoginAnswered, ApplyAuthCookieResponse, Ends
  <2>2. otherTab = "none" /\ user # None => FALSE
    BY <1>1 DEF IInv, Intended, OwnRefresh
  <2>q. QED BY <1>1, <1>2, <1>3, <2>1, <2>2, Ended, Leaves
<1>5. CASE task[t].ver = sessionVersion
  <2>1. user = None /\ Last(t)
    BY <1>1, <1>5, Facts DEF Present
  <2>2. ~SameScope(x)
    BY <1>2, <2>1, AuthAssumption DEF SameScope
  <2>3. /\ sessionVersion' = sessionVersion + 1 /\ cache' = {} /\ token' = x
        /\ user' = x.acct /\ perms' = x.scope /\ stored' = x.acct
    BY <1>5, <2>2 DEF LoginAnswered, ApplyAuthCookieResponse, SetAuth, x
  <2>4. task' = [task EXCEPT ![t].pc = "onSuccess", ![t].ver = sessionVersion']
    BY <1>5 DEF LoginAnswered
  <2>v. sessionVersion' \in Nat /\ sessionVersion' > sessionVersion
        /\ sessionVersion <= sessionVersion'
    BY <2>3, Facts
  <2>5. /\ task' = [task EXCEPT ![t] = task'[t]] /\ task'[t] \in TaskState
        /\ task'[t].kind = "login" /\ task'[t].pc = "onSuccess"
        /\ task'[t].ver = sessionVersion'
        /\ task'[t].acct = task[t].acct /\ task'[t].tok = x
    BY <1>1, <2>4, <2>v, PcVerSet DEF x
  <2>6. /\ \A u \in Tasks \ {t} : task'[u] = task[u]
        /\ task' = [u \in Tasks |-> task'[u]]
    BY <2>5, Facts
  <2>7. \A u \in Tasks : ~InQueue(u)'
    <3>1. queue \in Seq(Tasks) /\ Distinct(queue) /\ Head(queue) = queue[Len(queue)]
      BY <1>3, <2>1, Facts DEF Typed, QueueOK, Last
    <3>2. Places(queue) = {t}
      BY <1>3, <3>1, AloneInQueue
    <3>3. \A u \in Tasks \ {t} : ~InQueue(u)
      BY <3>2, Facts DEF QueueOK
    <3>q. QED BY <2>5, <2>6, <3>3 DEF InQueue
  <2>8. QueueOK' /\ queue' \in Seq(Tasks)
    <3>1. \A u \in Tasks \ {t} : ~InQueue(u)
      BY <2>6, <2>7 DEF InQueue
    <3>q. QED BY <1>1, <1>3, <2>7, <3>1, QueueLeaves, Facts DEF Leave
  <2>9. otherTab' \in {"none", "cookie", "past"} /\ (otherTab' = "none" => otherTab = "none")
    BY <1>1, Facts DEF Typed, ThisTabsCookie
  <2>10. Typed'
    BY <1>1, <1>2, <2>3, <2>v, <2>6, <2>8, <2>9, Facts DEF Typed, server
  <2>11. \A u \in Tasks : TaskTyped(u)'
    <3>1. TaskTyped(t)'
      BY <1>2, <2>5, <2>v DEF TaskTyped
    <3>q. QED BY <2>6, <2>v, <3>1, OthersTyped, Facts DEF IInv
  <2>12. \A u \in Tasks : Present(u)'
    <3>1. otherTab = "none" => task[t].acct \in wanted
      BY <1>1, <1>5, Facts DEF Present
    <3>2. Present(t)'
      BY <1>1, <2>3, <2>5, <2>9, <3>1 DEF Present, SameScope
    <3>q. QED BY <2>6, <2>v, <3>2, OthersPresent, Facts DEF IInv
  <2>13. TokenShown' /\ CacheIsTheSessions'
    BY <2>3 DEF TokenShown, CacheIsTheSessions, SameScope
  <2>14. Intended'
    <3>1. otherTab = "none" => task[t].acct \in wanted
      BY <1>1, <1>5, Facts DEF Present
    <3>q. QED BY <1>1, <1>2, <2>3, <2>7, <2>9, <3>1 DEF Intended, OwnRefresh
  <2>15. CookieKnown'
    <3>1. ASSUME NEW u \in Tasks PROVE RightBearer(u)'
      BY <2>7 DEF RightBearer, InQueue
    <3>q. QED BY <1>1, <1>2, <3>1 DEF CookieKnown
  <2>q. QED BY <2>8, <2>10, <2>11, <2>12, <2>13, <2>14, <2>15 DEF IInv
<1>q. QED BY <1>4, <1>5

\* onSuccess of a login sets what is shown already, or nothing.
LEMMA LoginSucceededKeeps == ASSUME IInv, NEW t \in Tasks, LoginSucceeded(t) PROVE IInv'
<1>1. /\ task[t].kind = "login" /\ task[t].pc = "onSuccess"
      /\ task' = [task EXCEPT ![t] = Idle]
      /\ UNCHANGED <<tokenVersion, scope, cookie, authTransition, cookieToken, queue, inputs,
                     history>>
      /\ UNCHANGED <<wanted, otherTab>>
  BY DEF LoginSucceeded, Ends, server, history
<1>2. /\ task'[t] = Idle /\ task' = [u \in Tasks |-> task'[u]]
      /\ \A u \in Tasks \ {t} : task'[u] = task[u]
  BY <1>1, Ended
<1>3. /\ TaskTyped(t)' /\ ~InQueue(t)' /\ ~InQueue(t) /\ Present(t)' /\ RightBearer(t)'
      /\ Unsigned(t)' /\ OwnRefresh(t)'
  <2>1. sessionVersion' \in Nat
    BY Facts DEF LoginSucceeded, SetAuth
  <2>q. QED BY <1>1, <1>2, <2>1, IdleTask
             DEF TaskTyped, InQueue, Present, RightBearer, Unsigned, OwnRefresh
<1>4. CASE task[t].ver # sessionVersion
  <2>1. UNCHANGED <<browser, token, user, perms, sessionVersion, cache>>
    BY <1>1, <1>4 DEF LoginSucceeded, browser
  <2>q. QED BY <1>1, <1>3, <2>1, Moves, Facts DEF Typed
<1>5. CASE task[t].ver = sessionVersion
  <2> DEFINE x == task[t].tok
  <2>1. SameScope(x) /\ x \in Tokens /\ x.acct \in Accounts
    BY <1>1, <1>5, Facts DEF Present, TaskTyped, Tokens
  <2>2. /\ token' = x /\ user' = user /\ perms' = perms /\ stored' = user
        /\ sessionVersion' = sessionVersion /\ cache' = cache
    BY <1>5, <2>1 DEF LoginSucceeded, SetAuth, SameScope
  <2> HIDE DEF x
  <2>3. Typed'
    BY <1>1, <1>2, <2>1, <2>2, Facts DEF Typed
  <2>4. \A u \in Tasks : TaskTyped(u)'
    BY <1>2, <1>3, <2>2, OthersTyped, Facts DEF IInv
  <2>5. QueueOK'
    <3>1. \A u \in Tasks : InQueue(u)' <=> InQueue(u)
      BY <1>2, <1>3 DEF InQueue
    <3>q. QED BY <1>1, <1>2, <1>3, <3>1, QueueStays, Facts
  <2>6. \A u \in Tasks : Present(u)'
    <3>1. ASSUME NEW u \in Tasks PROVE Last(u) => Last(u)'
      BY <1>1 DEF Last
    <3>q. QED BY <1>1, <1>2, <1>3, <2>2, <3>1, OthersPresent, Facts DEF IInv
  <2>7. TokenShown' /\ CacheIsTheSessions'
    BY <2>1, <2>2 DEF IInv, TokenShown, CacheIsTheSessions, SameScope
  <2>8. Intended'
    <3>1. ASSUME NEW u \in Tasks \ {t} PROVE OwnRefresh(u) => OwnRefresh(u)'
      BY <1>1, <1>2 DEF OwnRefresh, InQueue
    <3>q. QED BY <1>1, <1>3, <2>2, <3>1 DEF IInv, Intended
  <2>9. CookieKnown'
    <3>1. ASSUME NEW u \in Tasks \ {t}
          PROVE  (RightBearer(u) => RightBearer(u)') /\ (Unsigned(u) => Unsigned(u)')
      BY <1>1, <1>2 DEF RightBearer, Unsigned
    <3>2. ~Unsigned(t)
      BY <1>1 DEF Unsigned
    <3>q. QED BY <1>1, <1>3, <3>1, <3>2 DEF IInv, CookieKnown
  <2>q. QED BY <2>3, <2>4, <2>5, <2>6, <2>7, <2>8, <2>9 DEF IInv
<1>q. QED BY <1>4, <1>5

\* The end of a logout.
LEMMA LogoutDoneKeeps == ASSUME IInv, NEW t \in Tasks, LogoutDone(t) PROVE IInv'
<1>1. /\ task[t].kind = "logout" /\ task[t].pc \in {"answered", "failed"} /\ InQueue(t) /\ Leave
      /\ task' = [task EXCEPT ![t] = Idle]
      /\ UNCHANGED <<server, stored, token, user, perms, sessionVersion, cache, inputs, wanted>>
      /\ \/ UNCHANGED <<cookie, cookieToken, otherTab>>
         \/ cookie' = None /\ cookieToken' = None /\ ThisTabsCookie
  BY DEF LogoutDone, InQueue, Ends
<1>2. Running(t) /\ \A u \in Tasks \ {t} : InQueue(u) => task[u].pc = "queued"
  BY <1>1, Holder, Facts
<1>q. QED BY <1>1, <1>2, Ended, Leaves

\* An answer to a refresh: the session goes on with the new token, a change of
\* account or scope begins another, or the session that asked is over.
LEMMA RefreshAnsweredKeeps == ASSUME IInv, NEW t \in Tasks, RefreshAnswered(t) PROVE IInv'
<1> DEFINE x == task[t].tok
           W == Waiting(task[t].ver)
<1>1. /\ task[t].kind \in {"read", "boot"} /\ task[t].pc = "renewed" /\ InQueue(t) /\ Leave
      /\ cookie' = x /\ cookieToken' = x /\ ThisTabsCookie
      /\ UNCHANGED <<server, inputs, wanted>>
  BY DEF RefreshAnswered, Refresh, InQueue, ApplyAuthCookieResponse
<1>2. /\ x \in Tokens /\ x.acct \in Accounts /\ x # None /\ x.scope \in {0, 1}
  BY <1>1, Facts, AuthAssumption DEF TaskTyped, Tokens
<1>3. /\ Running(t) /\ queue # <<>> /\ Head(queue) = t
      /\ \A u \in Tasks \ {t} : InQueue(u) => task[u].pc = "queued"
  BY <1>1, Holder, Facts
<1>4. otherTab = "none" /\ user # None => x.acct \in wanted
  BY <1>1, <1>2 DEF IInv, Intended, OwnRefresh
<1>5. t \notin W /\ \A u \in W : u \in Tasks /\ task[u].pc = "waiting" /\ task[u].kind = "read"
                                 /\ task[u].ver = task[t].ver
  <2>1. ASSUME NEW u \in Tasks, task[u].pc = "waiting" PROVE task[u].kind = "read"
    <3>1. task[u].kind \in {"none", "login", "logout", "read", "boot"} /\ TaskTyped(u)
      BY Facts DEF TaskState
    <3>q. QED BY <2>1, <3>1, IdleTask DEF TaskTyped
  <2>q. QED BY <1>1, <2>1 DEF Waiting
<1> DEFINE again == IF task[t].ver = sessionVersion' /\ task[t].kind = "read"
                      THEN {t} \cup W ELSE {}
           over  == ({t} \cup W) \ again
<1>6. task' = [u \in Tasks |-> IF u \in again THEN [task[u] EXCEPT !.pc = "sent", !.tok = token']
                               ELSE IF u \in over THEN Idle ELSE task[u]]
  BY DEF RefreshAnswered
<1>7. task' = [u \in Tasks |-> task'[u]]
  BY <1>6
<1> HIDE DEF x, W
<1>8. CASE task[t].ver # sessionVersion
  <2>1. UNCHANGED <<stored, token, user, perms, sessionVersion, cache>>
    BY <1>8 DEF RefreshAnswered, ApplyAuthCookieResponse
  <2>2. again = {}
    BY <1>8, <2>1
  <2>3. task'[t] = Idle
    BY <1>6, <2>2
  <2>4. \A u \in Tasks \ {t} : task'[u] = task[u] \/ (task[u].pc = "waiting" /\ task'[u] = Idle)
    BY <1>5, <1>6, <2>2
  <2>q. QED BY <1>1, <1>2, <1>3, <1>4, <1>7, <2>1, <2>3, <2>4, Leaves
<1>9. CASE task[t].ver = sessionVersion
  <2>1. /\ token' = x /\ user' = x.acct /\ perms' = x.scope /\ stored' = x.acct
        /\ \/ SameScope(x) /\ sessionVersion' = sessionVersion /\ cache' = cache
           \/ sessionVersion' = sessionVersion + 1 /\ cache' = {}
    BY <1>9 DEF RefreshAnswered, ApplyAuthCookieResponse, SetAuth, x
  <2>v. sessionVersion' \in Nat /\ sessionVersion <= sessionVersion'
    BY <2>1, Facts
  <2>2. ASSUME NEW u \in again
        PROVE  /\ u \in Tasks /\ task'[u] \in TaskState /\ task'[u].kind = "read"
               /\ task'[u].pc = "sent" /\ task'[u].tok = x /\ task'[u].ver = sessionVersion'
               /\ ~InQueue(u)' /\ task[t].ver = sessionVersion'
    <3> DEFINE m == [task[u] EXCEPT !.pc = "sent"]
               n == [m EXCEPT !.tok = x]
    <3>1. u \in Tasks /\ task[u].kind = "read" /\ task[u].ver = sessionVersion'
          /\ task[t].ver = sessionVersion'
      BY <1>5, <2>2
    <3>2. m \in TaskState /\ m.kind = "read" /\ m.pc = "sent" /\ m.ver = sessionVersion'
      BY ZenonT(60), <3>1, Facts, SetPc
    <3>3. task'[u] = n
      BY <1>6, <2>1, <2>2, <3>1
    <3> HIDE DEF m
    <3>4. n \in TaskState /\ n.kind = "read" /\ n.pc = "sent" /\ n.ver = sessionVersion'
          /\ n.tok = x
      BY <1>2, <3>2, SetTok
    <3> HIDE DEF n
    <3>5. ~InQueue(u)'
      BY <3>3, <3>4 DEF InQueue
    <3>q. QED BY <3>1, <3>3, <3>4, <3>5
  <2>3. /\ \A u \in Tasks \ again : task'[u] = task[u] \/ task'[u] = Idle
        /\ t \notin again => task'[t] = Idle
        /\ \A u \in Tasks \ (W \cup {t}) : task'[u] = task[u]
        /\ \A u \in W \ again : task'[u] = Idle
        /\ again \subseteq W \cup {t}
    BY <1>5, <1>6
  <2> HIDE DEF again, over
  <2>4. \A u \in Tasks \ {t} : (InQueue(u)' <=> InQueue(u)) /\ (InQueue(u) => task'[u] = task[u])
    <3> SUFFICES ASSUME NEW u \in Tasks \ {t}
                 PROVE  (InQueue(u)' <=> InQueue(u)) /\ (InQueue(u) => task'[u] = task[u])
      OBVIOUS
    <3>1. CASE u \in W
      <4>1. ~InQueue(u)
        BY <1>5, <3>1 DEF InQueue
      <4>2. ~InQueue(u)'
        BY <2>2, <2>3, <3>1, IdleTask DEF InQueue
      <4>q. QED BY <4>1, <4>2
    <3>2. CASE u \notin W
      <4>1. task'[u] = task[u]
        BY <2>3, <3>2
      <4>q. QED BY <4>1 DEF InQueue
    <3>q. QED BY <3>1, <3>2
  <2>5. ~InQueue(t)'
    BY <2>2, <2>3, IdleTask DEF InQueue
  <2>6. QueueOK' /\ queue' \in Seq(Tasks) /\ \A u \in Tasks \ {t} : Last(u) => Last(u)'
    <3>1. \A u \in Tasks \ {t} : (InQueue(u)' <=> InQueue(u))
                                  /\ (InQueue(u) => task'[u].pc = "queued")
      BY <1>3, <2>4
    <3>q. QED BY <1>1, <1>3, <2>5, <3>1, QueueLeaves, Facts DEF Leave
  <2>7. otherTab' \in {"none", "cookie", "past"} /\ (otherTab' = "none" => otherTab = "none")
    BY <1>1, Facts DEF Typed, ThisTabsCookie
  <2>8. Typed'
    BY <1>1, <1>2, <1>7, <2>1, <2>v, <2>6, <2>7, Facts DEF Typed, server
  <2>9. \A u \in Tasks : TaskTyped(u)'
    <3> SUFFICES ASSUME NEW u \in Tasks PROVE TaskTyped(u)'
      OBVIOUS
    <3>1. CASE u \in again
      BY <2>v, <2>2, <3>1 DEF TaskTyped
    <3>2. CASE u \notin again
      BY <2>3, <2>v, <3>2, OthersTyped, Facts
    <3>q. QED BY <3>1, <3>2
  <2>10. \A u \in Tasks : Present(u)'
    <3> SUFFICES ASSUME NEW u \in Tasks PROVE Present(u)'
      OBVIOUS
    <3>1. CASE u \in again
      <4>1. user' # None
        BY <1>2, <2>1, AuthAssumption
      <4>q. QED BY <2>1, <2>2, <3>1, <4>1 DEF Present, SameScope
    <3>2. CASE u = t /\ u \notin again
      BY <2>3, <3>2, IdleTask DEF Present
    <3>3. CASE u # t /\ u \notin again
      <4>1. UNCHANGED <<sessionVersion, user, perms>> \/ sessionVersion' > sessionVersion
        BY <2>1, Facts DEF SameScope
      <4>2. task'[u] = task[u] \/ task'[u] = Idle
        BY <2>3, <3>3
      <4>q. QED BY <1>1, <2>v, <2>6, <2>7, <3>3, <4>1, <4>2, OthersPresent, Facts
    <3>q. QED BY <3>1, <3>2, <3>3
  <2>11. TokenShown' /\ CacheIsTheSessions'
    BY <2>1 DEF IInv, TokenShown, CacheIsTheSessions, SameScope
  <2>12. Intended'
    <3> SUFFICES ASSUME otherTab' = "none" PROVE Intended'
      BY DEF Intended
    <3>1. user # None
      BY <1>1, <1>9, Facts DEF Present
    <3>2. \A u \in Tasks : OwnRefresh(u)
      BY <2>7, <3>1 DEF IInv, Intended
    <3>3. ASSUME NEW u \in Tasks PROVE OwnRefresh(u)'
      BY <1>1, <2>4, <2>5, <3>2 DEF OwnRefresh
    <3>q. QED BY <1>1, <1>4, <2>1, <2>7, <3>1, <3>3 DEF Intended
  <2>13. CookieKnown'
    <3>1. ASSUME NEW u \in Tasks PROVE RightBearer(u)'
      <4>1. ~(task'[u].kind = "logout" /\ task'[u].pc = "sent")
        BY <1>3, <2>4, <2>5 DEF InQueue
      <4>q. QED BY <4>1 DEF RightBearer
    <3>q. QED BY <1>1, <1>2, <3>1 DEF CookieKnown
  <2>q. QED BY <2>6, <2>8, <2>9, <2>10, <2>11, <2>12, <2>13 DEF IInv
<1>q. QED BY <1>8, <1>9

-----------------------------------------------------------------------------
(* Steps that end a session *)

\* beginAuthTransition, as Cleared needs it.
LEMMA Begun ==
  ASSUME IInv, BeginAuthTransition
  PROVE  /\ user' = None /\ perms' = None /\ token' = None /\ stored' = None /\ cache' = {}
         /\ sessionVersion' = sessionVersion + 1 /\ sessionVersion' \in Nat
         /\ sessionVersion' > sessionVersion
         /\ cookieToken' = cookieToken \/ (cookieToken = None /\ cookieToken' = token)
<1>1. sessionVersion \in Nat
  BY DEF IInv, Typed
<1>q. QED BY <1>1 DEF BeginAuthTransition, ClearSession

\* A login starts.
LEMMA StartLoginKeeps ==
  ASSUME IInv, NEW t \in Tasks, NEW a \in Accounts, StartLogin(t, a) PROVE IInv'
<1>1. /\ task[t] = Idle /\ Enqueue(t) /\ wanted' = {a} /\ BeginAuthTransition
      /\ UNCHANGED <<server, cookie, otherTab>> /\ ~InQueue(t) /\ inputs' \in Nat
  BY IdleTask, Facts DEF StartLogin, Input, InQueue, Typed
<1>2. /\ sessionVersion' \in Nat /\ sessionVersion' > sessionVersion /\ user' = None
  BY <1>1, Begun
<1>3. /\ task'[t] = LoginCall(sessionVersion', a) /\ task' = [u \in Tasks |-> task'[u]]
      /\ \A u \in Tasks \ {t} : task'[u] = task[u]
  BY Facts DEF StartLogin, LoginCall
<1>4. /\ task'[t] \in TaskState /\ task'[t].kind = "login" /\ task'[t].pc = "queued"
      /\ task'[t].ver = sessionVersion' /\ task'[t].acct = a
  BY <1>2, <1>3, NewLogin
<1>5. TaskTyped(t)' /\ InQueue(t)'
  BY <1>2, <1>4 DEF TaskTyped, InQueue
<1>6. QueueOK' /\ queue' \in Seq(Tasks) /\ Last(t)'
  BY <1>1, <1>3, <1>4, <1>5, QueueEnters, Facts
<1>7. Present(t)'
  BY <1>1, <1>2, <1>4, <1>6 DEF Present
<1>q. QED BY <1>1, <1>3, <1>4, <1>5, <1>6, <1>7, Begun, Cleared

\* A logout's call, as Cleared needs it.
LEMMA LoggingOut ==
  ASSUME IInv, NEW t \in Tasks, BeginAuthTransition,
         task'[t] = LogoutCall(sessionVersion', token)
  PROVE  /\ TaskTyped(t)' /\ Present(t)' /\ InQueue(t)'
         /\ task'[t].kind = "logout" /\ task'[t].pc = "queued" /\ task'[t].tok = token
<1>1. sessionVersion' \in Nat /\ token \in Tokens \cup {None}
  BY Begun, Facts DEF Typed
<1>2. /\ task'[t] \in TaskState /\ task'[t].kind = "logout" /\ task'[t].pc = "queued"
      /\ task'[t].ver = sessionVersion' /\ task'[t].tok = token
  BY <1>1, NewLogout
<1>q. QED BY <1>1, <1>2 DEF TaskTyped, Present, InQueue

\* A logout starts.
LEMMA StartLogoutKeeps == ASSUME IInv, NEW t \in Tasks, StartLogout(t) PROVE IInv'
<1>1. /\ task[t] = Idle /\ Enqueue(t) /\ BeginAuthTransition
      /\ UNCHANGED <<server, cookie, otherTab>> /\ ~InQueue(t) /\ inputs' \in Nat
  BY IdleTask, Facts DEF StartLogout, Logout, Input, InQueue, Typed
<1>2. /\ task'[t] = LogoutCall(sessionVersion', token) /\ task' = [u \in Tasks |-> task'[u]]
      /\ \A u \in Tasks \ {t} : task'[u] = task[u]
  BY Facts DEF StartLogout, Logout, LogoutCall
<1>3. /\ TaskTyped(t)' /\ Present(t)' /\ InQueue(t)'
      /\ task'[t].kind = "logout" /\ task'[t].pc = "queued" /\ task'[t].tok = token
  BY <1>1, <1>2, LoggingOut
<1>4. QueueOK' /\ queue' \in Seq(Tasks)
  BY <1>1, <1>2, <1>3, QueueEnters, Facts
<1>q. QED BY <1>1, <1>2, <1>3, <1>4, Begun, Cleared

\* The others, when a call that holds the lease ends and takes the reads that
\* wait for it along.
LEMMA Rejected ==
  ASSUME IInv, NEW t \in Tasks, InQueue(t), task[t].pc # "queued",
         \A u \in Tasks \ {t} :
           task'[u] = task[u] \/ (task[u].pc = "waiting" /\ task'[u] = Idle)
  PROVE  /\ Running(t)
         /\ \A u \in Tasks \ {t} : (InQueue(u)' <=> InQueue(u))
                                   /\ (InQueue(u) => task'[u].pc = "queued")
<1>1. Running(t) /\ \A u \in Tasks \ {t} : InQueue(u) => task[u].pc = "queued"
  BY Holder, Facts
<1>2. ASSUME NEW u \in Tasks \ {t}
      PROVE  (InQueue(u)' <=> InQueue(u)) /\ (InQueue(u) => task'[u].pc = "queued")
  <2>1. CASE task'[u] = task[u]
    BY <1>1, <2>1 DEF InQueue
  <2>2. CASE task[u].pc = "waiting" /\ task'[u] = Idle
    BY <2>2, IdleTask DEF InQueue
  <2>q. QED BY <2>1, <2>2
<1>q. QED BY <1>1, <1>2

\* A login that failed goes on as a logout, if its session is the present one.
LEMMA LoginFailedKeeps == ASSUME IInv, NEW t \in Tasks, LoginFailed(t) PROVE IInv'
<1>1. /\ task[t].kind = "login" /\ task[t].pc = "failed" /\ InQueue(t)
      /\ UNCHANGED <<server, cookie, inputs, history>> /\ UNCHANGED <<wanted, otherTab>>
  BY DEF LoginFailed, InQueue, history
<1>2. CASE task[t].ver # sessionVersion
  <2>1. /\ Leave /\ task' = [task EXCEPT ![t] = Idle]
        /\ UNCHANGED <<token, user, perms, stored, sessionVersion, cookieToken, cache>>
    BY <1>2 DEF LoginFailed, Ends
  <2>2. Running(t)
    BY <1>1, Holder, Facts
  <2>q. QED BY <1>1, <2>1, <2>2, Ended, Leaves
<1>3. CASE task[t].ver = sessionVersion
  <2>1. BeginAuthTransition /\ queue' = Append(Tail(queue), t)
    BY <1>3 DEF LoginFailed, Logout
  <2>2. /\ task'[t] = LogoutCall(sessionVersion', token) /\ task' = [u \in Tasks |-> task'[u]]
        /\ \A u \in Tasks \ {t} : task'[u] = task[u]
    BY <1>3, Facts DEF LoginFailed, Logout, LogoutCall
  <2>3. /\ TaskTyped(t)' /\ Present(t)' /\ InQueue(t)'
        /\ task'[t].kind = "logout" /\ task'[t].pc = "queued" /\ task'[t].tok = token
    BY <2>1, <2>2, LoggingOut
  <2>4. QueueOK' /\ queue' \in Seq(Tasks)
    <3>1. /\ Running(t)
          /\ \A u \in Tasks \ {t} : (InQueue(u)' <=> InQueue(u))
                                    /\ (InQueue(u) => task'[u].pc = "queued")
      BY <1>1, <2>2, Rejected
    <3>q. QED BY <2>1, <2>3, <3>1, QueueReenters, Facts
  <2>5. inputs' \in Nat
    BY <1>1, Facts DEF Typed
  <2>q. QED BY <1>1, <2>1, <2>2, <2>3, <2>4, <2>5, Begun, Cleared
<1>q. QED BY <1>2, <1>3

\* The same for a refresh that failed for a read.
LEMMA RefreshFailedKeeps == ASSUME IInv, NEW t \in Tasks, RefreshFailed(t) PROVE IInv'
<1> DEFINE rejected == [u \in Tasks |-> IF u \in Waiting(task[t].ver) \cup {t}
                                          THEN Idle ELSE task[u]]
<1>1. /\ task[t].kind = "read" /\ task[t].pc = "denied" /\ InQueue(t)
      /\ UNCHANGED <<server, cookie, inputs, history>> /\ UNCHANGED <<wanted, otherTab>>
  BY DEF RefreshFailed, Refresh, InQueue, history
<1>r. /\ rejected[t] = Idle /\ rejected = [u \in Tasks |-> rejected[u]]
      /\ \A u \in Tasks \ {t} :
           rejected[u] = task[u] \/ (task[u].pc = "waiting" /\ rejected[u] = Idle)
  BY DEF Waiting
<1>2. CASE task[t].ver # sessionVersion
  <2>1. /\ Leave /\ task' = rejected
        /\ UNCHANGED <<token, user, perms, stored, sessionVersion, cookieToken, cache>>
    BY <1>2 DEF RefreshFailed, session
  <2> HIDE DEF rejected
  <2>2. Running(t)
    BY <1>1, Holder, Facts
  <2>q. QED BY <1>1, <1>r, <2>1, <2>2, Leaves
<1>3. CASE task[t].ver = sessionVersion
  <2>1. /\ BeginAuthTransition /\ queue' = Append(Tail(queue), t)
        /\ task' = [rejected EXCEPT ![t] = LogoutCall(sessionVersion', token)]
    BY <1>3 DEF RefreshFailed, LogoutCall
  <2> HIDE DEF rejected
  <2>2. /\ task'[t] = LogoutCall(sessionVersion', token) /\ task' = [u \in Tasks |-> task'[u]]
        /\ \A u \in Tasks \ {t} : task'[u] = rejected[u]
    BY <1>r, <2>1
  <2>3. /\ TaskTyped(t)' /\ Present(t)' /\ InQueue(t)'
        /\ task'[t].kind = "logout" /\ task'[t].pc = "queued" /\ task'[t].tok = token
    BY <2>1, <2>2, LoggingOut
  <2>o. \A u \in Tasks \ {t} :
           task'[u] = task[u] \/ (task[u].pc = "waiting" /\ task'[u] = Idle)
    BY <1>r, <2>2
  <2>4. QueueOK' /\ queue' \in Seq(Tasks)
    <3>1. /\ Running(t)
          /\ \A u \in Tasks \ {t} : (InQueue(u)' <=> InQueue(u))
                                    /\ (InQueue(u) => task'[u].pc = "queued")
      BY <1>1, <2>o, Rejected
    <3>q. QED BY <2>1, <2>3, <3>1, QueueReenters, Facts
  <2>5. inputs' \in Nat
    BY <1>1, Facts DEF Typed
  <2>q. QED BY <1>1, <2>1, <2>2, <2>3, <2>4, <2>5, <2>o, Begun, Cleared
<1>q. QED BY <1>2, <1>3

\* bootRefresh that failed.
LEMMA BootFailedKeeps == ASSUME IInv, NEW t \in Tasks, BootFailed(t) PROVE IInv'
<1>1. /\ task[t].kind = "boot" /\ task[t].pc = "denied" /\ InQueue(t) /\ Leave
      /\ task' = [task EXCEPT ![t] = Idle]
      /\ UNCHANGED <<server, cookie, inputs, history>> /\ UNCHANGED <<wanted, otherTab>>
  BY DEF BootFailed, Refresh, InQueue, history, Ends
<1>2. /\ task'[t] = Idle /\ task' = [u \in Tasks |-> task'[u]]
      /\ \A u \in Tasks \ {t} : task'[u] = task[u]
  BY <1>1, Ended
<1>3. /\ Running(t)
      /\ \A u \in Tasks \ {t} : (InQueue(u)' <=> InQueue(u))
                                /\ (InQueue(u) => task'[u].pc = "queued")
  BY <1>1, <1>2, Rejected
<1>4. CASE task[t].ver # sessionVersion
  <2>1. UNCHANGED <<token, user, perms, stored, sessionVersion, cookieToken, cache>>
    BY <1>4 DEF BootFailed, session
  <2>q. QED BY <1>1, <1>2, <1>3, <2>1, Leaves
<1>5. CASE task[t].ver = sessionVersion
  <2>1. /\ user' = None /\ perms' = None /\ token' = None /\ stored' = None /\ cache' = {}
        /\ sessionVersion' = sessionVersion + 1 /\ cookieToken' = cookieToken
    BY <1>5 DEF BootFailed, ClearSession
  <2>2. sessionVersion' \in Nat /\ inputs' \in Nat
    BY <1>1, <2>1, Facts DEF Typed
  <2>3. TaskTyped(t)' /\ Present(t)' /\ ~InQueue(t)'
    BY <1>2, <2>2, IdleTask DEF TaskTyped, Present, InQueue
  <2>4. QueueOK' /\ queue' \in Seq(Tasks)
    BY <1>1, <1>3, <2>3, QueueLeaves, Facts DEF Leave
  <2>q. QED BY <1>1, <1>2, <2>1, <2>2, <2>3, <2>4, IdleTask, Cleared
<1>q. QED BY <1>4, <1>5

-----------------------------------------------------------------------------
(* Outside the tab *)

\* The page is loaded again.
LEMMA ReloadKeeps == ASSUME IInv, NEW t \in Tasks, Reload(t) PROVE IInv'
<1>1. /\ token' = None /\ user' = stored /\ perms' = None /\ sessionVersion' = 0
      /\ cookieToken' = None /\ cache' = {} /\ inputs' \in Nat
      /\ UNCHANGED <<server, browser, history>>
      /\ UNCHANGED <<tokenVersion, scope, cookie, stored, wanted, otherTab>>
  BY Facts DEF Reload, Input, Typed, server, browser, history
<1>2. /\ task' = [u \in Tasks |-> task'[u]]
      /\ \A u \in Tasks : task'[u] = Idle \/ (u = t /\ stored # None /\ task'[u] = BootCall)
      /\ \/ stored = None /\ queue' = <<>> /\ task'[t] = Idle
         \/ stored # None /\ queue' = <<t>> /\ task'[t] = BootCall
  BY DEF Reload, BootCall
<1>3. /\ TaskTyped(t)' /\ Present(t)'
      /\ stored # None => InQueue(t)' /\ task'[t].pc = "queued"
      /\ stored = None => ~InQueue(t)'
  BY <1>1, <1>2, IdleTask, NewBoot DEF TaskTyped, Present, InQueue
<1>4. ASSUME NEW u \in Tasks
      PROVE  /\ TaskTyped(u)' /\ Present(u)' /\ (u # t => ~InQueue(u)')
             /\ OwnRefresh(u)' /\ RightBearer(u)' /\ Unsigned(u)'
  <2>1. CASE task'[u] = Idle
    BY <1>1, <2>1, IdleTask
       DEF TaskTyped, Present, InQueue, OwnRefresh, RightBearer, Unsigned
  <2>2. CASE u = t /\ task'[u] = BootCall
    BY <1>3, <2>2, NewBoot DEF OwnRefresh, RightBearer, Unsigned
  <2>q. QED BY <1>2, <2>1, <2>2
<1>5. QueueOK' /\ queue' \in Seq(Tasks)
  <2>1. CASE stored = None
    BY <1>2, <1>3, <1>4, <2>1, OnePlace DEF QueueOK
  <2>2. CASE stored # None
    BY <1>2, <1>3, <1>4, <2>2, OnePlace DEF QueueOK
  <2>q. QED BY <2>1, <2>2
<1>6. Typed'
  BY <1>1, <1>2, <1>5, Facts DEF Typed
<1>7. TokenShown' /\ CacheIsTheSessions' /\ CookieKnown'
  BY <1>1, <1>4 DEF TokenShown, CacheIsTheSessions, CookieKnown
<1>8. Intended'
  BY <1>1, <1>4 DEF IInv, Intended
<1>q. QED BY <1>4, <1>5, <1>6, <1>7, <1>8 DEF IInv

\* What the calls are is not changed by a step outside the tab.
LEMMA OutsideCalls ==
  ASSUME IInv, UNCHANGED <<task, queue, session>>, otherTab' = otherTab \/ otherTab' = "cookie",
         otherTab' # "cookie" => wanted' = wanted
  PROVE  /\ QueueOK' /\ TokenShown' /\ CacheIsTheSessions'
         /\ \A t \in Tasks : TaskTyped(t)' /\ Present(t)'
<1>1. UNCHANGED <<token, user, perms, sessionVersion, cookieToken, cache>>
  BY DEF session
<1>2. ASSUME NEW t \in Tasks PROVE TaskTyped(t)' /\ Present(t)'
  <2>1. Last(t) => Last(t)'
    BY DEF Last
  <2>q. QED BY <1>1, <2>1, Facts DEF TaskTyped, Present, SameScope
<1>3. QueueOK' /\ TokenShown' /\ CacheIsTheSessions'
  BY <1>1 DEF IInv, QueueOK, InQueue, Running, TokenShown, CacheIsTheSessions, SameScope
<1>q. QED BY <1>2, <1>3

LEMMA OtherTabLoginKeeps ==
  ASSUME IInv, NEW a \in Accounts, OtherTabLogin(a) PROVE IInv'
<1>1. /\ UNCHANGED <<task, queue, session, server>> /\ otherTab' = "cookie" /\ stored' = a
      /\ UNCHANGED <<token, user, perms, sessionVersion, cookieToken, cache>>
      /\ inputs' = inputs + 1
  BY DEF OtherTabLogin, session, Input
<1>2. cookie' \in Tokens
  <2>1. Typed
    BY DEF IInv
  <2>q. QED BY <2>1 DEF OtherTabLogin, Tokens, Typed
<1>3. Typed'
  <2>1. Typed
    BY DEF IInv
  <2>q. QED BY <1>1, <1>2, <2>1 DEF Typed, server
<1>4. Intended' /\ CookieKnown'
  BY <1>1 DEF Intended, CookieKnown
<1>5. /\ QueueOK' /\ TokenShown' /\ CacheIsTheSessions'
      /\ \A t \in Tasks : TaskTyped(t)' /\ Present(t)'
  BY <1>1, OutsideCalls
<1>q. QED BY <1>3, <1>4, <1>5 DEF IInv

\* A revocation elsewhere, a change of rights, or nothing.
LEMMA ServerChangesKeep ==
  ASSUME IInv, UNCHANGED <<browser, session, queue, task, history>>, inputs' \in Nat,
         tokenVersion' \in [Accounts -> Nat], scope' \in [Accounts -> {0, 1}]
  PROVE  IInv'
<1>1. UNCHANGED <<cookie, stored, token, user, perms, sessionVersion, cookieToken, cache,
                  wanted, otherTab>>
  BY DEF browser, session, history
<1>2. Typed'
  <2>1. Typed
    BY DEF IInv
  <2>q. QED BY <1>1, <2>1 DEF Typed
<1>3. /\ QueueOK' /\ TokenShown' /\ CacheIsTheSessions'
      /\ \A t \in Tasks : TaskTyped(t)' /\ Present(t)'
  BY <1>1, OutsideCalls
<1>4. Intended' /\ CookieKnown'
  BY <1>1 DEF IInv, Intended, CookieKnown, OwnRefresh, InQueue, RightBearer, Unsigned
<1>q. QED BY <1>2, <1>3, <1>4 DEF IInv

-----------------------------------------------------------------------------
(* The theorems *)

LEMMA InitIInv == Init => IInv
<1> SUFFICES ASSUME Init PROVE IInv
  OBVIOUS
<1>1. \A t \in Tasks : task[t] = Idle
  BY DEF Init
<1>2. Typed
  BY DEF Init, Typed
<1>3. ASSUME NEW t \in Tasks PROVE TaskTyped(t) /\ Present(t) /\ ~InQueue(t) /\ Unsigned(t)
  BY <1>1, IdleTask DEF Init, TaskTyped, Present, InQueue, Unsigned
<1>4. QueueOK
  BY <1>3 DEF Init, QueueOK, Distinct, Places
<1>5. TokenShown /\ CacheIsTheSessions /\ Intended /\ CookieKnown
  BY DEF Init, TokenShown, CacheIsTheSessions, Intended, CookieKnown
<1>q. QED BY <1>2, <1>3, <1>4, <1>5 DEF IInv

LEMMA StepKeeps == ASSUME IInv, NEW t \in Tasks, Step(t) PROVE IInv'
BY SendLoginKeeps, ServeLoginKeeps, LoginAnsweredKeeps, LoginFailedKeeps, LoginSucceededKeeps,
   SendLogoutKeeps, ServeLogoutKeeps, LogoutDoneKeeps, ServeReadKeeps, ReadDoneKeeps,
   ReadUnauthorizedKeeps, SendRefreshKeeps, ServeRefreshKeeps, RefreshAnsweredKeeps,
   RefreshFailedKeeps, BootFailedKeeps DEF Step

LEMMA OutsideKeeps == ASSUME IInv, NEW a \in Accounts, Revoke(a) \/ ChangeScope(a) PROVE IInv'
<1>1. Typed
  BY DEF IInv
<1>2. inputs' \in Nat /\ UNCHANGED <<browser, session, queue, task, history>>
  BY <1>1 DEF Revoke, ChangeScope, Input, Typed
<1>3. tokenVersion' \in [Accounts -> Nat] /\ scope' \in [Accounts -> {0, 1}]
  <2>1. /\ tokenVersion \in [Accounts -> Nat] /\ scope \in [Accounts -> {0, 1}]
        /\ tokenVersion[a] + 1 \in Nat /\ 1 - scope[a] \in {0, 1}
    BY <1>1 DEF Typed
  <2>2. CASE Revoke(a)
    BY <2>1, <2>2 DEF Revoke
  <2>3. CASE ChangeScope(a)
    BY <2>1, <2>3 DEF ChangeScope
  <2>q. QED BY <2>2, <2>3
<1>q. QED BY <1>2, <1>3, ServerChangesKeep

LEMMA NextIInv == IInv /\ [Next]_vars => IInv'
<1> SUFFICES ASSUME IInv, [Next]_vars PROVE IInv'
  OBVIOUS
<1>1. ASSUME NEW t \in Tasks, Step(t) PROVE IInv'
  BY <1>1, StepKeeps
<1>2. ASSUME NEW t \in Tasks, Person(t) PROVE IInv'
  BY <1>2, StartLoginKeeps, StartLogoutKeeps, StartReadKeeps, ReloadKeeps DEF Person
<1>3. ASSUME Outside PROVE IInv'
  BY <1>3, OtherTabLoginKeeps, OutsideKeeps DEF Outside
<1>4. ASSUME UNCHANGED vars PROVE IInv'
  <2>1. UNCHANGED <<server, browser, session, queue, task, history, inputs>>
    BY <1>4 DEF vars
  <2>2. Typed
    BY DEF IInv
  <2>q. QED BY <2>1, <2>2, ServerChangesKeep DEF Typed, server
<1>q. QED BY <1>1, <1>2, <1>3, <1>4 DEF Next, Quiet

LEMMA Invariance == Spec => []IInv
BY InitIInv, NextIInv, PTL DEF Spec

\* Whatever is cached belongs to the account and the access scope shown
\* (resetSessionCache and the version checks of client.ts).
THEOREM CacheBelongs == Spec => []CacheIsTheSessions
<1>1. IInv => CacheIsTheSessions
  BY DEF IInv
<1>q. QED BY <1>1, Invariance, PTL

\* In a browser with one tab the account shown is the one asked for last
\* (applyAuthCookieResponse, the order of the cookie's writers).
THEOREM IntentHolds == Spec => []LastIntentWins
<1>1. IInv => LastIntentWins
  BY DEF IInv, Intended, LastIntentWins
<1>q. QED BY <1>1, Invariance, PTL

\* An accepted logout revokes the account of the cookie that the browser has
\* (the bearer chosen when the logout's turn comes).
THEOREM LogoutRevokes == Spec => LogoutRevokesCookie
<1> DEFINE A == \A t \in Tasks :
       task[t].kind = "logout" /\ task[t].pc = "sent" /\ tokenVersion' # tokenVersion
       /\ task'[t].pc # "sent" /\ cookie # None /\ otherTab # "cookie"
         => tokenVersion'[cookie.acct] > tokenVersion[cookie.acct]
<1>1. IInv /\ [Next]_vars => [A]_vars
  <2> SUFFICES ASSUME IInv, Next, NEW t \in Tasks, task[t].kind = "logout",
                      task[t].pc = "sent", tokenVersion' # tokenVersion,
                      task'[t].pc # "sent", cookie # None, otherTab # "cookie"
               PROVE  tokenVersion'[cookie.acct] > tokenVersion[cookie.acct]
    OBVIOUS
  <2>t. InQueue(t) /\ Typed /\ tokenVersion \in [Accounts -> Nat]
    BY DEF IInv, InQueue, Typed
  <2>1. ASSUME NEW u \in Tasks, Step(u) PROVE ServeLogout(u)
    BY <2>1 DEF Step, SendLogin, ServeLogin, LoginAnswered, LoginFailed, LoginSucceeded,
       SendLogout, ServeLogout, LogoutDone, ServeRead, ReadDone, ReadUnauthorized,
       SendRefresh, ServeRefresh, RefreshAnswered, RefreshFailed, BootFailed, server
  <2>2. ASSUME NEW u \in Tasks, Person(u) PROVE FALSE
    BY <2>2 DEF Person, StartLogin, StartLogout, StartRead, Reload, server
  <2>3. ASSUME Outside PROVE FALSE
    BY <2>3 DEF Outside, OtherTabLogin, Revoke, ChangeScope, server
  <2>4. ASSUME NEW u \in Tasks, ServeLogout(u)
        PROVE  tokenVersion'[cookie.acct] > tokenVersion[cookie.acct]
    <3>1. InQueue(u) /\ task[u].pc = "sent"
      BY <2>4 DEF ServeLogout, InQueue
    <3>2. u = t
      BY <2>t, <3>1, Holder, Facts
    <3>3. /\ task[t].tok # None
          /\ tokenVersion' = [tokenVersion EXCEPT ![task[t].tok.acct] = @ + 1]
      BY <2>4, <3>2 DEF ServeLogout
    <3>4. task[t].tok.acct = cookie.acct
      BY <3>3 DEF IInv, CookieKnown, RightBearer
    <3>5. cookie.acct \in Accounts
      <4>1. cookie \in Tokens
        BY <2>t DEF Typed
      <4>q. QED BY <4>1 DEF Tokens
    <3>q. QED BY <2>t, <3>3, <3>4, <3>5
  <2>q. QED BY <2>1, <2>2, <2>3, <2>4 DEF Next, Quiet, vars, server
<1>q. QED BY <1>1, Invariance, PTL DEF Spec, LogoutRevokesCookie

\* A session ends by a click, a reload or an event outside, or by a call of its
\* own (the owner checks of the interceptors and of bootRefresh).
THEOREM OwnCallsEndSession == Spec => OnlyOwnCallsEndSession
<1> DEFINE A == sessionVersion' # sessionVersion =>
       \/ inputs' # inputs
       \/ \E t \in Tasks : task[t].ver = sessionVersion /\ task'[t] # task[t]
<1>1. IInv /\ [Next]_vars => [A]_vars
  <2> SUFFICES ASSUME IInv, Next, sessionVersion' # sessionVersion, inputs' = inputs
               PROVE  \E t \in Tasks : task[t].ver = sessionVersion /\ task'[t] # task[t]
    OBVIOUS
  <2>i. inputs \in Nat
    BY DEF IInv, Typed
  <2>1. PICK t \in Tasks : Step(t)
    <3>1. ASSUME NEW t \in Tasks, Person(t) PROVE FALSE
      <4>1. Input
        BY <3>1 DEF Person, StartLogin, StartLogout, StartRead, Reload
      <4>q. QED BY <2>i, <4>1 DEF Input
    <3>2. ~Outside
      BY <2>i DEF Outside, OtherTabLogin, Revoke, ChangeScope, Input
    <3>3. ~Quiet
      BY DEF Quiet, vars, session
    <3>q. QED BY <3>1, <3>2, <3>3 DEF Next
  <2>2. task[t].ver = sessionVersion
    BY <2>1 DEF Step, SendLogin, ServeLogin, LoginAnswered, LoginFailed, LoginSucceeded,
       SendLogout, ServeLogout, LogoutDone, ServeRead, ReadDone, ReadUnauthorized,
       SendRefresh, ServeRefresh, RefreshAnswered, RefreshFailed, BootFailed, session,
       ApplyAuthCookieResponse
  <2>v. sessionVersion \in Nat
    BY DEF IInv, Typed
  <2>3. CASE LoginAnswered(t)
    <3>1. /\ task[t].pc = "answered" /\ task[t].kind = "login"
          /\ task' = [task EXCEPT ![t].pc = "onSuccess", ![t].ver = sessionVersion']
      BY <2>2, <2>3 DEF LoginAnswered
    <3>2. sessionVersion' \in Nat
      BY <2>2, <2>3, <2>v DEF LoginAnswered, ApplyAuthCookieResponse, SetAuth
    <3>q. QED BY <2>2, <3>1, <3>2, PcVerSet
  <2>4. CASE LoginFailed(t)
    <3>1. task'[t] = LogoutCall(sessionVersion', token) /\ task[t].kind = "login"
          /\ BeginAuthTransition
      BY <2>2, <2>4, Facts DEF LoginFailed, Logout, LogoutCall
    <3>q. QED BY <2>2, <3>1, LoggingOut
  <2>5. CASE LoginSucceeded(t) \/ BootFailed(t)
    <3>1. task'[t] = Idle /\ task[t].kind \in {"login", "boot"}
      BY <2>5, Facts DEF LoginSucceeded, BootFailed, Refresh, Ends
    <3>q. QED BY <2>2, <3>1, IdleTask
  <2>6. CASE RefreshAnswered(t)
    <3>1. task[t].kind \in {"read", "boot"} /\ task[t].ver # sessionVersion'
      BY <2>2, <2>6 DEF RefreshAnswered, Refresh
    <3>2. task'[t] = Idle
      BY <2>6, <3>1 DEF RefreshAnswered
    <3>q. QED BY <2>2, <3>1, <3>2, IdleTask
  <2>7. CASE RefreshFailed(t)
    <3>1. task[t].kind = "read" /\ BeginAuthTransition
          /\ task'[t] = LogoutCall(sessionVersion', token)
      BY <2>2, <2>7 DEF RefreshFailed, Refresh, LogoutCall
    <3>q. QED BY <2>2, <3>1, LoggingOut
  <2>8. LoginAnswered(t) \/ LoginFailed(t) \/ LoginSucceeded(t) \/ BootFailed(t)
        \/ RefreshAnswered(t) \/ RefreshFailed(t)
    BY <2>1 DEF Step, SendLogin, ServeLogin, SendLogout, ServeLogout, LogoutDone, ServeRead,
          ReadDone, ReadUnauthorized, SendRefresh, ServeRefresh, session
  <2>q. QED BY <2>3, <2>4, <2>5, <2>6, <2>7, <2>8
<1>q. QED BY <1>1, Invariance, PTL DEF Spec, OnlyOwnCallsEndSession
==============================================================================
