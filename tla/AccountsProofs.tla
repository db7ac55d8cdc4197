--------------------------- MODULE AccountsProofs ---------------------------
(***************************************************************************)
(* What is proved about Accounts: the sessions that are accepted go back   *)
(* to a password of this token version, and reset links that are open      *)
(* together were asked for together, for any number of requests, links and *)
(* passwords.                                                              *)
(***************************************************************************)
EXTENDS Accounts, TLAPS

UserRow ==
  [hash: Passwords, ver: Nat, failed: Nat, locked: {"no", "now", "past"},
   active: BOOLEAN, deleted: BOOLEAN]

\* What a request has read and where it is.
CallState ==
  [op: {None, "login", "refresh", "change", "admin", "update", "forgot", "reset"},
   pc: {"idle", "verify", "issue", "write", "invalidate", "create", "done"},
   pw: Passwords \cup {None}, new: Passwords \cup {None}, link: Links \cup {None},
   seen: UserRow \cup {None}]

\* The types, and what each kind of request has in hand when it runs.
Typed ==
  /\ user \in UserRow
  /\ link \in [Links -> [state: {"none", "open", "used", "expired"}, by: Calls \cup {None}]]
  /\ call \in [Calls -> CallState]
  /\ tokens \subseteq [ver: Nat, hash: Passwords]
  /\ valid \subseteq Passwords
  /\ overlap \subseteq Calls \X Calls
  /\ \A c \in Calls :
       /\ call[c].pc \in {"verify", "issue"} => call[c].seen \in UserRow /\ call[c].pw \in Passwords
       /\ call[c].pc = "write" => call[c].new \in Passwords
       /\ At(c, "reset", "write") => call[c].link \in Links

\* A password that goes with a token version, as long as the version is the
\* user's: older versions are revoked, and none is ahead of the row.
Follows(ver, pw) == ver <= user.ver /\ (ver = user.ver => pw \in valid)

\* A row with another password, or another token version, is a row.
LEMMA RowWithPassword ==
  ASSUME user \in UserRow, NEW p \in Passwords,
         \/ user' = [user EXCEPT !.hash = p, !.ver = @ + 1]
         \/ user' = [user EXCEPT !.hash = p, !.ver = @ + 1, !.failed = 0, !.locked = "no"]
  PROVE  user' \in UserRow /\ user'.hash = p /\ user'.ver = user.ver + 1
<1>1. user.ver \in Nat /\ user.failed \in Nat /\ user.active \in BOOLEAN /\ user.deleted \in BOOLEAN
      /\ user.locked \in {"no", "now", "past"}
  BY DEF UserRow
<1>2. DOMAIN user = {"hash", "ver", "failed", "locked", "active", "deleted"}
  BY DEF UserRow
<1>3. \/ user' = [hash |-> p, ver |-> user.ver + 1, failed |-> user.failed,
                  locked |-> user.locked, active |-> user.active, deleted |-> user.deleted]
      \/ user' = [hash |-> p, ver |-> user.ver + 1, failed |-> 0, locked |-> "no",
                  active |-> user.active, deleted |-> user.deleted]
  BY <1>2 DEF UserRow
<1>q. QED BY <1>1, <1>3 DEF UserRow

\* Every token and every request that will be given one follows the password.
Followed ==
  /\ user.hash \in valid
  /\ \A k \in tokens : Follows(k.ver, k.hash)
  /\ \A c \in Calls :
       /\ call[c].pc = "verify" => Follows(call[c].seen.ver, call[c].seen.hash)
       /\ call[c].pc = "issue" => Follows(call[c].seen.ver, call[c].pw)

Overlapping(c, d) == <<c, d>> \in overlap \/ <<d, c>> \in overlap

Forgetting(c) == call[c].op = "forgot" /\ call[c].pc \in {"invalidate", "create"}

\* Requests for a link that run at once overlap, and a request that has closed
\* the links before its own overlaps with the maker of every open one.
LinksOK ==
  /\ \A c, d \in Calls : c # d /\ Forgetting(c) /\ Forgetting(d) => Overlapping(c, d)
  /\ \A c \in Calls, l \in Links :
       At(c, "forgot", "create") /\ link[l].state = "open" => Overlapping(c, link[l].by)
  /\ OneLinkAtATime

\* The inductive invariant.
IInv == Typed /\ Followed /\ LinksOK

-----------------------------------------------------------------------------
(* Types *)

\* A fresh account: one password, no token, no link, nothing asked.
LEMMA InitIInv == Init => IInv
<1> SUFFICES ASSUME Init PROVE IInv
  OBVIOUS
<1>1. Typed
  BY AccountsAssumption DEF Init, Typed, UserRow, CallState, Free, At
<1>2. Followed
  BY DEF Init, Followed, Free
<1>3. LinksOK
  BY DEF Init, LinksOK, Forgetting, At, Free, OneLinkAtATime
<1>q. QED BY <1>1, <1>2, <1>3 DEF IInv

\* Reading the row makes a request of the given kind, or answers it.
LEMMA ReadingCall ==
  ASSUME Typed, NEW c \in Calls, NEW op, NEW pw, NEW new, NEW pc, NEW ok \in BOOLEAN,
         Reads(c, op, pw, new, pc, ok)
  PROVE  /\ \A d \in Calls \ {c} : call'[d] = call[d]
         /\ DOMAIN call' = Calls /\ call' = [call EXCEPT ![c] = call'[c]]
         /\ IF ok THEN call'[c] = [op |-> op, pc |-> pc, pw |-> pw, new |-> new,
                                   link |-> None, seen |-> user]
                  ELSE call'[c] = Answered
BY DEF Reads, Typed, Free

\* A request that has ended is nothing's maker and holds nothing.
LEMMA EndingCall ==
  ASSUME Typed, NEW c \in Calls, Ends(c)
  PROVE  /\ \A d \in Calls \ {c} : call'[d] = call[d]
         /\ call'[c] = Answered /\ call' \in [Calls -> CallState]
         /\ Answered.pc = "done" /\ call'[c].pc = "done"
BY DEF Ends, Typed, Answered, Free, CallState

-----------------------------------------------------------------------------
(* What keeps the two parts of the invariant *)

\* A new token version revokes everything, whatever was valid before it.
LEMMA Revokes ==
  ASSUME Typed, Typed', Followed, NEW c \in Calls, Ends(c), UNCHANGED tokens,
         user'.ver = user.ver + 1, user'.hash \in valid'
  PROVE  Followed'
<1>1. \A ver \in Nat : ver <= user.ver => ver <= user'.ver /\ ver # user'.ver
  BY DEF Typed, UserRow
<1>2. \A k \in tokens : k.ver \in Nat
  BY DEF Typed
<1>3. \A k \in tokens : Follows(k.ver, k.hash)'
  BY <1>1, <1>2 DEF Followed, Follows
<1>4. ASSUME NEW d \in Calls, call'[d].pc \in {"verify", "issue"}
      PROVE  Follows(call[d].seen.ver, call[d].seen.hash)' /\ Follows(call[d].seen.ver, call[d].pw)'
  <2>1. d # c /\ call'[d] = call[d]
    BY <1>4, EndingCall
  <2>2. call[d].seen.ver \in Nat /\ call[d].seen.ver <= user.ver
    BY <1>4, <2>1 DEF Typed, UserRow, Followed, Follows
  <2>q. QED BY <1>1, <2>1, <2>2 DEF Follows
<1>q. QED BY <1>3, <1>4 DEF Followed

\* Under the same version, more passwords become valid and no request gets
\* ahead of what it has read.
LEMMA StaysFollowed ==
  ASSUME Followed, UNCHANGED tokens,
         user'.ver = user.ver, user'.hash \in valid', valid \subseteq valid',
         \A d \in Calls : \/ call'[d] = call[d]
                          \/ call'[d].pc \notin {"verify", "issue"}
                          \/ call'[d].pc = "verify" /\ Follows(call'[d].seen.ver, call'[d].seen.hash)
                          \/ call'[d].pc = "issue" /\ Follows(call'[d].seen.ver, call'[d].pw)
  PROVE  Followed'
<1>1. \A ver, pw : Follows(ver, pw) => Follows(ver, pw)'
  BY DEF Follows
<1>2. \A k \in tokens : Follows(k.ver, k.hash)'
  BY <1>1 DEF Followed
<1>3. ASSUME NEW d \in Calls
      PROVE  /\ call'[d].pc = "verify" => Follows(call[d].seen.ver, call[d].seen.hash)'
             /\ call'[d].pc = "issue" => Follows(call[d].seen.ver, call[d].pw)'
  BY <1>1 DEF Followed, Follows
<1>q. QED BY <1>2, <1>3 DEF Followed

\* Links stay apart when none is opened and no request for one moves on.
LEMMA LinksKept ==
  ASSUME LinksOK, UNCHANGED overlap,
         \A l \in Links : link'[l].state = "open" =>
           link[l].state = "open" /\ link'[l].by = link[l].by,
         \A d \in Calls : (Forgetting(d)' => Forgetting(d))
                          /\ (At(d, "forgot", "create")' => At(d, "forgot", "create"))
  PROVE  LinksOK'
<1>1. \A c, d : Overlapping(c, d)' <=> Overlapping(c, d)
  BY DEF Overlapping
<1>2. OneLinkAtATime'
  BY DEF LinksOK, OneLinkAtATime
<1>3. \A c, d \in Calls : c # d /\ Forgetting(c)' /\ Forgetting(d)' => Overlapping(c, d)'
  BY <1>1 DEF LinksOK
<1>4. \A c \in Calls, l \in Links :
        (At(c, "forgot", "create") /\ link[l].state = "open" => Overlapping(c, link[l].by))'
  BY DEF LinksOK, Overlapping
<1>q. QED BY <1>2, <1>3, <1>4 DEF LinksOK

-----------------------------------------------------------------------------
(* Every step keeps the invariant *)

\* A request that reads the row: login, refresh, and the ones that will write
\* a password.  A refresh goes on with the password of a token that follows.
LEMMA ReadKeeps ==
  ASSUME IInv, NEW c \in Calls, NEW pw \in Passwords \cup {None},
         NEW new \in Passwords \cup {None}, NEW ok \in BOOLEAN,
         NEW op \in {"login", "refresh", "change", "admin", "update"},
         NEW pc \in {"verify", "issue", "write"},
         pc \in {"verify", "issue"} => pw \in Passwords, pc = "write" => new \in Passwords,
         pc = "issue" /\ ok => Follows(user.ver, pw),
         Reads(c, op, pw, new, pc, ok), UNCHANGED <<user, link, tokens, history>>
  PROVE  IInv'
<1>1. UNCHANGED <<valid, overlap>>
  BY DEF history
<1>2. /\ \A d \in Calls \ {c} : call'[d] = call[d]
      /\ call' = [call EXCEPT ![c] = call'[c]]
      /\ IF ok THEN call'[c] = [op |-> op, pc |-> pc, pw |-> pw, new |-> new,
                                link |-> None, seen |-> user]
               ELSE call'[c] = Answered
  BY ReadingCall DEF IInv
<1>3. user \in UserRow /\ call'[c] \in CallState
  BY <1>2 DEF IInv, Typed, CallState, Answered, Free
<1>4. Typed'
  BY <1>1, <1>2, <1>3 DEF IInv, Typed, At, Answered, Free
<1>5. Followed'
  <2>1. user.ver <= user.ver
    BY <1>3 DEF UserRow
  <2>2. \/ call'[c].pc \notin {"verify", "issue"}
        \/ call'[c].pc = "verify" /\ Follows(call'[c].seen.ver, call'[c].seen.hash)
        \/ call'[c].pc = "issue" /\ Follows(call'[c].seen.ver, call'[c].pw)
    BY <1>2, <2>1 DEF IInv, Followed, Follows, Answered, Free
  <2>q. QED BY <1>1, <1>2, <2>2, StaysFollowed DEF IInv, Followed
<1>6. LinksOK'
  <2>1. ~Forgetting(c)' /\ ~At(c, "forgot", "create")'
    BY <1>2 DEF Forgetting, At, Answered, Free
  <2>2. \A d \in Calls \ {c} : (Forgetting(d)' <=> Forgetting(d))
                               /\ (At(d, "forgot", "create")' <=> At(d, "forgot", "create"))
    BY <1>2 DEF Forgetting, At
  <2>q. QED BY <1>1, <2>1, <2>2, LinksKept DEF IInv
<1>q. QED BY <1>4, <1>5, <1>6 DEF IInv

\* A wrong password is counted; the password and the version stay.
LEMMA LoginFailsKeeps == ASSUME IInv, NEW c \in Calls, LoginFails(c) PROVE IInv'
<1>1. /\ user.hash = user'.hash /\ user.ver = user'.ver /\ user' \in UserRow
      /\ Ends(c) /\ UNCHANGED <<link, tokens, valid, overlap>>
  <2>1. user \in UserRow /\ call[c].seen.failed + 1 \in Nat
    BY DEF LoginFails, At, IInv, Typed, UserRow
  <2>q. QED BY <2>1 DEF LoginFails, UserRow
<1>2. /\ \A d \in Calls \ {c} : call'[d] = call[d]
      /\ call'[c] = Answered /\ call' \in [Calls -> CallState]
  BY <1>1, EndingCall DEF IInv
<1>3. Typed'
  BY <1>1, <1>2 DEF IInv, Typed, At, Answered, Free
<1>4. Followed'
  BY <1>1, <1>2, StaysFollowed DEF IInv, Followed, Answered, Free
<1>5. LinksOK'
  BY <1>1, <1>2, LinksKept DEF IInv, Forgetting, At, Answered, Free
<1>q. QED BY <1>3, <1>4, <1>5 DEF IInv

\* The password that was verified is the one the token will go back to.
LEMMA LoginPassesKeeps == ASSUME IInv, NEW c \in Calls, LoginPasses(c) PROVE IInv'
<1>1. /\ At(c, "login", "verify") /\ call[c].pw = call[c].seen.hash
      /\ user.hash = user'.hash /\ user.ver = user'.ver /\ user' \in UserRow
      /\ call' = [call EXCEPT ![c].pc = "issue"] /\ UNCHANGED <<link, tokens, valid, overlap>>
  BY DEF LoginPasses, At, Goes, history, IInv, Typed, UserRow
<1>2. /\ \A d \in Calls \ {c} : call'[d] = call[d]
      /\ call'[c] = [call[c] EXCEPT !.pc = "issue"]
      /\ call[c] \in CallState /\ call'[c] \in CallState /\ call' \in [Calls -> CallState]
      /\ call'[c].pc = "issue" /\ call'[c].seen = call[c].seen /\ call'[c].pw = call[c].pw
      /\ call'[c].op = "login"
  BY SMTT(60), <1>1 DEF IInv, Typed, CallState, At
<1>3. Typed'
  BY <1>1, <1>2 DEF IInv, Typed, At
<1>4. Followed'
  <2>1. Follows(call[c].seen.ver, call[c].pw)
    BY <1>1 DEF IInv, Followed, At
  <2>q. QED BY <1>1, <1>2, <2>1, StaysFollowed DEF IInv, Followed
<1>5. LinksOK'
  BY <1>1, <1>2, LinksKept DEF IInv, Forgetting, At
<1>q. QED BY <1>3, <1>4, <1>5 DEF IInv

\* The token is made from what the request has, which still follows.
LEMMA GenerateTokensKeeps == ASSUME IInv, NEW c \in Calls, GenerateTokens(c) PROVE IInv'
<1> DEFINE k == [ver |-> call[c].seen.ver, hash |-> call[c].pw]
<1>1. /\ call[c].pc = "issue" /\ tokens' = tokens \cup {k}
      /\ Ends(c) /\ UNCHANGED <<user, link, valid, overlap>>
  BY DEF GenerateTokens, history
<1>2. /\ \A d \in Calls \ {c} : call'[d] = call[d]
      /\ call'[c] = Answered /\ call' \in [Calls -> CallState]
  BY <1>1, EndingCall DEF IInv
<1>3. k \in [ver: Nat, hash: Passwords] /\ Follows(k.ver, k.hash)
  BY <1>1 DEF IInv, Typed, UserRow, Followed
<1> HIDE DEF k
<1>4. Typed'
  BY <1>1, <1>2, <1>3 DEF IInv, Typed, At, Answered, Free
<1>5. Followed'
  BY <1>1, <1>2, <1>3 DEF IInv, Followed, Follows, Answered, Free
<1>6. LinksOK'
  BY <1>1, <1>2, LinksKept DEF IInv, Forgetting, At, Answered, Free
<1>q. QED BY <1>4, <1>5, <1>6 DEF IInv

\* A logout and the writes of a password with a new version revoke everything.
LEMMA RevokingKeeps ==
  ASSUME IInv, NEW c \in Calls, Logout(c) \/ WritePassword(c) \/ ResetWrites(c) PROVE IInv'
<1>1. /\ Ends(c) /\ UNCHANGED <<tokens, overlap>>
      /\ user'.ver = user.ver + 1 /\ user' \in UserRow
      /\ user'.hash \in valid' /\ valid' \subseteq Passwords
  <2>1. CASE Logout(c)
    BY <2>1 DEF Logout, IInv, Typed, UserRow
  <2>2. CASE WritePassword(c)
    <3>1. PICK p \in Passwords :
            user' = [user EXCEPT !.hash = p, !.ver = @ + 1] /\ valid' = {p}
      BY <2>2 DEF WritePassword, IInv, Typed
    <3>2. user \in UserRow
      BY DEF IInv, Typed
    <3>3. user' \in UserRow /\ user'.hash = p /\ user'.ver = user.ver + 1
      BY <3>1, <3>2, RowWithPassword
    <3>q. QED BY <2>2, <3>1, <3>3 DEF WritePassword
  <2>3. CASE ResetWrites(c)
    <3>1. PICK p \in Passwords :
            user' = [user EXCEPT !.hash = p, !.ver = @ + 1, !.failed = 0, !.locked = "no"]
            /\ valid' = {p}
      BY <2>3 DEF ResetWrites, At, IInv, Typed
    <3>2. user \in UserRow
      BY DEF IInv, Typed
    <3>3. user' \in UserRow /\ user'.hash = p /\ user'.ver = user.ver + 1
      BY <3>1, <3>2, RowWithPassword
    <3>q. QED BY <2>3, <3>1, <3>3 DEF ResetWrites
  <2>q. QED BY <2>1, <2>2, <2>3
<1>2. /\ link' \in [Links -> [state: {"none", "open", "used", "expired"}, by: Calls \cup {None}]]
      /\ \A l \in Links : link'[l].state = "open" =>
           link[l].state = "open" /\ link'[l].by = link[l].by
  <2>1. CASE UNCHANGED link
    BY <2>1 DEF IInv, Typed
  <2>2. CASE ResetWrites(c)
    BY <2>2 DEF ResetWrites, At, IInv, Typed
  <2>q. QED BY <2>1, <2>2 DEF Logout, WritePassword
<1>3. /\ \A d \in Calls \ {c} : call'[d] = call[d]
      /\ call'[c] = Answered /\ call' \in [Calls -> CallState]
  BY <1>1, EndingCall DEF IInv
<1>4. Typed'
  BY <1>1, <1>2, <1>3 DEF IInv, Typed, At, Answered, Free
<1>5. Followed'
  BY <1>1, <1>4, Revokes DEF IInv
<1>6. LinksOK'
  BY <1>1, <1>2, <1>3, LinksKept DEF IInv, Forgetting, At, Answered, Free
<1>q. QED BY <1>4, <1>5, <1>6 DEF IInv

\* UsersService.update keeps the version, and so the sessions: the password
\* before it stays valid for them.
LEMMA WriteUpdateKeeps == ASSUME IInv, NEW c \in Calls, WriteUpdate(c) PROVE IInv'
<1>1. /\ user'.ver = user.ver /\ user' \in UserRow
      /\ user'.hash \in valid' /\ valid \subseteq valid' /\ valid' \subseteq Passwords
      /\ Ends(c) /\ UNCHANGED <<link, tokens, overlap>>
  BY DEF WriteUpdate, At, IInv, Typed, UserRow
<1>2. /\ \A d \in Calls \ {c} : call'[d] = call[d]
      /\ call'[c] = Answered /\ call' \in [Calls -> CallState]
  BY <1>1, EndingCall DEF IInv
<1>3. Typed'
  BY <1>1, <1>2 DEF IInv, Typed, At, Answered, Free
<1>4. Followed'
  BY <1>1, <1>2, StaysFollowed DEF IInv, Followed, Answered, Free
<1>5. LinksOK'
  BY <1>1, <1>2, LinksKept DEF IInv, Forgetting, At, Answered, Free
<1>q. QED BY <1>3, <1>4, <1>5 DEF IInv

\* A request for a link overlaps with the ones that run when it reads the user.
LEMMA ForgetsKeeps == ASSUME IInv, NEW c \in Calls, Forgets(c) PROVE IInv'
<1>1. /\ Reads(c, "forgot", None, None, "invalidate", Usable)
      /\ overlap' = overlap \cup {<<c, d>> : d \in {d \in Calls : call[d].op = "forgot"}}
      /\ UNCHANGED <<user, link, tokens, valid>>
  BY DEF Forgets
<1>2. /\ \A d \in Calls \ {c} : call'[d] = call[d]
      /\ call' = [call EXCEPT ![c] = call'[c]]
      /\ \/ call'[c] = [op |-> "forgot", pc |-> "invalidate", pw |-> None, new |-> None,
                        link |-> None, seen |-> user]
         \/ call'[c] = Answered
  <2>1. Usable \in BOOLEAN
    BY DEF Usable, IInv, Typed, UserRow
  <2>q. QED BY <1>1, <2>1, ReadingCall DEF IInv
<1>3. user \in UserRow /\ call'[c] \in CallState
  BY <1>2 DEF IInv, Typed, CallState, Answered, Free
<1>4. Typed'
  BY <1>1, <1>2, <1>3 DEF IInv, Typed, At, Answered, Free
<1>5. Followed'
  BY <1>1, <1>2, StaysFollowed DEF IInv, Followed, Answered, Free
<1>6. LinksOK'
  <2>1. \A d, e \in Calls : Overlapping(d, e) => Overlapping(d, e)'
    BY <1>1 DEF Overlapping
  <2>2. \A d \in Calls : Forgetting(d) => Overlapping(c, d)'
    BY <1>1 DEF Overlapping, Forgetting
  <2>3. \A d \in Calls \ {c} : Forgetting(d)' => Forgetting(d)
    BY <1>2 DEF Forgetting
  <2>4. ASSUME NEW d \in Calls, NEW e \in Calls, d # e, Forgetting(d)', Forgetting(e)'
        PROVE  Overlapping(d, e)'
    <3>1. CASE d = c
      BY <2>2, <2>3, <2>4, <3>1
    <3>2. CASE e = c
      BY <2>2, <2>3, <2>4, <3>2 DEF Overlapping
    <3>3. CASE d # c /\ e # c
      BY <2>1, <2>3, <2>4, <3>3 DEF IInv, LinksOK
    <3>q. QED BY <3>1, <3>2, <3>3
  <2>5. \A d \in Calls : At(d, "forgot", "create")' => At(d, "forgot", "create")
    BY <1>2 DEF At, Answered, Free
  <2>6. \A d \in Calls, l \in Links :
          (At(d, "forgot", "create") /\ link[l].state = "open" => Overlapping(d, link[l].by))'
    BY <1>1, <2>5 DEF IInv, LinksOK, Overlapping
  <2>7. OneLinkAtATime'
    BY <1>1 DEF IInv, LinksOK, OneLinkAtATime
  <2>q. QED BY <2>4, <2>6, <2>7 DEF LinksOK
<1>q. QED BY <1>4, <1>5, <1>6 DEF IInv

\* updateMany leaves no link open, so its request overlaps with their makers.
LEMMA InvalidateLinksKeeps == ASSUME IInv, NEW c \in Calls, InvalidateLinks(c) PROVE IInv'
<1>1. /\ At(c, "forgot", "invalidate") /\ call' = [call EXCEPT ![c].pc = "create"]
      /\ link' = [l \in Links |-> IF link[l].state = "open"
                                  THEN [link[l] EXCEPT !.state = "used"] ELSE link[l]]
      /\ UNCHANGED <<user, tokens, valid, overlap>>
  BY DEF InvalidateLinks, Goes, history
<1>2. /\ \A d \in Calls \ {c} : call'[d] = call[d]
      /\ call' \in [Calls -> CallState] /\ call'[c].op = "forgot" /\ call'[c].pc = "create"
  BY <1>1 DEF IInv, Typed, CallState, At
<1>3. /\ link' \in [Links -> [state: {"none", "open", "used", "expired"}, by: Calls \cup {None}]]
      /\ \A l \in Links : link'[l].state # "open"
  BY <1>1 DEF IInv, Typed
<1>4. Typed'
  BY <1>1, <1>2, <1>3 DEF IInv, Typed, At
<1>5. Followed'
  BY <1>1, <1>2, StaysFollowed DEF IInv, Followed
<1>6. LinksOK'
  <2>1. Forgetting(c) /\ \A d \in Calls \ {c} : Forgetting(d)' <=> Forgetting(d)
    BY <1>1, <1>2 DEF Forgetting, At
  <2>2. \A d, e \in Calls : d # e /\ Forgetting(d)' /\ Forgetting(e)' => Overlapping(d, e)'
    BY <1>1, <2>1 DEF IInv, LinksOK, Overlapping
  <2>3. OneLinkAtATime' /\ \A d \in Calls, l \in Links :
          (At(d, "forgot", "create") /\ link[l].state = "open" => Overlapping(d, link[l].by))'
    BY <1>3 DEF OneLinkAtATime
  <2>q. QED BY <2>2, <2>3 DEF LinksOK
<1>q. QED BY <1>4, <1>5, <1>6 DEF IInv

\* The new link's request overlaps with the maker of every link that is open
\* and with every request that has closed the links before.
LEMMA CreateLinkKeeps == ASSUME IInv, NEW c \in Calls, CreateLink(c) PROVE IInv'
<1>1. PICK m \in Links : link' = [link EXCEPT ![m] = [state |-> "open", by |-> c]]
  BY DEF CreateLink
<1>2. At(c, "forgot", "create") /\ Ends(c) /\ UNCHANGED <<user, tokens, valid, overlap>>
  BY DEF CreateLink, history
<1>3. /\ \A d \in Calls \ {c} : call'[d] = call[d]
      /\ call'[c] = Answered /\ call' \in [Calls -> CallState]
  BY <1>2, EndingCall DEF IInv
<1>4. /\ link' \in [Links -> [state: {"none", "open", "used", "expired"}, by: Calls \cup {None}]]
      /\ link'[m].by = c /\ \A l \in Links \ {m} : link'[l] = link[l]
  BY <1>1 DEF IInv, Typed
<1>5. Typed'
  BY <1>2, <1>3, <1>4 DEF IInv, Typed, At, Answered, Free
<1>6. Followed'
  BY <1>2, <1>3, StaysFollowed DEF IInv, Followed, Answered, Free
<1>7. LinksOK'
  <2>1. /\ Forgetting(c) /\ ~Forgetting(c)' /\ ~At(c, "forgot", "create")'
        /\ \A d \in Calls \ {c} : /\ Forgetting(d)' <=> Forgetting(d)
                                  /\ At(d, "forgot", "create")' <=> At(d, "forgot", "create")
    BY <1>2, <1>3 DEF Forgetting, At, Answered, Free
  <2>2. \A d, e \in Calls : d # e /\ Forgetting(d)' /\ Forgetting(e)' => Overlapping(d, e)'
    BY <1>2, <2>1 DEF IInv, LinksOK, Overlapping
  <2>3. \A d \in Calls : At(d, "forgot", "create")' => d # c /\ Overlapping(d, c)
    BY <2>1 DEF IInv, LinksOK, At, Forgetting
  <2>4. \A d \in Calls, l \in Links :
          (At(d, "forgot", "create") /\ link[l].state = "open" => Overlapping(d, link[l].by))'
    BY <1>2, <1>4, <2>1, <2>3 DEF IInv, LinksOK, Overlapping
  <2>5. \A l \in Links \ {m} : link[l].state = "open" => Overlapping(c, link[l].by)
    BY <1>2 DEF IInv, LinksOK
  <2>6. OneLinkAtATime'
    BY <1>2, <1>4, <2>5 DEF IInv, LinksOK, OneLinkAtATime, Overlapping
  <2>q. QED BY <2>2, <2>4, <2>6 DEF LinksOK
<1>q. QED BY <1>5, <1>6, <1>7 DEF IInv

\* A reset that finds its link open remembers it with the new password.
LEMMA ResetReadsKeeps ==
  ASSUME IInv, NEW c \in Calls, NEW l \in Links, NEW new \in Passwords, ResetReads(c, l, new)
  PROVE  IInv'
<1>1. /\ \A d \in Calls \ {c} : call'[d] = call[d]
      /\ call' = [call EXCEPT ![c] = call'[c]]
      /\ \/ call'[c] = [op |-> "reset", pc |-> "write", pw |-> None, new |-> new,
                        link |-> l, seen |-> None]
         \/ call'[c] = Answered
      /\ UNCHANGED <<user, link, tokens, valid, overlap>>
  BY DEF ResetReads, history, IInv, Typed, Free
<1>2. call'[c] \in CallState
  BY <1>1 DEF CallState, Answered, Free
<1>3. Typed'
  BY <1>1, <1>2 DEF IInv, Typed, At, Answered, Free
<1>4. Followed'
  BY <1>1, StaysFollowed DEF IInv, Followed, Answered, Free
<1>5. LinksOK'
  BY <1>1, LinksKept DEF IInv, Forgetting, At, Answered, Free
<1>q. QED BY <1>3, <1>4, <1>5 DEF IInv

\* A link or a lock expires, or an administrator switches, deletes or restores
\* the user: the password, its version and the requests stay.
LEMMA OthersKeep ==
  ASSUME IInv, \/ \E l \in Links : LinkExpires(l)
               \/ LockExpires \/ SetActive \/ DeleteUser \/ RestoreUser
               \/ UNCHANGED vars
  PROVE  IInv'
<1>1. UNCHANGED <<call, tokens, valid, overlap>>
  BY DEF LinkExpires, LockExpires, SetActive, DeleteUser, RestoreUser, vars, history
<1>2. user' \in UserRow /\ user'.hash = user.hash /\ user'.ver = user.ver
  <2>1. user \in UserRow
    BY DEF IInv, Typed
  <2>q. QED
    BY <2>1 DEF LinkExpires, LockExpires, SetActive, DeleteUser, RestoreUser, vars, UserRow
<1>3. /\ link' \in [Links -> [state: {"none", "open", "used", "expired"}, by: Calls \cup {None}]]
      /\ \A l \in Links : link'[l].state = "open" =>
           link[l].state = "open" /\ link'[l].by = link[l].by
  BY DEF LinkExpires, LockExpires, SetActive, DeleteUser, RestoreUser, vars, IInv, Typed
<1>4. Typed'
  BY <1>1, <1>2, <1>3 DEF IInv, Typed, At
<1>5. Followed'
  BY <1>1, <1>2, StaysFollowed DEF IInv, Followed
<1>6. LinksOK'
  BY <1>1, <1>3, LinksKept DEF IInv, Forgetting, At
<1>q. QED BY <1>4, <1>5, <1>6 DEF IInv

\* Every step keeps the invariant.
LEMMA NextIInv == IInv /\ [Next]_vars => IInv'
<1> SUFFICES ASSUME IInv, [Next]_vars PROVE IInv'
  OBVIOUS
<1>1. Usable \in BOOLEAN /\ (user.locked # "now") \in BOOLEAN /\ (~user.deleted) \in BOOLEAN
  BY DEF Usable, IInv, Typed, UserRow
<1>2. ASSUME NEW c \in Calls, Request(c) PROVE IInv'
  <2>1. ASSUME NEW p \in Passwords, LoginReads(c, p) PROVE IInv'
    BY <2>1, <1>1, ReadKeeps DEF LoginReads
  <2>2. ASSUME NEW p \in Passwords, AdminReads(c, p) \/ UpdateReads(c, p) PROVE IInv'
    BY <2>2, <1>1, ReadKeeps DEF AdminReads, UpdateReads
  <2>3. ASSUME NEW p \in Passwords, NEW q \in Passwords, ChangeReads(c, p, q) PROVE IInv'
    BY <2>3, <1>1, ReadKeeps DEF ChangeReads
  <2>4. CASE Refresh(c)
    <3>1. PICK k \in tokens : Reads(c, "refresh", k.hash, None, "issue", Usable /\ k.ver = user.ver)
      BY <2>4 DEF Refresh
    <3>2. /\ k.hash \in Passwords /\ (Usable /\ k.ver = user.ver) \in BOOLEAN
          /\ Usable /\ k.ver = user.ver => Follows(user.ver, k.hash)
      BY <1>1 DEF IInv, Typed, Followed, Follows
    <3>q. QED BY <2>4, <3>1, <3>2, ReadKeeps DEF Refresh
  <2>q. QED
    BY <1>2, <2>1, <2>2, <2>3, <2>4, ResetReadsKeeps, RevokingKeeps, ForgetsKeeps DEF Request
<1>3. ASSUME NEW c \in Calls, Step(c) PROVE IInv'
  BY <1>3, LoginFailsKeeps, LoginPassesKeeps, GenerateTokensKeeps, RevokingKeeps,
     WriteUpdateKeeps, InvalidateLinksKeeps, CreateLinkKeeps DEF Step
<1>q. QED BY <1>2, <1>3, OthersKeep DEF Next

-----------------------------------------------------------------------------

\* A refresh token that is accepted goes back to a password that was valid
\* since the last revocation, however the logins and refreshes that are under
\* way, the password changes, resets and logouts interleave.
THEOREM SessionsFollow == Spec => []SessionFollowsPassword
<1>1. IInv => SessionFollowsPassword
  BY DEF IInv, Followed, Follows, SessionFollowsPassword
<1>q. QED BY InitIInv, NextIInv, <1>1, PTL DEF Spec

\* Reset links that are open together come from requests that overlapped.
THEOREM LinksApart == Spec => []OneLinkAtATime
<1>1. IInv => OneLinkAtATime
  BY DEF IInv, LinksOK
<1>q. QED BY InitIInv, NextIInv, <1>1, PTL DEF Spec

=============================================================================
