------------------------------ MODULE Accounts ------------------------------
(***************************************************************************)
(* One user's account on the server: password, lockout, token version,     *)
(* reset links (auth.service.ts, users.service.ts, users.repository.ts).    *)
(*                                                                         *)
(* A request reads the row, spends its time in argon2, and writes; other   *)
(* requests run in between.  Every statement is atomic by itself, and      *)
(* `increment` is relative to the row it finds.  A hash is the password it *)
(* was made from.                                                          *)
(***************************************************************************)
EXTENDS Integers, FiniteSets, Sequences

CONSTANTS
  Calls,               \* requests, each made at most once
  Passwords,
  Links,               \* reset tokens that randomBytes may give
  None,
  MAX_FAILED_ATTEMPTS

ASSUME AccountsAssumption == MAX_FAILED_ATTEMPTS \in Nat \ {0} /\ None \notin Passwords

VARIABLES
  user,       \* the user's row
  link,       \* link[l]: the password_reset_tokens row
  call,       \* call[c]: the request, what it read and where it is
  tokens,     \* the refresh tokens issued so far
  valid,      \* history: the passwords set since the tokens were last revoked
  overlap     \* history: <<c, d>>: forgotPassword c ran when d did

vars == <<user, link, call, tokens, valid, overlap>>
history == <<valid, overlap>>

Free == [op |-> None, pc |-> "idle", pw |-> None, new |-> None, link |-> None, seen |-> None]

Answered == [Free EXCEPT !.pc = "done"]

Init ==
  /\ \E p \in Passwords :
       /\ user = [hash |-> p, ver |-> 0, failed |-> 0, locked |-> "no",
                  active |-> TRUE, deleted |-> FALSE]
       /\ valid = {p}
  /\ link = [l \in Links |-> [state |-> "none", by |-> None]]
  /\ call = [c \in Calls |-> Free]
  /\ tokens = {} /\ overlap = {}

Usable == user.active /\ ~user.deleted

At(c, op, pc) == call[c].op = op /\ call[c].pc = pc
Goes(c, pc) == call' = [call EXCEPT ![c].pc = pc]
Ends(c) == call' = [call EXCEPT ![c] = Answered]

\* The request and the row it reads first; it is refused unless ok.
Reads(c, op, pw, new, pc, ok) ==
  call' = [call EXCEPT ![c] =
             IF ok THEN [Free EXCEPT !.op = op, !.pc = pc, !.pw = pw, !.new = new, !.seen = user]
             ELSE Answered]

-----------------------------------------------------------------------------
\* AuthService.login

LoginReads(c, pw) ==
  /\ call[c] = Free
  /\ Reads(c, "login", pw, None, "verify", Usable /\ user.locked # "now")
  /\ UNCHANGED <<user, link, tokens, history>>

\* argon2.verify is done.  A wrong password is counted from what was read; the
\* last one that is allowed locks the account.
LoginFails(c) ==
  /\ At(c, "login", "verify") /\ call[c].pw # call[c].seen.hash
  /\ LET attempts == call[c].seen.failed + 1
     IN  user' = [user EXCEPT !.failed = attempts,
                              !.locked = IF attempts >= MAX_FAILED_ATTEMPTS THEN "now" ELSE @]
  /\ Ends(c)
  /\ UNCHANGED <<link, tokens, valid, overlap>>

\* A right password clears the counter that was read, then generateTokens.
LoginPasses(c) ==
  /\ At(c, "login", "verify") /\ call[c].pw = call[c].seen.hash
  /\ user' = IF call[c].seen.failed > 0 \/ call[c].seen.locked # "no"
               THEN [user EXCEPT !.failed = 0, !.locked = "no"] ELSE user
  /\ Goes(c, "issue")
  /\ UNCHANGED <<link, tokens, history>>

\* Mutant of GenerateTokens: the version is read again when the token is made.
GenerateTokensReread(c) ==
  /\ call[c].op \in {"login", "refresh"} /\ call[c].pc = "issue"
  /\ tokens' = tokens \cup {[ver |-> user.ver, hash |-> call[c].pw]}
  /\ Ends(c)
  /\ UNCHANGED <<user, link, history>>

\* generateTokens with the user that was read.
GenerateTokens(c) ==
  /\ call[c].op \in {"login", "refresh"} /\ call[c].pc = "issue"
  /\ tokens' = tokens \cup {[ver |-> call[c].seen.ver, hash |-> call[c].pw]}
  /\ Ends(c)
  /\ UNCHANGED <<user, link, history>>

\* AuthController.refresh, refreshTokens up to generateTokens; the new token
\* descends from the password of the old one.
Refresh(c) ==
  /\ call[c] = Free
  /\ \E k \in tokens :
       Reads(c, "refresh", k.hash, None, "issue", Usable /\ k.ver = user.ver)
  /\ UNCHANGED <<user, link, tokens, history>>

\* AuthService.logout
Logout(c) ==
  /\ call[c] = Free /\ tokens # {}
  /\ user' = [user EXCEPT !.ver = @ + 1]
  /\ valid' = {user.hash}
  /\ Ends(c)
  /\ UNCHANGED <<link, tokens, overlap>>

-----------------------------------------------------------------------------
\* Passwords

\* changePassword reads the row and verifies both passwords against it.
ChangeReads(c, pw, new) ==
  /\ call[c] = Free
  /\ Reads(c, "change", pw, new, "write", Usable /\ pw = user.hash /\ new # user.hash)
  /\ UNCHANGED <<user, link, tokens, history>>

\* UsersService.resetPassword by an administrator, findById.
AdminReads(c, new) ==
  /\ call[c] = Free
  /\ Reads(c, "admin", None, new, "write", ~user.deleted)
  /\ UNCHANGED <<user, link, tokens, history>>

\* UsersService.update with a password: the sessions are kept.
UpdateReads(c, new) ==
  /\ call[c] = Free
  /\ Reads(c, "update", None, new, "write", ~user.deleted)
  /\ UNCHANGED <<user, link, tokens, history>>

\* The write of changePassword and of UsersService.resetPassword.
WritePassword(c) ==
  /\ call[c].op \in {"change", "admin"} /\ call[c].pc = "write"
  /\ user' = [user EXCEPT !.hash = call[c].new, !.ver = @ + 1]
  /\ valid' = {call[c].new}
  /\ Ends(c)
  /\ UNCHANGED <<link, tokens, overlap>>

WriteUpdate(c) ==
  /\ At(c, "update", "write")
  /\ user' = [user EXCEPT !.hash = call[c].new]
  /\ valid' = valid \cup {call[c].new}
  /\ Ends(c)
  /\ UNCHANGED <<link, tokens, overlap>>

-----------------------------------------------------------------------------
\* Reset links

\* forgotPassword reads the user.
Forgets(c) ==
  /\ call[c] = Free
  /\ Reads(c, "forgot", None, None, "invalidate", Usable)
  /\ overlap' = overlap \cup {<<c, d>> : d \in {d \in Calls : call[d].op = "forgot"}}
  /\ UNCHANGED <<user, link, tokens, valid>>

\* Mutant of InvalidateLinks: earlier links stay.
InvalidateLinksNone(c) ==
  /\ At(c, "forgot", "invalidate")
  /\ Goes(c, "create")
  /\ UNCHANGED <<user, link, tokens, history>>

\* updateMany: every unused link of the user is used.
InvalidateLinks(c) ==
  /\ At(c, "forgot", "invalidate")
  /\ link' = [l \in Links |-> IF link[l].state = "open" THEN [link[l] EXCEPT !.state = "used"]
                              ELSE link[l]]
  /\ Goes(c, "create")
  /\ UNCHANGED <<user, tokens, history>>

\* create; the link leaves by mail.
CreateLink(c) ==
  /\ At(c, "forgot", "create")
  /\ \E l \in Links : link[l].state = "none"
                      /\ link' = [link EXCEPT ![l] = [state |-> "open", by |-> c]]
  /\ Ends(c)
  /\ UNCHANGED <<user, tokens, history>>

\* An hour has passed: the link is refused from now on.
LinkExpires(l) ==
  /\ link[l].state = "open"
  /\ link' = [link EXCEPT ![l].state = "expired"]
  /\ UNCHANGED <<user, call, tokens, history>>

\* resetPassword finds the link; the hash is computed after that.
ResetReads(c, l, new) ==
  /\ call[c] = Free /\ link[l].state # "none"
  /\ call' = [call EXCEPT ![c] = IF link[l].state = "open"
                 THEN [Free EXCEPT !.op = "reset", !.pc = "write", !.new = new, !.link = l]
                 ELSE Answered]
  /\ UNCHANGED <<user, link, tokens, history>>

\* The transaction of resetPassword.
ResetWrites(c) ==
  /\ At(c, "reset", "write")
  /\ user' = [user EXCEPT !.hash = call[c].new, !.ver = @ + 1, !.failed = 0, !.locked = "no"]
  /\ link' = [link EXCEPT ![call[c].link].state = "used"]
  /\ valid' = {call[c].new}
  /\ Ends(c)
  /\ UNCHANGED <<tokens, overlap>>

-----------------------------------------------------------------------------
\* Users

\* UsersService.update of isActive, softDelete and restore.
SetActive ==
  /\ ~user.deleted
  /\ user' = [user EXCEPT !.active = ~@]
  /\ UNCHANGED <<link, call, tokens, history>>

DeleteUser ==
  /\ ~user.deleted
  /\ user' = [user EXCEPT !.deleted = TRUE]
  /\ UNCHANGED <<link, call, tokens, history>>

RestoreUser ==
  /\ user.deleted
  /\ user' = [user EXCEPT !.deleted = FALSE]
  /\ UNCHANGED <<link, call, tokens, history>>

\* Thirty minutes have passed.
LockExpires ==
  /\ user.locked = "now"
  /\ user' = [user EXCEPT !.locked = "past"]
  /\ UNCHANGED <<link, call, tokens, history>>

-----------------------------------------------------------------------------

Step(c) ==
  \/ LoginFails(c) \/ LoginPasses(c) \/ GenerateTokens(c)
  \/ WritePassword(c) \/ WriteUpdate(c)
  \/ InvalidateLinks(c) \/ CreateLink(c) \/ ResetWrites(c)

Request(c) ==
  \/ \E p \in Passwords : LoginReads(c, p) \/ AdminReads(c, p) \/ UpdateReads(c, p)
  \/ \E p, q \in Passwords : ChangeReads(c, p, q)
  \/ \E l \in Links, p \in Passwords : ResetReads(c, l, p)
  \/ Refresh(c) \/ Logout(c) \/ Forgets(c)

Next ==
  \/ \E c \in Calls : Request(c) \/ Step(c)
  \/ \E l \in Links : LinkExpires(l)
  \/ LockExpires \/ SetActive \/ DeleteUser \/ RestoreUser

Spec == Init /\ [][Next]_vars

-----------------------------------------------------------------------------
\* Properties.

\* A refresh token that is accepted now goes back to a login with a password
\* that was valid since the tokens were last revoked: a login or a refresh that
\* is under way when the password changes yields a token that is already
\* revoked (changePassword and resetPassword, "Increment tokenVersion to
\* invalidate all existing refresh tokens").
SessionFollowsPassword == \A k \in tokens : k.ver = user.ver => k.hash \in valid

\* Two reset links are open at once only when their requests overlapped
\* (forgotPassword, "Invalidate all prior reset tokens for this user").
OneLinkAtATime ==
  \A l, m \in Links :
    l # m /\ link[l].state = "open" /\ link[m].state = "open"
      => <<link[l].by, link[m].by>> \in overlap \/ <<link[m].by, link[l].by>> \in overlap

=============================================================================
