----------------------------- MODULE AuthSessions -----------------------------
(***************************************************************************)
(* Users, their refresh tokens, password resets and the daily login.  A    *)
(* refresh reads its token, and a restored session its day's login, before *)
(* the transaction that writes; only the daily login takes a lock.         *)
(***************************************************************************)
EXTENDS Integers, FiniteSets

CONSTANTS
    User,           \* ids of users
    Email,
    Password,
    Worker,         \* requests served at once
    MaxTokens,      \* bound on the refresh and reset tokens issued
    Days            \* bound on the Indian days

AuthAssumption == MaxTokens \in Nat /\ Days \in Nat

VARIABLES
    users,          \* User by id
    tokens,         \* RefreshToken: user, active, and history: the period it was read in, late
    resets,         \* PasswordResetToken: user, used
    period,         \* history: per user, resets and deletions so far
    handling,       \* per worker: a refresh or a session check under way
    date,           \* the Indian day
    logins          \* history: restored logins recorded, by user and day

authVars == <<users, tokens, resets, period, handling, date, logins>>

Free == [at |-> "free"]
AuthInit ==
    /\ users = <<>>
    /\ tokens = <<>> /\ resets = {}
    /\ period = [u \in User |-> 0]
    /\ handling = [w \in Worker |-> Free]
    /\ date = 0
    /\ logins = [k \in User \X (0..Days) |-> 0]

Live(u) == u \in DOMAIN users /\ ~users[u].deleted
EmailFree(e, except) == \A u \in DOMAIN users \ {except} : users[u].email # e
NextToken == Cardinality(DOMAIN tokens) + 1
Issue(u, p, late) ==
    [i \in 1..NextToken |->
        IF i = NextToken THEN [user |-> u, active |-> TRUE, period |-> p, late |-> late] ELSE tokens[i]]
M_RevokeAll(u) == tokens    \* mutant: a reset leaves the sessions
RevokeAll(u) ==
    [i \in DOMAIN tokens |-> IF tokens[i].user = u THEN [tokens[i] EXCEPT !.active = FALSE] ELSE tokens[i]]

----------------------------------------------------------------------------
(* The administrator.                                                      *)
CreateUser(u, email, password) ==
    /\ u \notin DOMAIN users /\ EmailFree(email, u)
    /\ users' = [x \in DOMAIN users \cup {u} |->
                    IF x = u THEN [email |-> email, password |-> password,
                                   active |-> TRUE, deleted |-> FALSE] ELSE users[x]]
    /\ UNCHANGED <<tokens, resets, period, handling, date, logins>>

UpdateUser(u, email, active) ==
    /\ Live(u) /\ EmailFree(email, u)
    /\ users' = [users EXCEPT ![u].email = email, ![u].active = active]
    /\ users' # users
    /\ UNCHANGED <<tokens, resets, period, handling, date, logins>>

SetUserActive(u, active) ==
    /\ Live(u) /\ users[u].active # active
    /\ users' = [users EXCEPT ![u].active = active]
    /\ UNCHANGED <<tokens, resets, period, handling, date, logins>>

\* delete_user(): the row stays under another e-mail address.
DeleteUser(u) ==
    /\ Live(u)
    /\ users' = [users EXCEPT ![u].active = FALSE, ![u].deleted = TRUE, ![u].email = "deleted"]
    /\ resets' = {r \in resets : r.user # u}
    /\ tokens' = RevokeAll(u)
    /\ period' = [period EXCEPT ![u] = @ + 1]
    /\ UNCHANGED <<handling, date, logins>>

----------------------------------------------------------------------------
(* The session requests of a user.                                         *)
Login(u, password) ==
    /\ Live(u) /\ users[u].active /\ users[u].password = password
    /\ NextToken <= MaxTokens
    /\ tokens' = Issue(u, period[u], FALSE)
    /\ UNCHANGED <<users, resets, period, handling, date, logins>>

RefreshReads(w, i) ==
    /\ handling[w] = Free
    /\ i \in DOMAIN tokens /\ tokens[i].active
    /\ Live(tokens[i].user) /\ users[tokens[i].user].active
    /\ handling' = [handling EXCEPT ![w] =
                      [at |-> "read", user |-> tokens[i].user, token |-> i, late |-> tokens[i].late,
                       period |-> period[tokens[i].user]]]
    /\ UNCHANGED <<users, tokens, resets, period, date, logins>>

\* The token of a user who may not sign in is spent.
RefreshRefused(i) ==
    /\ i \in DOMAIN tokens /\ tokens[i].active
    /\ ~(Live(tokens[i].user) /\ users[tokens[i].user].active)
    /\ tokens' = [tokens EXCEPT ![i].active = FALSE]
    /\ UNCHANGED <<users, resets, period, handling, date, logins>>

\* GET /me with an access token: get_current_user() wants a live, active user.
MeReads(w, u) ==
    /\ handling[w] = Free
    /\ Live(u) /\ users[u].active
    /\ handling' = [handling EXCEPT ![w] = [at |-> "read", user |-> u, token |-> 0]]
    /\ UNCHANGED <<users, tokens, resets, period, date, logins>>

\* record_daily_login(): the advisory lock of the user and day, then the look-up.
DayLocked(u, d) == \E w \in Worker : handling[w].at = "locked" /\ handling[w].user = u /\ handling[w].date = d
LockDay(w) ==
    LET h == handling[w] IN
    /\ h.at = "read" /\ ~DayLocked(h.user, date)
    /\ handling' = [handling EXCEPT ![w] =
                      [at |-> "locked", user |-> h.user, token |-> h.token, date |-> date,
                       known |-> logins[<<h.user, date>>] # 0,
                       late |-> IF h.token = 0 THEN FALSE ELSE h.late,
                       period |-> IF h.token = 0 THEN 0 ELSE h.period]]
    /\ UNCHANGED <<users, tokens, resets, period, date, logins>>

RecordDay(h) == IF h.known THEN logins ELSE [logins EXCEPT ![<<h.user, h.date>>] = @ + 1]

MeEnds(w) ==
    /\ handling[w].at = "locked" /\ handling[w].token = 0
    /\ logins' = RecordDay(handling[w])
    /\ handling' = [handling EXCEPT ![w] = Free]
    /\ UNCHANGED <<users, tokens, resets, period, date>>

\* refresh(): the old token is revoked and its successor stored, whatever happened since.
RefreshEnds(w) ==
    LET h == handling[w] IN
    /\ h.at = "locked" /\ h.token # 0
    /\ NextToken <= MaxTokens
    /\ tokens' = [Issue(h.user, h.period, h.late \/ h.period # period[h.user])
                    EXCEPT ![h.token].active = FALSE]
    /\ logins' = RecordDay(h)
    /\ handling' = [handling EXCEPT ![w] = Free]
    /\ UNCHANGED <<users, resets, period, date>>

Logout(i) ==
    /\ i \in DOMAIN tokens /\ tokens[i].active
    /\ tokens' = [tokens EXCEPT ![i].active = FALSE]
    /\ UNCHANGED <<users, resets, period, handling, date, logins>>

\* request_password_reset(): an earlier reset token stays usable.
RequestPasswordReset(u) ==
    /\ Live(u) /\ users[u].active
    /\ Cardinality(resets) < MaxTokens
    /\ resets' = resets \cup {[id |-> Cardinality(resets), user |-> u, used |-> FALSE]}
    /\ UNCHANGED <<users, tokens, period, handling, date, logins>>

ResetPassword(r, password) ==
    /\ r \in resets /\ ~r.used
    /\ Live(r.user) /\ users[r.user].active
    /\ users[r.user].password # password
    /\ users' = [users EXCEPT ![r.user].password = password]
    /\ resets' = (resets \ {r}) \cup {[r EXCEPT !.used = TRUE]}
    /\ tokens' = RevokeAll(r.user)
    /\ period' = [period EXCEPT ![r.user] = @ + 1]
    /\ UNCHANGED <<handling, date, logins>>

NextDay == date < Days /\ date' = date + 1 /\ UNCHANGED <<users, tokens, resets, period, handling, logins>>

AuthNext ==
    \/ \E u \in User :
         \/ \E e \in Email : (\E p \in Password : CreateUser(u, e, p))
                             \/ \E b \in BOOLEAN : UpdateUser(u, e, b)
         \/ \E b \in BOOLEAN : SetUserActive(u, b)
         \/ DeleteUser(u) \/ RequestPasswordReset(u)
         \/ \E p \in Password : Login(u, p)
    \/ \E w \in Worker :
         \/ \E i \in 1..MaxTokens : RefreshReads(w, i)
         \/ \E u \in User : MeReads(w, u)
         \/ LockDay(w) \/ MeEnds(w) \/ RefreshEnds(w)
    \/ \E i \in 1..MaxTokens : RefreshRefused(i) \/ Logout(i)
    \/ \E r \in resets, p \in Password : ResetPassword(r, p)
    \/ NextDay

AuthSpec == AuthInit /\ [][AuthNext]_authVars

----------------------------------------------------------------------------
AuthTypeOK ==
    /\ DOMAIN users \subseteq User
    /\ DOMAIN tokens \subseteq 1..MaxTokens
    /\ \A r \in resets : r.user \in User /\ r.used \in BOOLEAN
    /\ \A k \in DOMAIN logins : logins[k] \in Nat

\* A password reset or a deletion ends every session begun before it: no refresh token of
\* an earlier period is active, along whatever chain of refreshes, unless a refresh was
\* already under way; and a restored session is recorded once per user and Indian day.
SessionsEnd ==
    /\ \A i \in DOMAIN tokens :
         tokens[i].active /\ ~tokens[i].late => tokens[i].period = period[tokens[i].user]
    /\ \A k \in DOMAIN logins : logins[k] <= 1
=============================================================================
