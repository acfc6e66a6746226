------------------------------ MODULE Accounts ------------------------------
(***************************************************************************)
(* Users, their passwords, reset links and roles: auth.service.ts and      *)
(* users.service.ts.  A handler that changes a user's roles loads the whole*)
(* user and saves it, and the save writes every column, and every role, in *)
(* which the loaded copy differs from the row as it is then.               *)
(***************************************************************************)
EXTENDS Naturals, FiniteSets

CONSTANTS
  Callers, UserIds, Nil,
  Emails, Companies,
  SuperEmail,  \* the address of the administrator of the whole system
  RoleIds,
  MaxUsers,  \* largest plan limit
  MaxCalls   \* requests; also passwords and links are numbered by their request

VARIABLES
  user, revoked,   \* the rows; roles that were deactivated
  expired,         \* links whose time has passed
  capacity,        \* users each company's plan admits; 0: without limit
  spot, call, calls,
  wanted,   \* history: user rows as the requests' own columns made them
  shrunk,   \* history: companies that had more users than their new plan admits
  tangled,  \* history: users saved from a copy another write had outdated
  spent,    \* history: how many passwords each reset link has set
  hurried   \* history: links two overlapping resets both accepted

accountVars == <<user, revoked, expired, capacity, shrunk, spot, call, calls, wanted, tangled, spent,
                 hurried>>

(* A person who registers has an e-mail address, and every plan admits a user. *)
ASSUME AccountsAssumption ==
  /\ Emails # {} /\ Companies # {} /\ UserIds # {} /\ Nil \notin Emails \cup Companies
  /\ SuperEmail \in Emails /\ MaxUsers \in Nat \ {0} /\ MaxCalls \in Nat

Places == Companies \cup {Nil}
(* link 0: none.  History: twin, created while another creation had found the e-mail
   unused, or by one that looks for no user or only for a super administrator; late,
   created by an administrator or after the count it was admitted by was outdated. *)
User == [email : Emails \cup {Nil}, company : Places, password : 0..MaxCalls,
         link : 0..MaxCalls, roles : SUBSET RoleIds, active : BOOLEAN, super : BOOLEAN,
         twin : BOOLEAN, late : BOOLEAN]
NoUser == [email |-> Nil, company |-> Nil, password |-> 0, link |-> 0, roles |-> {},
           active |-> FALSE, super |-> FALSE, twin |-> FALSE, late |-> FALSE]
Spots == {"idle", "email", "count", "limit", "find_super", "insert", "company", "load",
          "find_role", "save", "password", "ask", "find_link", "reset"}
Call == [kind : {"none", "register", "company", "invite", "super", "assign", "remove",
                 "change", "forgot", "reset"},
         user : UserIds \cup {Nil}, email : Emails \cup {Nil}, company : Places,
         counted : Nat, role : RoleIds \cup {Nil}, copy : User, link : 0..MaxCalls, number : 0..MaxCalls,
         outdated : BOOLEAN, twin : BOOLEAN, late : BOOLEAN]
NoCall == [kind |-> "none", user |-> Nil, email |-> Nil, company |-> Nil, counted |-> 0,
           role |-> Nil, copy |-> NoUser, link |-> 0, number |-> 0, outdated |-> FALSE,
           twin |-> FALSE, late |-> FALSE]

AccountsTypeOK ==
  /\ user \in [UserIds -> User] /\ revoked \subseteq RoleIds /\ expired \subseteq 1..MaxCalls
  /\ capacity \in [Companies -> 0..MaxUsers] /\ shrunk \subseteq Companies
  /\ spot \in [Callers -> Spots] /\ call \in [Callers -> Call] /\ calls \in 0..MaxCalls
  /\ wanted \in [UserIds -> User] /\ tangled \subseteq UserIds
  /\ spent \in [1..MaxCalls -> Nat] /\ hurried \subseteq 1..MaxCalls

(* Nobody yet, or the administrator that registered a company. *)
AnyOf(S) == CHOOSE x \in S : TRUE
Registered == [NoUser EXCEPT !.email = AnyOf(Emails), !.company = AnyOf(Companies), !.active = TRUE]
FirstUsers == {[u \in UserIds |-> NoUser],
               [u \in UserIds |-> IF u = AnyOf(UserIds) THEN Registered ELSE NoUser]}
AccountsInit ==
  /\ user \in FirstUsers /\ revoked = {} /\ expired = {}
  /\ capacity \in [Companies -> 0..MaxUsers] /\ shrunk = {}
  /\ spot = [c \in Callers |-> "idle"] /\ call = [c \in Callers |-> NoCall] /\ calls = 0
  /\ wanted = user /\ tangled = {} /\ spent = [l \in 1..MaxCalls |-> 0] /\ hurried = {}
-----------------------------------------------------------------------------
Users == {u \in UserIds : user[u].email # Nil}
NextUser == IF Users = UserIds THEN {} ELSE {CHOOSE u \in UserIds : u \notin Users}
Members(m) == {u \in Users : user[u].company = m}
WithEmail(e) == {u \in Users : user[u].email = e}

Ring(c, k, s) ==
  /\ spot[c] = "idle" /\ calls < MaxCalls /\ calls' = calls + 1
  /\ spot' = [spot EXCEPT ![c] = s]
  /\ call' = [call EXCEPT ![c] = [k EXCEPT !.number = calls + 1]]
  /\ UNCHANGED <<user, revoked, expired, capacity, shrunk, wanted, tangled, spent, hurried>>
HangUp(c) == spot' = [spot EXCEPT ![c] = "idle"] /\ call' = [call EXCEPT ![c] = NoCall]
Move(c, s) == spot' = [spot EXCEPT ![c] = s] /\ UNCHANGED call
Still == UNCHANGED <<user, revoked, expired, capacity, shrunk, calls, wanted, tangled, spent, hurried>>

(* register, for a company or none; registerCompany; createTenantUser;
   createSuperAdmin. *)
BeginAccount(c) ==
  \E e \in Emails :
    \/ \E m \in Places :
         Ring(c, [NoCall EXCEPT !.kind = "register", !.email = e, !.company = m], "email")
    \/ \E m \in Companies :
         \/ Ring(c, [NoCall EXCEPT !.kind = "company", !.email = e, !.company = m], "email")
         \/ Members(m) # {} /\ \E r \in RoleIds \cup {Nil} :
              Ring(c, [NoCall EXCEPT !.kind = "invite", !.email = e, !.company = m, !.role = r,
                                     !.twin = TRUE], "insert")
BeginSuper(c) == Ring(c, [NoCall EXCEPT !.kind = "super", !.email = SuperEmail], "find_super")
FindEmail(c) ==
  /\ spot[c] = "email"
  /\ IF WithEmail(call[c].email) # {} THEN HangUp(c)
     ELSE Move(c, IF call[c].kind = "company" THEN "company"
                  ELSE IF call[c].company = Nil THEN "insert" ELSE "count")
  /\ Still
CountUsers(c) ==
  /\ spot[c] = "count"
  /\ call' = [call EXCEPT ![c].counted = Cardinality(Members(call[c].company))]
  /\ spot' = [spot EXCEPT ![c] = "limit"] /\ Still
Admits(m, n) == capacity[m] = 0 \/ n < capacity[m]
CheckCapacity(c) ==
  /\ spot[c] = "limit"
  /\ IF Admits(call[c].company, call[c].counted) THEN Move(c, "insert") ELSE HangUp(c)
  /\ Still
(* Only a super administrator's row stops a second: an account of another role with
   the same address does not. *)
FindSuper(c) ==
  /\ spot[c] = "find_super"
  /\ LET same == WithEmail(call[c].email) IN
     IF \E u \in same : user[u].super THEN HangUp(c)
     ELSE /\ call' = [call EXCEPT ![c].twin = (same # {})]
          /\ spot' = [spot EXCEPT ![c] = "insert"]
  /\ Still
(* upgradePlan and updatePlan: the plan's limit becomes n, tested by nothing; who is
   between the limit and the insert was admitted by the old one. *)
ChangePlan ==
  /\ calls < MaxCalls /\ calls' = calls + 1
  /\ \E m \in Companies, n \in 0..MaxUsers :
       /\ Members(m) # {} /\ n # capacity[m] /\ capacity' = [capacity EXCEPT ![m] = n]
       /\ shrunk' = IF Cardinality(Members(m)) > n /\ n # 0 THEN shrunk \cup {m} ELSE shrunk \ {m}
       /\ call' = [d \in Callers |-> [call[d] EXCEPT
                    !.late = (@ \/ (spot[d] = "insert" /\ call[d].company = m))]]
  /\ UNCHANGED <<user, revoked, expired, spot, wanted, tangled, spent, hurried>>
EmailUnchecked(e, m) == TRUE  \* slip: no unique key over company and e-mail
(* @Unique(tenantId, email), which does not compare missing companies. *)
EmailFree(e, m) == m = Nil \/ \A v \in Members(m) : user[v].email # e
(* Others that are past their own look at the e-mail or the count learn of it. *)
Warn(c, mine) == call' = [d \in Callers |->
  IF d = c THEN mine
  ELSE [call[d] EXCEPT
    !.twin = (@ \/ (call[d].email = call[c].email
                      /\ spot[d] \in {"count", "limit", "insert", "company"})),
    !.late = (@ \/ (call[d].company = call[c].company /\ spot[d] \in {"limit", "insert"}))]]
NewRow(c, active, super) ==
  [NoUser EXCEPT !.email = call[c].email, !.company = call[c].company,
                 !.password = call[c].number, !.active = active, !.super = super,
                 !.twin = call[c].twin,
                 !.late = (call[c].late \/ call[c].kind = "invite")]
(* register and createTenantUser take the role from the request. *)
Ranks(c) == IF call[c].kind = "super" THEN {TRUE} ELSE BOOLEAN
InsertUser(c) ==
  /\ spot[c] = "insert"
  /\ IF EmailFree(call[c].email, call[c].company)
     THEN \E u \in NextUser, super \in Ranks(c) :
            LET goesOn == call[c].kind = "invite" /\ call[c].role # Nil IN
            /\ user' = [user EXCEPT ![u] = NewRow(c, call[c].kind \in {"invite", "super"}, super)]
            /\ wanted' = [wanted EXCEPT ![u] = user'[u]]
            /\ spot' = [spot EXCEPT ![c] = IF goesOn THEN "load" ELSE "idle"]
            /\ Warn(c, IF goesOn THEN [call[c] EXCEPT !.kind = "assign", !.user = u, !.twin = FALSE]
                       ELSE NoCall)
     ELSE HangUp(c) /\ UNCHANGED <<user, wanted>>
  /\ UNCHANGED <<revoked, expired, capacity, shrunk, calls, tangled, spent, hurried>>
(* The transaction of registerCompany: user, company, subscription, token.  Name
   and domain of a company are unique. *)
RegisterCompany(c) ==
  /\ spot[c] = "company"
  /\ IF Members(call[c].company) = {}
     THEN \E u \in NextUser :
            /\ user' = [user EXCEPT ![u] = NewRow(c, TRUE, FALSE)]
            /\ wanted' = [wanted EXCEPT ![u] = user'[u]]
            /\ spot' = [spot EXCEPT ![c] = "idle"] /\ Warn(c, NoCall)
     ELSE HangUp(c) /\ UNCHANGED <<user, wanted>>
  /\ UNCHANGED <<revoked, expired, capacity, shrunk, calls, tangled, spent, hurried>>
-----------------------------------------------------------------------------
Loaded(d) == spot[d] \in {"find_role", "save"}
(* A request writes the columns of u given by new, from a copy that may be old. *)
Write(c, u, new, asked) ==
  /\ user' = [user EXCEPT ![u] = new]
  /\ wanted' = [wanted EXCEPT ![u] = asked]
  /\ call' = [d \in Callers |->
       IF d = c THEN NoCall
       ELSE [call[d] EXCEPT !.outdated = (@ \/ (call[d].user = u /\ Loaded(d)))]]
  /\ spot' = [spot EXCEPT ![c] = "idle"]
BeginRole(c) ==
  \E u \in Users, r \in RoleIds, k \in {"assign", "remove"} :
    Ring(c, [NoCall EXCEPT !.kind = k, !.user = u, !.role = r], "load")
LoadUser(c) ==
  /\ spot[c] = "load"
  /\ call' = [call EXCEPT ![c].copy = user[call[c].user], ![c].outdated = FALSE]
  /\ spot' = [spot EXCEPT ![c] = IF call[c].kind = "assign" THEN "find_role" ELSE "save"]
  /\ Still
FindRole(c) == spot[c] = "find_role" /\ Move(c, "save") /\ Still
NextRoles(c, roles) == IF call[c].kind = "assign" THEN roles \cup {call[c].role}
                       ELSE roles \ {call[c].role}
SavedAlone(c) ==  \* slip: an assigned role replaces the others
  [call[c].copy EXCEPT !.roles = IF call[c].kind = "assign" THEN {call[c].role}
                                 ELSE @ \ {call[c].role}]
Saved(c) == [call[c].copy EXCEPT !.roles = NextRoles(c, @)]
SaveUser(c) ==
  /\ spot[c] = "save"
  /\ LET u == call[c].user IN
     /\ Write(c, u, Saved(c), [wanted[u] EXCEPT !.roles = NextRoles(c, @)])
     /\ tangled' = IF call[c].outdated THEN tangled \cup {u} ELSE tangled
  /\ UNCHANGED <<revoked, expired, capacity, shrunk, calls, spent, hurried>>
(* deleteTenantRole: users keep the role. *)
DeactivateRole ==
  /\ calls < MaxCalls /\ calls' = calls + 1
  /\ \E r \in RoleIds \ revoked : revoked' = revoked \cup {r}
  /\ UNCHANGED <<user, expired, capacity, shrunk, spot, call, wanted, tangled, spent, hurried>>
-----------------------------------------------------------------------------
(* changePassword: the current password is compared, then one column is written. *)
BeginPassword(c) ==
  \E u \in Users : Ring(c, [NoCall EXCEPT !.kind = "change", !.user = u], "password")
ChangePassword(c) ==
  /\ spot[c] = "password"
  /\ LET u == call[c].user IN
     Write(c, u, [user[u] EXCEPT !.password = call[c].number],
           [wanted[u] EXCEPT !.password = call[c].number])
  /\ UNCHANGED <<revoked, expired, capacity, shrunk, calls, tangled, spent, hurried>>
(* forgotPassword: a new link replaces the previous one. *)
BeginForgot(c) ==
  \E u \in Users : user[u].active /\ Ring(c, [NoCall EXCEPT !.kind = "forgot", !.user = u], "ask")
MakeLink(c) ==
  /\ spot[c] = "ask"
  /\ LET u == call[c].user
         linked(row) == [row EXCEPT !.link = call[c].number] IN
     Write(c, u, linked(user[u]), linked(wanted[u]))
  /\ UNCHANGED <<revoked, expired, capacity, shrunk, calls, tangled, spent, hurried>>
(* The hour of a link has passed. *)
LinkExpires ==
  /\ \E u \in Users : user[u].link \notin expired \cup {0} /\ expired' = expired \cup {user[u].link}
  /\ UNCHANGED <<user, revoked, capacity, shrunk, spot, call, calls, wanted, tangled, spent,
                 hurried>>
(* resetPassword: the link is looked up, the password hashed, and then written while
   whatever link the user has is taken away. *)
BeginReset(c) ==
  \E l \in 1..calls :
    Ring(c, [NoCall EXCEPT !.kind = "reset", !.link = l], "find_link")
Holder(l) == {u \in Users : user[u].link = l /\ l \notin expired}
FindLink(c) ==
  /\ spot[c] = "find_link"
  /\ \/ Holder(call[c].link) = {} /\ HangUp(c)
     \/ \E u \in Holder(call[c].link) :
          call' = [call EXCEPT ![c].user = u] /\ spot' = [spot EXCEPT ![c] = "reset"]
  /\ Still
UnlinkedNever(row, n) == [row EXCEPT !.password = n]  \* slip: the link is kept
Unlinked(row, n) == [row EXCEPT !.password = n, !.link = 0]
ResetPassword(c) ==
  /\ spot[c] = "reset"
  /\ LET u == call[c].user IN
     Write(c, u, Unlinked(user[u], call[c].number),
           [wanted[u] EXCEPT !.password = call[c].number, !.link = 0])
  /\ spent' = [spent EXCEPT ![call[c].link] = @ + 1]
  /\ hurried' = hurried \cup
       {l \in {call[c].link} : \E d \in Callers \ {c} : spot[d] = "reset" /\ call[d].link = l}
  /\ UNCHANGED <<revoked, expired, capacity, shrunk, calls, tangled>>
Drop(c) == spot[c] # "idle" /\ HangUp(c) /\ Still

AccountsNext ==
  \/ DeactivateRole \/ LinkExpires \/ ChangePlan
  \/ \E c \in Callers :
       \/ BeginAccount(c) \/ BeginSuper(c) \/ FindEmail(c) \/ FindSuper(c)
       \/ CountUsers(c) \/ CheckCapacity(c) \/ InsertUser(c)
       \/ RegisterCompany(c) \/ BeginRole(c) \/ LoadUser(c) \/ FindRole(c) \/ SaveUser(c)
       \/ BeginPassword(c) \/ ChangePassword(c) \/ BeginForgot(c) \/ MakeLink(c)
       \/ BeginReset(c) \/ FindLink(c) \/ ResetPassword(c) \/ Drop(c)
AccountsSpec == AccountsInit /\ [][AccountsNext]_accountVars
-----------------------------------------------------------------------------
(* A user's password, link and roles are what the requests about them made of them,
   unless a change of roles saved a copy of the user that another request had
   outdated (users.service.ts:142-167). *)
UserLossHasCause == \A u \in Users : user[u] # wanted[u] => u \in tangled

(* A reset link sets one password, unless two resets with it overlap or a change of
   roles brought it back (auth.service.ts:125-156). *)
LinkWorksOnce ==
  \A l \in 1..MaxCalls : spent[l] > 1 => l \in hurried \/ tangled # {}

(* Two accounts have the same e-mail only when their creations overlapped, when an
   administrator created one in another company, or when the super administrator was
   set up at an address in use by another role; and never within one company.  A
   company has more users than its plan admits only by creations that overlapped each
   other or a change of plan, by administrators, who are not held to the limit, or
   because its new plan admitted fewer than it had (auth.service.ts:217-231, 281-317,
   331-337; users.service.ts:177-206; subscriptions.service.ts:141-184). *)
TwinsHaveCause ==
  /\ \A u, v \in Users : u # v /\ user[u].email = user[v].email =>
       /\ user[u].twin \/ user[v].twin
       /\ user[u].company = Nil \/ user[u].company # user[v].company
  /\ \A m \in Companies : capacity[m] # 0 /\ Cardinality(Members(m)) > capacity[m] =>
       m \in shrunk \/ \E u \in Members(m) : user[u].late
(* Users, roles, links and requests keep their types, and twins have their causes
   (auth.service.ts:217-231, 281-317; users.service.ts:177-206). *)
AccountsHold == AccountsTypeOK /\ TwinsHaveCause
=============================================================================
