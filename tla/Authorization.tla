---------------------------- MODULE Authorization ----------------------------
(***************************************************************************)
(* What a page says its person may not do (PermissionRequirements.vue and  *)
(* the keys of the menu editor): the API server's own answer to a rules    *)
(* review, flattened to a table (authz.ts) and asked again                 *)
(* (useAuthorization.ts) when a RoleBinding changes, which is a shared     *)
(* stream's to say, or a timer's where there is no stream                  *)
(* (grantChanges.ts).  Several questions may be out at a time, and the     *)
(* answer that comes last is shown, whichever was asked last.              *)
(***************************************************************************)
EXTENDS Naturals

CONSTANTS
  Rules,       \* rules a binding of this person's may bring
  Keys,        \* the Secrets of the menu's keys
  Nothing,     \* no answer yet
  MaxMoves     \* bound: bindings that change, streams that break, failures

AuthorizationAssumption ==
  /\ \A rule \in Rules : DOMAIN rule = {"groups", "resources", "names", "verbs"}
  /\ MaxMoves \in Nat

VARIABLES
  needs,      \* the page: whose requirements it shows
  held,       \* the rules this person holds
  watch,      \* the shared stream: at, wasLive, mode, and an event under way
  due,        \* the debounce runs
  questions,  \* getAuthorization in flight
  authz,      \* authz, the rows of the last answer
  used        \* how much of MaxMoves is used

authzVars == <<needs, held, watch, due, questions, authz, used>>

Move == used < MaxMoves /\ used' = used + 1
Asks == {1, 2}    \* bound: questions in flight at a time

-----------------------------------------------------------------------------
(* What the pages need.                                                    *)

examples == "examples.configbutler.ai"
roomPass == "room-pass.koudijs.dev"
rbac == "rbac.authorization.k8s.io"

On(group, resource, verbs) == {[group |-> group, resource |-> resource, verb |-> v] : v \in verbs}

Requirements ==
  [menu |-> On(examples, "coffeeconfigs", {"get", "watch", "patch"})
            \cup On("configbutler.ai", "commitrequests", {"create"}),
   databases |-> On("platform.configbutler.ai", "databases",
                    {"list", "get", "watch", "create", "patch"}),
   seatClaim |-> On(examples, "seats", {"create"}),
   seatEdit |-> On(examples, "seats", {"patch"}),
   room |-> On(roomPass, "rooms", {"get", "watch"})
            \cup On(examples, "quizsessions", {"patch"})
            \cup On(rbac, "rolebindings", {"get", "create", "delete", "list"})
            \cup On(roomPass, "participants", {"list"})]

-----------------------------------------------------------------------------
(* authz.ts.                                                               *)

(* Mutant: rules for one object by name go with those for all.             *)
SameNames(rule, names) == TRUE

RowOf(rule, names) == rule.names = names

(* flattenResourceRules: a row per group, resource and names, with the     *)
(* verbs of every rule that has them.                                      *)
Verbs(rules, g, r, names) ==
  UNION {rule.verbs : rule \in {x \in rules : g \in x.groups /\ r \in x.resources /\ RowOf(x, names)}}

Flatten(rules) ==
  UNION {{[group |-> g, resource |-> r, names |-> rule.names, verbs |-> Verbs(rules, g, r, rule.names)] :
            g \in rule.groups, r \in rule.resources} : rule \in rules}

Is(set, x) == x \in set \/ "*" \in set

Covers(row, need) ==
  Is({row.group}, need.group) /\ Is({row.resource}, need.resource) /\ Is(row.verbs, need.verb)

Allows(need) == authz # Nothing /\ \E row \in authz : row.names = {} /\ Covers(row, need)

SetKey == [group |-> "", resource |-> "secrets", verb |-> "patch"]
AllowsNamed(key) ==
  authz # Nothing /\ \E row \in authz : (row.names = {} \/ key \in row.names) /\ Covers(row, SetKey)

(* Not asked yet is not refused.                                           *)
MissingPermissions ==
  IF authz = Nothing THEN {} ELSE {need \in Requirements[needs] : ~Allows(need)}

-----------------------------------------------------------------------------
(* useAuthorization.                                                       *)

NoQuestion == [at |-> "none", rules |-> {}]
Ask == \E slot \in Asks : /\ questions[slot].at = "none"
                           /\ questions' = [questions EXCEPT ![slot].at = "sent"]

Served(slot) ==
  /\ questions[slot].at = "sent"
  /\ questions' = [questions EXCEPT ![slot] = [at |-> "served", rules |-> held]]
  /\ UNCHANGED <<needs, held, watch, due, authz, used>>

Answered(slot) ==
  /\ questions[slot].at = "served"
  /\ authz' = Flatten(questions[slot].rules)
  /\ questions' = [questions EXCEPT ![slot] = NoQuestion]
  /\ UNCHANGED <<needs, held, watch, due, used>>

(* The last good answer stays.                                             *)
AskFails(slot) ==
  /\ Move /\ questions[slot].at # "none"
  /\ questions' = [questions EXCEPT ![slot] = NoQuestion]
  /\ UNCHANGED <<needs, held, watch, due, authz>>

-----------------------------------------------------------------------------
(* grantChanges.ts.                                                        *)

Grants ==
  /\ Move
  /\ \E rule \in Rules : held' = IF rule \in held THEN held \ {rule} ELSE held \cup {rule}
  /\ watch' = [watch EXCEPT !.news = @ \/ watch.at = "live"]
  /\ UNCHANGED <<needs, due, questions, authz>>

(* An event: asked for the room once, after the debounce.                  *)
Changed ==
  /\ watch.news
  /\ watch' = [watch EXCEPT !.news = FALSE] /\ due' = TRUE
  /\ UNCHANGED <<needs, held, questions, authz, used>>

(* A snapshot.  Every one but the first follows a break, in which events   *)
(* may have been missed.                                                   *)
GoesLive ==
  /\ watch.at = "connecting"
  /\ watch' = [at |-> "live", wasLive |-> TRUE, mode |-> "watch", news |-> FALSE]
  /\ due' = (due \/ watch.wasLive)
  /\ UNCHANGED <<needs, held, questions, authz, used>>

(* It breaks, and is retried; after a few retries, or without access, the  *)
(* page polls.                                                             *)
Breaks ==
  /\ Move
  /\ \/ watch.at = "live" /\ watch' = [watch EXCEPT !.at = "connecting", !.news = FALSE]
     \/ /\ watch.at = "connecting" /\ watch.mode = "watch"
        /\ \E at \in {"connecting", "ended"} :
             watch' = [watch EXCEPT !.at = at, !.mode = "poll"]
  /\ UNCHANGED <<needs, held, due, questions, authz>>

Debounced ==
  /\ due /\ due' = FALSE /\ Ask
  /\ UNCHANGED <<needs, held, watch, authz, used>>

(* The timer: four seconds apart where it polls, two minutes where it is   *)
(* only behind the stream.                                                 *)
Tick == Ask /\ UNCHANGED <<needs, held, watch, due, authz, used>>

-----------------------------------------------------------------------------
AuthorizationInit ==
  /\ needs \in DOMAIN Requirements /\ held \in SUBSET Rules
  /\ watch = [at |-> "connecting", wasLive |-> FALSE, mode |-> "watch", news |-> FALSE]
  /\ due = FALSE /\ authz = Nothing /\ used = 0
  /\ questions = [slot \in Asks |-> IF slot = 1 THEN [NoQuestion EXCEPT !.at = "sent"] ELSE NoQuestion]

AuthorizationNext ==
  \/ Grants \/ Changed \/ GoesLive \/ Breaks \/ Debounced \/ Tick
  \/ \E slot \in Asks : Served(slot) \/ Answered(slot) \/ AskFails(slot)

(* Questions are answered, and the timer runs.                             *)
AuthorizationSpec ==
  /\ AuthorizationInit /\ [][AuthorizationNext]_authzVars
  /\ WF_authzVars(Tick)
  /\ \A slot \in Asks : WF_authzVars(Served(slot) \/ Answered(slot))

(* What the API server would say: some rule for every object, or for this  *)
(* one.                                                                    *)
GrantedBy(rule, need) ==
  Is(rule.groups, need.group) /\ Is(rule.resources, need.resource) /\ Is(rule.verbs, need.verb)

Truth ==
  [missing |-> {need \in Requirements[needs] :
                  ~\E rule \in held : rule.names = {} /\ GrantedBy(rule, need)},
   keys |-> {key \in Keys :
               \E rule \in held : (rule.names = {} \/ key \in rule.names) /\ GrantedBy(rule, SetKey)}]

(* Once nobody changes a binding any more, the page comes to say of every  *)
(* verb it needs, and of every key, exactly what the API server would, and *)
(* stays so: a grant on one named object is never taken for one on all     *)
(* (authz.ts, allows), and an answer that was overtaken does not stay      *)
(* (useAuthorization.ts).                                                  *)
TableSettles ==
  <>[](MissingPermissions = Truth.missing /\ {key \in Keys : AllowsNamed(key)} = Truth.keys)
=============================================================================
