------------------------------ MODULE Preferences ------------------------------
(***************************************************************************)
(* What one person has chosen, as the requests that carry the person's     *)
(* token come to know it (src/persona_api/core/preferences.py and          *)
(* api/dependencies.py).                                                   *)
(*                                                                         *)
(* What a person has not chosen, settings-api answers with the default of  *)
(* its catalogue, and nothing in an answer tells the two apart.            *)
(*                                                                         *)
(* Every preference comes from a call of settings-api, and one request     *)
(* makes up to three: one to learn which persona @default is, once more    *)
(* for the same question on the way to its caps, and one for the caps      *)
(* themselves.  Between two calls the person may choose something else,    *)
(* settings-api may fall silent or refuse, and other requests go on.  Each *)
(* call is one step here.                                                  *)
(*                                                                         *)
(* settings-api and settings-client are not part of the repository: what   *)
(* they may answer is modelled from how this service reads it.             *)
(***************************************************************************)
EXTENDS Integers, Sequences

CONSTANTS Profiles,         \* the profile names that can be stored
          Spellings,        \* what a path segment or a setting may spell
          Folded,           \* each spelling trimmed and case-folded
          AtDefault,        \* the reserved segment
          NoProfile,        \* Python's None, where a profile is asked for
          Malformed,        \* a setting of the wrong shape, or missing
          Unchosen,         \* where a person has not chosen
          Catalogue, CatalogueRecall,     \* the catalogue's defaults
          AccountChoices, RecallChoices,  \* what the person may choose, or leave Unchosen
          DeployedRecall, RecallMax, DeployedPins,   \* Settings
          DefaultGraceDays, MaxGraceDays,            \* domain/erasure.py
          Requests, Jobs,
          Nothing, Unavailable, Rejected,
          MaxChanges        \* bound: the person and the line change this often

\* core/config.py, _check_page_sizes: the deployment does not start otherwise.
ASSUME DeploymentAssumption ==
    /\ {DeployedRecall, RecallMax, DeployedPins} \subseteq Nat \ {0}
    /\ DeployedRecall <= RecallMax
    /\ DefaultGraceDays \in 0 .. MaxGraceDays

ASSUME NamesAssumption ==
    /\ AtDefault \notin Profiles /\ NoProfile \notin Profiles
    /\ Profiles \cup {AtDefault} \subseteq Spellings /\ NoProfile \notin Spellings
    /\ \A name \in Profiles \cup {AtDefault} : Folded[name] = name

\* What the routes ask (recall_everywhere has no profile in its path), and the
\* answers and refusals that tell themselves apart.
ASSUME RequestsAssumption ==
    /\ \A j \in Jobs : /\ j.op \in {"card", "list", "change", "everywhere"}
                       /\ j.segment \in Spellings \cup {NoProfile}
                       /\ j.op = "everywhere" => j.segment = NoProfile
    /\ Nothing \notin Jobs
    /\ Rejected \notin {Nothing, Unavailable} /\ {Malformed, Unchosen} \cap Nat = {}

\* The catalogue names no default persona (core/preferences.py: "the catalogue's own
\* reasoning for its null").  Of its other defaults nothing is assumed: the one for
\* erasure_mode is "grace" (docs/adr/0009, Consequences).
ASSUME CatalogueAssumption ==
    Catalogue.persona \in Spellings => Folded[Catalogue.persona] \notin Profiles

VARIABLES account,   \* what the person has chosen account-wide, setting by setting
          recall,    \* the one setting with a value per profile
          line,      \* whether settings-api answers, is silent or refuses
          cache,     \* what settings-client keeps of earlier answers
          changes,   \* bound: how often the first three have changed
          past,      \* history: all that the first three have ever been
          job,       \* what each request asks
          todo,      \* the calls it has yet to make
          profile,   \* the persona it is about
          capsOf,    \* the persona its caps are asked for
          prefs      \* its preferences

outside == <<account, recall, line, changes, past>>
requests == <<job, todo, profile, capsOf, prefs>>
vars == <<outside, cache, requests>>

Scopes == Profiles \cup {NoProfile}

-----------------------------------------------------------------------------
(* From a setting to a preference.  A value that cannot be used is as good *)
(* as none; Malformed stands for both. *)

Modes == {"tombstone", "grace", "immediate"}
Tombstone == [mode |-> "tombstone", graceDays |-> DefaultGraceDays]

\* deployment_preferences.  The two pin ceilings are treated alike: one stands
\* for both.
Deployed ==
    [recall |-> DeployedRecall, pins |-> DeployedPins, persona |-> NoProfile,
     erasure |-> Tombstone, logValues |-> FALSE]

Lesser(a, b) == IF a <= b THEN a ELSE b

Narrowed(deployment, chosen) ==
    IF chosen = Malformed THEN deployment ELSE Lesser(deployment, chosen)

\* _whole_number
WholeNumber(value, range) == IF value \in range THEN value ELSE Malformed

\* normalize_profile refuses what folds to no name that can be stored.
Storable(spelling) == Folded[spelling] \in Profiles

\* _profile_name
ProfileName(value) ==
    IF value \in Spellings /\ Storable(value) THEN Folded[value] ELSE NoProfile

\* _flag: on only when it was switched on.
Flag(value) == value \in BOOLEAN /\ value

\* _erasure
MutErasure(mode, days) ==
    [mode |-> IF mode \in Modes THEN mode ELSE "grace",
     graceDays |-> IF days \in 0 .. MaxGraceDays THEN days ELSE DefaultGraceDays]

Erasure(mode, days) ==
    IF mode \notin Modes THEN Tombstone
    ELSE [mode |-> mode,
          graceDays |-> IF mode = "grace" /\ WholeNumber(days, 0 .. MaxGraceDays) # Malformed
                        THEN days ELSE DefaultGraceDays]

\* _apply
Applied(answer) ==
    [recall |-> Lesser(Narrowed(DeployedRecall, WholeNumber(answer.recall, Nat \ {0})), RecallMax),
     pins |-> Narrowed(DeployedPins, WholeNumber(answer.account.pins, Nat \ {0})),
     persona |-> ProfileName(answer.account.persona),
     erasure |-> Erasure(answer.account.mode, answer.account.days),
     logValues |-> Flag(answer.account.log)]

\* for_token.  Rejected, which also stands for a setting that settings-api says
\* must not be guessed, is what the request then fails with.
ForToken(reply) ==
    CASE reply = Unavailable -> Deployed
      [] reply = Rejected -> Rejected
      [] OTHER -> Applied(reply)

-----------------------------------------------------------------------------
(* settings-api and its client. *)

\* Every setting that was not chosen is answered with its catalogue default.
Resolved(own, default) == IF own = Unchosen THEN default ELSE own

AccountSettings == {"persona", "mode", "days", "pins", "log"}
AccountOf(own) == [key \in AccountSettings |-> Resolved(own[key], Catalogue[key])]

Answer(acc, rec) == [account |-> acc, recall |-> rec]

\* A read that names no profile has no profile's choice.
Current(scope) ==
    Answer(AccountOf(account),
           IF scope = NoProfile THEN CatalogueRecall ELSE Resolved(recall[scope], CatalogueRecall))

\* An answer is told apart from there being none.
ASSUME AnswersAssumption ==
    {Nothing, Unavailable, Rejected}
        \cap [account : {AccountOf(own) : own \in AccountChoices} \cup {Catalogue},
              recall : {Resolved(rec, CatalogueRecall) : rec \in RecallChoices}
                           \cup {CatalogueRecall}] = {}

\* A fresh answer, a kept one, or what is left when there is neither: the
\* catalogue's defaults once any answer has brought them, else nothing at all.
Replies(scope) ==
    (IF line = "answers" THEN {Current(scope)} ELSE {})
        \cup ({cache[scope]} \ {Nothing})
        \cup (IF line = "refuses" THEN {Rejected} ELSE {})
        \cup (IF line = "silent" /\ cache[scope] = Nothing
              THEN {Unavailable} \cup {Answer(Catalogue, CatalogueRecall) :
                                        s \in {t \in Scopes : cache[t] # Nothing}}
              ELSE {})

Kept(scope, reply) ==
    IF line = "answers" /\ reply = Current(scope) THEN [cache EXCEPT ![scope] = reply] ELSE cache

Turn(acc, rec, l) ==
    /\ changes < MaxChanges /\ changes' = changes + 1
    /\ account' = acc /\ recall' = rec /\ line' = l
    /\ past' = [account |-> past.account \cup {acc},
                recall |-> [p \in Profiles |-> past.recall[p] \cup {rec[p]}],
                line |-> past.line \cup {l}]
    /\ UNCHANGED <<cache, requests>>

ChooseForAccount == \E acc \in AccountChoices \ {account} : Turn(acc, recall, line)
ChooseForProfile ==
    \E p \in Profiles : \E rec \in RecallChoices \ {recall[p]} :
        Turn(account, [recall EXCEPT ![p] = rec], line)
LineTurns == \E l \in {"answers", "silent", "refuses"} \ {line} : Turn(account, recall, l)

-----------------------------------------------------------------------------
(* The requests.  FastAPI resolves what a route depends on in the order the *)
(* route names it. *)

NamesDefault(j) == j.segment # NoProfile /\ Folded[j.segment] = AtDefault

\* A list takes its profile before its limit; a change its preferences before
\* its profile; a card only the profile; recall_everywhere only the limit.
Calls(j) ==
    LET once(call) == IF NamesDefault(j) THEN <<call>> ELSE <<>>
    IN  CASE j.op = "card" -> once("profile")
          [] j.op = "list" -> once("profile") \o once("default") \o <<"caps">>
          [] j.op = "change" -> once("default") \o <<"caps">> \o once("profile")
          [] OTHER -> <<"caps">>

\* The profile that get_preferences sends along.
MutScopeOf(segment) == NoProfile
ScopeOf(segment) ==
    IF segment # NoProfile /\ Storable(segment) THEN Folded[segment] ELSE NoProfile

Receive(r, j) ==
    /\ job[r] = Nothing
    /\ job' = [job EXCEPT ![r] = j]
    /\ todo' = [todo EXCEPT ![r] = Calls(j)]
    /\ profile' = [profile EXCEPT ![r] = j.segment]
    /\ capsOf' = [capsOf EXCEPT ![r] = ScopeOf(j.segment)]
    /\ UNCHANGED <<outside, cache, prefs>>

Stands(r, call) == todo[r] # <<>> /\ Head(todo[r]) = call
Goes(r) == todo' = [todo EXCEPT ![r] = Tail(todo[r])]
Fails(r) ==
    /\ todo' = [todo EXCEPT ![r] = <<>>] /\ prefs' = [prefs EXCEPT ![r] = Rejected]
    /\ UNCHANGED <<profile, capsOf>>

\* resolve_profile: the default, or the segment handed on unchanged.
MutProfileOf(r, answer) ==
    IF answer.persona # NoProfile THEN answer.persona ELSE CHOOSE p \in Profiles : TRUE

ProfileOf(r, answer) == IF answer.persona # NoProfile THEN answer.persona ELSE job[r].segment

\* get_profile, or the same question on the way to the caps.
ResolveDefault(r) ==
    \E call \in {"profile", "default"} : \E reply \in Replies(NoProfile) :
        LET answer == ForToken(reply)
        IN  /\ Stands(r, call)
            /\ cache' = Kept(NoProfile, reply)
            /\ \/ answer = Rejected /\ Fails(r)
               \/ /\ answer # Rejected /\ Goes(r)
                  /\ profile' = IF call = "profile"
                                THEN [profile EXCEPT ![r] = ProfileOf(r, answer)] ELSE profile
                  /\ capsOf' = IF call = "default"
                               THEN [capsOf EXCEPT ![r] = ScopeOf(ProfileOf(r, answer))] ELSE capsOf
                  /\ prefs' = prefs
            /\ UNCHANGED <<outside, job>>

\* get_preferences, once the profile is known.
ReadCaps(r) ==
    \E reply \in Replies(capsOf[r]) :
        LET answer == ForToken(reply)
        IN  /\ Stands(r, "caps")
            /\ cache' = Kept(capsOf[r], reply)
            /\ \/ answer = Rejected /\ Fails(r)
               \/ /\ answer # Rejected /\ Goes(r)
                  /\ prefs' = [prefs EXCEPT ![r] = answer]
                  /\ UNCHANGED <<profile, capsOf>>
            /\ UNCHANGED <<outside, job>>

\* page_limit; a limit above the hard cap is refused.
PageLimit(r) == IF job[r].limit = Nothing THEN prefs[r].recall ELSE job[r].limit

\* The request is carried out: nothing refused it, and its profile can be stored.
Served(r) ==
    /\ job[r] # Nothing /\ todo[r] = <<>> /\ prefs[r] # Rejected
    /\ profile[r] # NoProfile => Storable(profile[r])
    /\ job[r].limit # Nothing => job[r].limit <= RecallMax

Done == (\A r \in Requests : job[r] # Nothing /\ todo[r] = <<>>) /\ UNCHANGED vars

Init ==
    /\ account \in AccountChoices /\ recall \in [Profiles -> RecallChoices] /\ line = "answers"
    /\ changes = 0
    /\ past = [account |-> {account}, recall |-> [p \in Profiles |-> {recall[p]}], line |-> {line}]
    /\ cache = [s \in Scopes |-> Nothing]
    /\ job = [r \in Requests |-> Nothing]
    /\ todo = [r \in Requests |-> <<>>]
    /\ profile = [r \in Requests |-> NoProfile]
    /\ capsOf = [r \in Requests |-> NoProfile]
    /\ prefs = [r \in Requests |-> Nothing]

Next ==
    \/ ChooseForAccount \/ ChooseForProfile \/ LineTurns
    \/ \E r \in Requests : (\E j \in Jobs : Receive(r, j)) \/ ResolveDefault(r) \/ ReadCaps(r)
    \/ Done

Spec == Init /\ [][Next]_vars

-----------------------------------------------------------------------------
(* What a person may rely on. *)

WasSilent == "silent" \in past.line

\* All that settings-api has said of the person's account, and in an outage the
\* catalogue for want of an answer.
Said == {AccountOf(own) : own \in past.account} \cup (IF WasSilent THEN {Catalogue} ELSE {})

\* What a request does with what it forgets or replaces.
DestroysOrKeeps(r) ==
    /\ Served(r) /\ job[r].op = "change"
    /\ prefs[r].erasure.mode # "tombstone" \/ prefs[r].logValues

\* The settings "acc" ask for all of that, and for as many days; days that cannot be
\* used are the catalogue's thirty.
AsksFor(acc, p) ==
    /\ p.logValues => acc.log = TRUE
    /\ p.erasure.mode # "tombstone" => acc.mode = p.erasure.mode
    /\ p.erasure.mode = "grace" =>
           p.erasure.graceDays = IF acc.days \in 0 .. MaxGraceDays THEN acc.days ELSE DefaultGraceDays

\* Nothing is destroyed, now or on a date, and no replaced value is kept, unless
\* settings-api once said just that of the person: not in an outage that no answer
\* preceded, not for a setting of the wrong shape, and under no mixture of two answers.
NothingUnsaidIsDone ==
    \A r \in Requests : DestroysOrKeeps(r) => \E acc \in Said : AsksFor(acc, prefs[r])

\* "a person who has chosen nothing gets exactly what persona-api did before"
\* (docs/adr/0009): nothing is destroyed and nothing kept that the person did not
\* once choose to have destroyed or kept.
NothingUnchosenIsDone ==
    \A r \in Requests : DestroysOrKeeps(r) => \E own \in past.account : AsksFor(own, prefs[r])

\* The catalogue that docs/operations.md asks for, which chooses nothing for anybody.
CatalogueChoosesNothing ==
    Catalogue.mode = "tombstone" /\ Catalogue.days = DefaultGraceDays /\ Catalogue.log = FALSE

\* "@default" acts on a persona that the person chose as the default, or is
\* refused: it never loads one that was not chosen, however settings-api behaves.
DefaultIsChosen ==
    \A r \in Requests : Served(r) /\ NamesDefault(job[r]) =>
        \E own \in past.account : own.persona \in Spellings /\ Folded[own.persona] = profile[r]

\* The profiles whose page size a request may use: the one it names, one that
\* was the default, and none where none is named.
Meant(j) ==
    IF NamesDefault(j)
    THEN {ProfileName(AccountOf(own).persona) : own \in past.account} \cup (IF WasSilent THEN {NoProfile} ELSE {})
    ELSE {IF j.segment = NoProfile THEN NoProfile ELSE Folded[j.segment]}

OwnPages(j) ==
    (UNION {IF s = NoProfile THEN {CatalogueRecall}
            ELSE {Resolved(rec, CatalogueRecall) : rec \in past.recall[s]} : s \in Meant(j)})
        \cup (IF WasSilent THEN {CatalogueRecall, Malformed} ELSE {})

OwnPins == {acc.pins : acc \in Said} \cup (IF WasSilent THEN {Malformed} ELSE {})

\* The smaller of the two, or the deployment's where the person's is unusable.
IsNarrowed(cap, deployment, own) ==
    /\ cap <= deployment
    /\ IF own \in Nat \ {0} THEN cap <= own /\ cap \in {own, deployment} ELSE cap = deployment

\* A page that a request did not size, and the cap of its pins, are the person's
\* own, or the catalogue's for want of a choice (the page: for the persona the request
\* is about), narrowed by the deployment's; only where the person's cannot be known or used they are the
\* deployment's.  No page, named or not, exceeds what may be asked for.
CapsAreTheirs ==
    \A r \in Requests : Served(r) /\ job[r].op # "card" =>
        /\ PageLimit(r) <= RecallMax
        /\ \E own \in OwnPages(job[r]) : IsNarrowed(prefs[r].recall, DeployedRecall, own)
        /\ \E own \in OwnPins : IsNarrowed(prefs[r].pins, DeployedPins, own)
=============================================================================
