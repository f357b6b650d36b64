--------------------------- MODULE Preferences_proofs ---------------------------
(***************************************************************************)
(* Theorems about Preferences, for every set of profiles and spellings,    *)
(* every catalogue without a default persona, all that a person may choose *)
(* or leave unchosen, and any number of requests.                          *)
(***************************************************************************)
EXTENDS Preferences, SequenceTheorems, TLAPS

-----------------------------------------------------------------------------
(* What can be known of a person: an answer made of what they had, at some   *)
(* time; and in an outage the catalogue's, or nothing.                       *)

Answers ==
    [account : {AccountOf(own) : own \in AccountChoices} \cup {Catalogue},
     recall : {Resolved(rec, CatalogueRecall) : rec \in RecallChoices} \cup {CatalogueRecall}]

PastRecall(s) ==
    IF s = NoProfile THEN {CatalogueRecall}
    ELSE {Resolved(rec, CatalogueRecall) : rec \in past.recall[s]}

Given(s) == {Answer(AccountOf(own), rec) : own \in past.account, rec \in PastRecall(s)}

Known(s) ==
    Given(s) \cup (IF WasSilent THEN {Unavailable, Answer(Catalogue, CatalogueRecall)} ELSE {})

PastInv ==
    /\ account \in past.account /\ past.account \subseteq AccountChoices
    /\ recall \in [Profiles -> RecallChoices]
    /\ \A p \in Profiles : recall[p] \in past.recall[p] /\ past.recall[p] \subseteq RecallChoices
    /\ line \in past.line

CacheInv ==
    /\ cache \in [Scopes -> Answers \cup {Nothing}]
    /\ \A s \in Scopes : cache[s] # Nothing => cache[s] \in Given(s)

LEMMA GivenAreAnswers ==
    ASSUME PastInv, NEW s \in Scopes
    PROVE  Given(s) \subseteq Answers
<1>1. ASSUME NEW own \in past.account
      PROVE  AccountOf(own) \in {AccountOf(acc) : acc \in AccountChoices} \cup {Catalogue}
    BY DEF PastInv
<1>2. PastRecall(s) \subseteq
        {Resolved(rec, CatalogueRecall) : rec \in RecallChoices} \cup {CatalogueRecall}
    BY DEF PastInv, PastRecall, Scopes
<1> QED
    BY <1>1, <1>2 DEF Given, Answer, Answers

LEMMA CurrentIsGiven ==
    ASSUME PastInv, NEW s \in Scopes
    PROVE  Current(s) \in Given(s)
<1>1. account \in past.account
    BY DEF PastInv
<1>2. (IF s = NoProfile THEN CatalogueRecall ELSE Resolved(recall[s], CatalogueRecall))
         \in PastRecall(s)
    BY DEF PastInv, PastRecall, Scopes
<1> QED
    BY <1>1, <1>2 DEF Current, Given

LEMMA Tokens ==
    /\ ForToken(Unavailable) = Deployed
    /\ ForToken(Rejected) = Rejected
    /\ \A reply \in Answers : ForToken(reply) = Applied(reply)
<1>1. Rejected # Unavailable /\ {Nothing, Unavailable, Rejected} \cap Answers = {}
    BY RequestsAssumption, AnswersAssumption DEF Answers
<1> QED
    BY <1>1 DEF ForToken

\* No reply that is not a refusal comes from anywhere else.
LEMMA RepliesAreKnown ==
    ASSUME PastInv, CacheInv, NEW s \in Scopes, NEW reply \in Replies(s),
           ForToken(reply) # Rejected
    PROVE  reply \in Known(s)
<1>1. reply # Rejected
    BY Tokens
<1>2. CASE line = "answers" /\ reply = Current(s)
    BY <1>2, CurrentIsGiven DEF Known
<1>3. CASE reply = cache[s] /\ reply # Nothing
    BY <1>3 DEF CacheInv, Known
<1>4. CASE /\ line = "silent"
           /\ reply \in {Unavailable} \cup {Answer(Catalogue, CatalogueRecall)}
    <2>1. WasSilent
        BY <1>4 DEF PastInv, WasSilent
    <2> QED
        BY <1>4, <2>1 DEF Known
<1> QED
    BY <1>1, <1>2, <1>3, <1>4 DEF Replies

LEMMA KeptIsGiven ==
    ASSUME PastInv, CacheInv, NEW s \in Scopes, NEW reply,
           cache' = Kept(s, reply), UNCHANGED past
    PROVE  CacheInv'
<1>1. Given(s) \subseteq Answers /\ Current(s) \in Given(s)
    BY GivenAreAnswers, CurrentIsGiven
<1>2. cache' = cache \/ cache' = [cache EXCEPT ![s] = Current(s)]
    BY DEF Kept
<1>3. \A t \in Scopes : Given(t)' = Given(t)
    BY DEF Given, PastRecall
<1> QED
    BY <1>1, <1>2, <1>3 DEF CacheInv

\* What has been stays.
LEMMA PastGrows ==
    ASSUME PastInv, NEW acc \in AccountChoices, NEW rec \in [Profiles -> RecallChoices],
           NEW l, Turn(acc, rec, l)
    PROVE  /\ PastInv'
           /\ past.account \subseteq past'.account
           /\ WasSilent => WasSilent'
           /\ \A s \in Scopes : Given(s) \subseteq Given(s)' /\ Known(s) \subseteq Known(s)'
<1>1. /\ account' = acc /\ recall' = rec /\ line' = l
      /\ past' = [account |-> past.account \cup {acc},
                  recall |-> [p \in Profiles |-> past.recall[p] \cup {rec[p]}],
                  line |-> past.line \cup {l}]
    BY DEF Turn
<1>2. /\ past'.account = past.account \cup {acc}
      /\ \A p \in Profiles : past'.recall[p] = past.recall[p] \cup {rec[p]}
      /\ past'.line = past.line \cup {l}
    BY <1>1
<1>3. PastInv'
    BY <1>1, <1>2 DEF PastInv
<1>4. WasSilent => WasSilent'
    BY <1>2 DEF WasSilent
<1>5. \A s \in Scopes : PastRecall(s) \subseteq PastRecall(s)'
    BY <1>2 DEF PastRecall, Scopes
<1>6. \A s \in Scopes : Given(s) \subseteq Given(s)'
    BY <1>2, <1>5 DEF Given
<1> QED
    BY <1>2, <1>3, <1>4, <1>6 DEF Known

-----------------------------------------------------------------------------
(* The calls that a request has yet to make. *)

CallNames == {"profile", "default", "caps"}

Awaits(calls, call) == \E i \in 1 .. Len(calls) : calls[i] = call

\* Whoever learns the default persona on the way to the caps then asks for the caps.
DefaultThenCaps(calls) ==
    \A i \in 1 .. Len(calls) : calls[i] = "default" =>
        \E k \in 1 .. Len(calls) : k > i /\ calls[k] = "caps"

LEMMA NoneLeft == (\A call : ~Awaits(<<>>, call)) /\ DefaultThenCaps(<<>>)
BY DEF Awaits, DefaultThenCaps

LEMMA NextCall ==
    ASSUME NEW calls \in Seq(CallNames), calls # <<>>
    PROVE  /\ Tail(calls) \in Seq(CallNames)
           /\ \A call : Awaits(calls, call) => call = Head(calls) \/ Awaits(Tail(calls), call)
           /\ \A call : Awaits(Tail(calls), call) => Awaits(calls, call)
           /\ Awaits(calls, Head(calls))
           /\ DefaultThenCaps(calls) =>
                /\ DefaultThenCaps(Tail(calls))
                /\ Head(calls) = "default" => Awaits(Tail(calls), "caps")
<1>1. /\ Tail(calls) \in Seq(CallNames) /\ Len(calls) \in Nat /\ Len(calls) > 0
      /\ Len(Tail(calls)) = Len(calls) - 1 /\ Head(calls) = calls[1]
      /\ \A i \in 1 .. Len(calls) - 1 : Tail(calls)[i] = calls[i + 1]
    OBVIOUS
<1>2. ASSUME NEW i \in 1 .. Len(calls), i # 1
      PROVE  i - 1 \in 1 .. Len(Tail(calls)) /\ Tail(calls)[i - 1] = calls[i]
    BY <1>1, <1>2
<1>3. ASSUME NEW i \in 1 .. Len(Tail(calls))
      PROVE  i + 1 \in 1 .. Len(calls) /\ Tail(calls)[i] = calls[i + 1]
    BY <1>1
<1>4. \A call : Awaits(calls, call) => call = Head(calls) \/ Awaits(Tail(calls), call)
    BY <1>1, <1>2 DEF Awaits
<1>5. \A call : Awaits(Tail(calls), call) => Awaits(calls, call)
    BY <1>3 DEF Awaits
<1>6. Awaits(calls, Head(calls))
    BY <1>1 DEF Awaits
<1>7. ASSUME DefaultThenCaps(calls) PROVE DefaultThenCaps(Tail(calls))
    <2> SUFFICES ASSUME NEW i \in 1 .. Len(Tail(calls)), Tail(calls)[i] = "default"
                 PROVE  \E k \in 1 .. Len(Tail(calls)) : k > i /\ Tail(calls)[k] = "caps"
        BY DEF DefaultThenCaps
    <2>1. PICK k \in 1 .. Len(calls) : k > i + 1 /\ calls[k] = "caps"
        BY <1>3, <1>7 DEF DefaultThenCaps
    <2>2. k - 1 \in 1 .. Len(Tail(calls)) /\ Tail(calls)[k - 1] = "caps" /\ k - 1 > i
        BY <1>2, <2>1
    <2> QED
        BY <2>2
<1>8. ASSUME DefaultThenCaps(calls), Head(calls) = "default" PROVE Awaits(Tail(calls), "caps")
    <2>1. PICK k \in 1 .. Len(calls) : k > 1 /\ calls[k] = "caps"
        BY <1>1, <1>8 DEF DefaultThenCaps
    <2> QED
        BY <1>2, <2>1 DEF Awaits
<1> QED
    BY <1>1, <1>4, <1>5, <1>6, <1>7, <1>8

LEMMA Joined ==
    ASSUME NEW s \in Seq(CallNames), NEW t \in Seq(CallNames)
    PROVE  /\ s \o t \in Seq(CallNames)
           /\ \A call : Awaits(s \o t, call) <=> Awaits(s, call) \/ Awaits(t, call)
           /\ DefaultThenCaps(t) /\ (DefaultThenCaps(s) \/ Awaits(t, "caps")) =>
                DefaultThenCaps(s \o t)
<1> DEFINE u == s \o t
<1>0. /\ u \in Seq(CallNames) /\ Len(u) = Len(s) + Len(t)
      /\ \A i \in 1 .. Len(s) + Len(t) : u[i] = IF i <= Len(s) THEN s[i] ELSE t[i - Len(s)]
    BY ConcatProperties
<1>1. /\ u \in Seq(CallNames) /\ Len(s) \in Nat /\ Len(t) \in Nat /\ Len(u) = Len(s) + Len(t)
      /\ \A i \in 1 .. Len(u) : u[i] = IF i <= Len(s) THEN s[i] ELSE t[i - Len(s)]
    <2>1. Len(s) \in Nat /\ Len(t) \in Nat
        OBVIOUS
    <2> HIDE DEF u
    <2>2. 1 .. Len(u) = 1 .. Len(s) + Len(t)
        BY <1>0
    <2> QED
        BY <1>0, <2>1, <2>2
<1> HIDE DEF u
<1>2. \A i \in 1 .. Len(s) : i \in 1 .. Len(u) /\ u[i] = s[i]
    BY <1>1
<1>3. \A i \in 1 .. Len(t) : i + Len(s) \in 1 .. Len(u) /\ u[i + Len(s)] = t[i]
    <2> SUFFICES ASSUME NEW i \in 1 .. Len(t)
                 PROVE  i + Len(s) \in 1 .. Len(u) /\ u[i + Len(s)] = t[i]
        OBVIOUS
    <2>1. i + Len(s) \in 1 .. Len(u) /\ ~(i + Len(s) <= Len(s)) /\ (i + Len(s)) - Len(s) = i
        BY <1>1
    <2>2. u[i + Len(s)] = t[(i + Len(s)) - Len(s)]
        BY <1>1, <2>1
    <2> QED
        BY <2>1, <2>2
<1>4. \A i \in 1 .. Len(u) : \/ i \in 1 .. Len(s) /\ u[i] = s[i]
                             \/ i - Len(s) \in 1 .. Len(t) /\ u[i] = t[i - Len(s)]
    BY <1>1
<1>5. \A call : Awaits(u, call) <=> Awaits(s, call) \/ Awaits(t, call)
    BY <1>2, <1>3, <1>4 DEF Awaits
<1>6. ASSUME DefaultThenCaps(t), DefaultThenCaps(s) \/ Awaits(t, "caps"),
             NEW i \in 1 .. Len(u), u[i] = "default"
      PROVE  \E k \in 1 .. Len(u) : k > i /\ u[k] = "caps"
    <2>1. CASE i \in 1 .. Len(s) /\ u[i] = s[i] /\ DefaultThenCaps(s)
        BY <1>2, <1>6, <2>1 DEF DefaultThenCaps
    <2>2. CASE i \in 1 .. Len(s) /\ Awaits(t, "caps")
        <3>1. PICK k \in 1 .. Len(t) : t[k] = "caps"
            BY <2>2 DEF Awaits
        <3>2. k + Len(s) > i
            BY <1>1, <2>2
        <3> QED
            BY <1>3, <3>1, <3>2
    <2>3. CASE i - Len(s) \in 1 .. Len(t) /\ u[i] = t[i - Len(s)]
        <3>1. PICK k \in 1 .. Len(t) : k > i - Len(s) /\ t[k] = "caps"
            BY <1>6, <2>3 DEF DefaultThenCaps
        <3>2. k + Len(s) > i
            BY <1>1, <3>1
        <3> QED
            BY <1>3, <3>1, <3>2
    <2> QED
        BY <1>4, <1>6, <2>1, <2>2, <2>3
<1> QED
    BY <1>1, <1>5, <1>6 DEF u, DefaultThenCaps

LEMMA OneCall ==
    ASSUME NEW call \in CallNames
    PROVE  /\ <<call>> \in Seq(CallNames) /\ <<>> \in Seq(CallNames)
           /\ \A other : Awaits(<<call>>, other) <=> other = call
           /\ call # "default" => DefaultThenCaps(<<call>>)
BY DEF Awaits, DefaultThenCaps

LEMMA CallsOfJobs ==
    ASSUME NEW j \in Jobs
    PROVE  /\ Calls(j) \in Seq(CallNames) /\ DefaultThenCaps(Calls(j))
           /\ NamesDefault(j) => Awaits(Calls(j), "profile")
           /\ NamesDefault(j) /\ j.op # "card" => Awaits(Calls(j), "default")
           /\ j.op # "card" => Awaits(Calls(j), "caps")
           /\ ~NamesDefault(j) => ~Awaits(Calls(j), "profile") /\ ~Awaits(Calls(j), "default")
<1> DEFINE P == IF NamesDefault(j) THEN <<"profile">> ELSE <<>>
           D == IF NamesDefault(j) THEN <<"default">> ELSE <<>>
           C == <<"caps">>
<1>1. NamesDefault(j) => j.op \in {"card", "list", "change"}
    BY RequestsAssumption DEF NamesDefault
<1>2. j.op = "card" => Calls(j) = P
    BY DEF Calls
<1>3. j.op = "list" => Calls(j) = (P \o D) \o C
    BY DEF Calls
<1>4. j.op = "change" => Calls(j) = (D \o C) \o P
    BY DEF Calls
<1>5. j.op \notin {"card", "list", "change"} => Calls(j) = C
    BY DEF Calls
<1>6. /\ P \in Seq(CallNames) /\ DefaultThenCaps(P)
      /\ \A call : Awaits(P, call) <=> NamesDefault(j) /\ call = "profile"
    <2>1. /\ <<"profile">> \in Seq(CallNames) /\ DefaultThenCaps(<<"profile">>)
          /\ \A call : Awaits(<<"profile">>, call) <=> call = "profile"
        BY OneCall DEF CallNames
    <2> QED
        BY <2>1, NoneLeft
<1>7. /\ D \in Seq(CallNames)
      /\ \A call : Awaits(D, call) <=> NamesDefault(j) /\ call = "default"
    <2>1. /\ <<"default">> \in Seq(CallNames)
          /\ \A call : Awaits(<<"default">>, call) <=> call = "default"
        BY OneCall DEF CallNames
    <2> QED
        BY <2>1, NoneLeft
<1>8. /\ C \in Seq(CallNames) /\ DefaultThenCaps(C)
      /\ \A call : Awaits(C, call) <=> call = "caps"
    BY OneCall DEF CallNames
<1> HIDE DEF P, D, C
<1>9. /\ P \o D \in Seq(CallNames)
      /\ \A call : Awaits(P \o D, call) <=> Awaits(P, call) \/ Awaits(D, call)
    BY <1>6, <1>7, Joined
<1>10. /\ D \o C \in Seq(CallNames) /\ DefaultThenCaps(D \o C)
       /\ \A call : Awaits(D \o C, call) <=> Awaits(D, call) \/ Awaits(C, call)
    BY <1>7, <1>8, Joined
<1>11. CASE j.op = "card"
    BY <1>2, <1>6, <1>11
<1>12. CASE j.op = "list"
    <2>1. /\ (P \o D) \o C \in Seq(CallNames) /\ DefaultThenCaps((P \o D) \o C)
          /\ \A call : Awaits((P \o D) \o C, call) <=> Awaits(P \o D, call) \/ Awaits(C, call)
        BY <1>8, <1>9, Joined
    <2> QED
        BY <1>3, <1>6, <1>7, <1>8, <1>9, <1>12, <2>1
<1>13. CASE j.op = "change"
    <2>1. /\ (D \o C) \o P \in Seq(CallNames) /\ DefaultThenCaps((D \o C) \o P)
          /\ \A call : Awaits((D \o C) \o P, call) <=> Awaits(D \o C, call) \/ Awaits(P, call)
        BY <1>6, <1>10, Joined
    <2> QED
        BY <1>4, <1>6, <1>7, <1>8, <1>10, <1>13, <2>1
<1>14. CASE j.op \notin {"card", "list", "change"}
    BY <1>1, <1>5, <1>8, <1>14
<1> QED
    BY <1>11, <1>12, <1>13, <1>14

-----------------------------------------------------------------------------
(* What a request knows once it has made a call.                             *)

ProfileKnown(r) ==
    \/ profile[r] = job[r].segment
    \/ \E own \in past.account : own.persona \in Spellings /\ Folded[own.persona] = profile[r]

CapsKnown(r) == \E reply \in Known(capsOf[r]) : prefs[r] = ForToken(reply)

RequestInv(r) ==
    LET j == job[r]
    IN  /\ todo[r] \in Seq(CallNames) /\ DefaultThenCaps(todo[r])
        /\ j = Nothing => todo[r] = <<>> /\ prefs[r] # Rejected
        /\ prefs[r] = Rejected => todo[r] = <<>>
        /\ j # Nothing /\ ~NamesDefault(j) =>
              /\ profile[r] = j.segment /\ capsOf[r] = ScopeOf(j.segment)
              /\ ~Awaits(todo[r], "profile") /\ ~Awaits(todo[r], "default")
        /\ j # Nothing /\ prefs[r] # Rejected =>
              /\ NamesDefault(j) => Awaits(todo[r], "profile") \/ ProfileKnown(r)
              /\ NamesDefault(j) /\ j.op # "card" =>
                    Awaits(todo[r], "default") \/ capsOf[r] \in Meant(j)
              /\ j.op # "card" => Awaits(todo[r], "caps") \/ CapsKnown(r)

TableInv ==
    /\ job \in [Requests -> Jobs \cup {Nothing}]
    /\ todo = [r \in Requests |-> todo[r]] /\ profile = [r \in Requests |-> profile[r]]
    /\ prefs = [r \in Requests |-> prefs[r]]
    /\ capsOf \in [Requests -> Scopes]

Inv ==
    /\ PastInv /\ CacheInv /\ TableInv
    /\ \A r \in Requests : RequestInv(r)

-----------------------------------------------------------------------------

\* Every setting of an answer was chosen, or is the catalogue's.
LEMMA SettingsOfAccount ==
    ASSUME NEW own
    PROVE  /\ AccountOf(own).persona = Resolved(own.persona, Catalogue.persona)
           /\ AccountOf(own).mode = Resolved(own.mode, Catalogue.mode)
           /\ AccountOf(own).days = Resolved(own.days, Catalogue.days)
           /\ AccountOf(own).log = Resolved(own.log, Catalogue.log)
BY DEF AccountOf, AccountSettings

LEMMA NoDefaultInCatalogue == ProfileName(Catalogue.persona) = NoProfile
BY CatalogueAssumption DEF ProfileName, Storable

\* The default persona of an answer is one that the person chose, or none.
LEMMA PersonaOfReply ==
    ASSUME PastInv, NEW s \in Scopes, NEW reply \in Known(s)
    PROVE  \/ \E own \in past.account :
                ForToken(reply).persona = ProfileName(AccountOf(own).persona)
           \/ WasSilent /\ ForToken(reply).persona = NoProfile
<1>1. CASE reply \in Given(s)
    <2>1. PICK own \in past.account, rec \in PastRecall(s) : reply = Answer(AccountOf(own), rec)
        BY <1>1 DEF Given
    <2>2. ForToken(reply) = Applied(reply)
        BY <1>1, GivenAreAnswers, Tokens
    <2>3. reply.account = AccountOf(own)
        BY <2>1 DEF Answer
    <2> QED
        BY <2>2, <2>3 DEF Applied
<1>2. CASE WasSilent /\ reply = Unavailable
    BY <1>2, Tokens DEF Deployed
<1>3. CASE WasSilent /\ reply = Answer(Catalogue, CatalogueRecall)
    <2>1. reply \in Answers /\ reply.account = Catalogue
        BY <1>3 DEF Answer, Answers
    <2>2. ForToken(reply).persona = ProfileName(Catalogue.persona)
        BY <2>1, Tokens DEF Applied
    <2> QED
        BY <1>3, <2>2, NoDefaultInCatalogue
<1> QED
    BY <1>1, <1>2, <1>3 DEF Known

LEMMA ScopeOfName ==
    /\ \A name : ScopeOf(name) \in Scopes
    /\ \A value : ProfileName(value) # NoProfile =>
          /\ value \in Spellings /\ ProfileName(value) = Folded[value]
          /\ ScopeOf(ProfileName(value)) = ProfileName(value)
BY NamesAssumption DEF ScopeOf, Scopes, Storable, ProfileName

\* What @default is resolved to, and whose caps are then asked for.
LEMMA ResolvedDefault ==
    ASSUME PastInv, NEW s \in Scopes, NEW reply \in Known(s), NEW r,
           NamesDefault(job[r])
    PROVE  /\ \/ ProfileOf(r, ForToken(reply)) = job[r].segment
              \/ \E own \in past.account :
                    own.persona \in Spellings
                    /\ Folded[own.persona] = ProfileOf(r, ForToken(reply))
           /\ ScopeOf(ProfileOf(r, ForToken(reply))) \in Meant(job[r])
<1> DEFINE persona == ForToken(reply).persona
<1>1. \/ \E own \in past.account : persona = ProfileName(AccountOf(own).persona)
      \/ WasSilent /\ persona = NoProfile
    BY PersonaOfReply
<1>2. ProfileOf(r, ForToken(reply)) = IF persona # NoProfile THEN persona ELSE job[r].segment
    BY DEF ProfileOf
<1> HIDE DEF persona
<1>3. persona \in Meant(job[r])
    BY <1>1 DEF Meant
<1>4. CASE persona # NoProfile
    <2>1. PICK own \in past.account : persona = ProfileName(AccountOf(own).persona)
        BY <1>1, <1>4
    <2>2. AccountOf(own).persona = own.persona
        BY <1>4, <2>1, NoDefaultInCatalogue, SettingsOfAccount DEF Resolved
    <2> QED
        BY <1>2, <1>3, <1>4, <2>1, <2>2, ScopeOfName
<1>5. CASE persona = NoProfile
    <2>1. ScopeOf(job[r].segment) = NoProfile
        BY NamesAssumption DEF NamesDefault, ScopeOf, Storable
    <2> QED
        BY <1>2, <1>3, <1>5, <2>1
<1> QED
    BY <1>4, <1>5

-----------------------------------------------------------------------------

LEMMA InitInv == Init => Inv
<1> SUFFICES ASSUME Init PROVE Inv
    OBVIOUS
<1>1. PastInv
    BY DEF Init, PastInv
<1>2. CacheInv
    BY DEF Init, CacheInv
<1>3. TableInv
    BY DEF Init, TableInv, Scopes
<1>4. ASSUME NEW r \in Requests
      PROVE  RequestInv(r)
    <2>1. job[r] = Nothing /\ todo[r] = <<>> /\ prefs[r] = Nothing
        BY DEF Init
    <2>2. Nothing # Rejected
        BY RequestsAssumption
    <2> QED
        BY <2>1, <2>2, NoneLeft DEF RequestInv
<1> QED
    BY <1>1, <1>2, <1>3, <1>4 DEF Inv

\* A request knows no less when the person or the line changes.
LEMMA TurnKeeps ==
    ASSUME Inv, NEW acc \in AccountChoices, NEW rec \in [Profiles -> RecallChoices],
           NEW l, Turn(acc, rec, l)
    PROVE  Inv'
<1>1. /\ PastInv' /\ past.account \subseteq past'.account /\ (WasSilent => WasSilent')
      /\ \A s \in Scopes : Given(s) \subseteq Given(s)' /\ Known(s) \subseteq Known(s)'
    BY PastGrows DEF Inv
<1>2. UNCHANGED <<cache, job, todo, profile, capsOf, prefs>>
    BY DEF Turn, requests
<1>3. CacheInv'
    BY <1>1, <1>2 DEF Inv, CacheInv
<1>4. TableInv'
    BY <1>2 DEF Inv, TableInv
<1>5. ASSUME NEW r \in Requests
      PROVE  RequestInv(r)'
    <2>1. RequestInv(r) /\ capsOf[r] \in Scopes
        BY DEF Inv, TableInv
    <2>2. ProfileKnown(r) => ProfileKnown(r)'
        BY <1>1, <1>2 DEF ProfileKnown
    <2>3. CapsKnown(r) => CapsKnown(r)'
        BY <1>1, <1>2, <2>1 DEF CapsKnown
    <2>4. \A j : Meant(j) \subseteq Meant(j)'
        BY <1>1 DEF Meant
    <2> QED
        BY <1>2, <2>1, <2>2, <2>3, <2>4 DEF RequestInv
<1> QED
    BY <1>1, <1>3, <1>4, <1>5 DEF Inv

\* What a request knows hangs on its own variables and on the past.
LEMMA OthersKeep ==
    ASSUME NEW r, RequestInv(r), UNCHANGED past,
           job'[r] = job[r], todo'[r] = todo[r], profile'[r] = profile[r],
           capsOf'[r] = capsOf[r], prefs'[r] = prefs[r]
    PROVE  RequestInv(r)'
<1>1. ProfileKnown(r) => ProfileKnown(r)'
    BY DEF ProfileKnown
<1>2. CapsKnown(r) => CapsKnown(r)'
    BY DEF CapsKnown, Known, Given, PastRecall, WasSilent
<1>3. \A j : Meant(j)' = Meant(j)
    BY DEF Meant, WasSilent
<1> QED
    BY <1>1, <1>2, <1>3 DEF RequestInv

\* A request that fails makes no more calls and is never served.
LEMMA FailureKeeps ==
    ASSUME Inv, NEW r \in Requests, job[r] # Nothing,
           PastInv', CacheInv', UNCHANGED <<past, job>>,
           todo' = [todo EXCEPT ![r] = <<>>], prefs' = [prefs EXCEPT ![r] = Rejected],
           profile' = profile, capsOf' = capsOf
    PROVE  Inv'
<1>1. TableInv'
    BY DEF Inv, TableInv
<1>2. /\ todo'[r] = <<>> /\ prefs'[r] = Rejected
      /\ \A q \in Requests : q # r => todo'[q] = todo[q] /\ prefs'[q] = prefs[q]
    BY DEF Inv, TableInv
<1>3. \A q \in Requests : q # r => RequestInv(q)'
    BY <1>2, OthersKeep DEF Inv
<1>4. RequestInv(r)'
    BY <1>2, NoneLeft DEF Inv, RequestInv
<1> QED
    BY <1>1, <1>3, <1>4 DEF Inv

LEMMA ReceiveKeeps ==
    ASSUME Inv, NEW r \in Requests, NEW j \in Jobs, Receive(r, j)
    PROVE  Inv'
<1>1. /\ job' = [job EXCEPT ![r] = j] /\ todo' = [todo EXCEPT ![r] = Calls(j)]
      /\ profile' = [profile EXCEPT ![r] = j.segment]
      /\ capsOf' = [capsOf EXCEPT ![r] = ScopeOf(j.segment)]
      /\ prefs' = prefs /\ UNCHANGED <<account, recall, line, past, cache>>
      /\ job[r] = Nothing
    BY DEF Receive, outside
<1>2. PastInv' /\ CacheInv'
    BY <1>1 DEF Inv, PastInv, CacheInv, Given, PastRecall
<1>3. ScopeOf(j.segment) \in Scopes
    BY ScopeOfName
<1>4. TableInv'
    BY <1>1, <1>3 DEF Inv, TableInv
<1>5. /\ job'[r] = j /\ todo'[r] = Calls(j) /\ profile'[r] = j.segment
      /\ capsOf'[r] = ScopeOf(j.segment) /\ prefs'[r] = prefs[r]
      /\ \A q \in Requests : q # r =>
            /\ job'[q] = job[q] /\ todo'[q] = todo[q] /\ profile'[q] = profile[q]
            /\ capsOf'[q] = capsOf[q] /\ prefs'[q] = prefs[q]
    BY <1>1 DEF Inv, TableInv
<1>6. \A q \in Requests : q # r => RequestInv(q)'
    BY <1>1, <1>5, OthersKeep DEF Inv
<1>7. prefs[r] # Rejected
    BY <1>1 DEF Inv, RequestInv
<1>8. RequestInv(r)'
    <2>1. j # Nothing
        BY RequestsAssumption
    <2>2. ProfileKnown(r)' <=> \/ profile'[r] = job'[r].segment
                               \/ \E own \in past'.account : own.persona \in Spellings
                                                             /\ Folded[own.persona] = profile'[r]
        BY DEF ProfileKnown
    <2> QED
        BY <1>5, <1>7, <2>1, CallsOfJobs DEF RequestInv
<1> QED
    BY <1>2, <1>4, <1>6, <1>8 DEF Inv

-----------------------------------------------------------------------------

\* The request's next call is "call", and this reply is the answer to it.
LEMMA ResolveKeeps ==
    ASSUME Inv, NEW r \in Requests, ResolveDefault(r)
    PROVE  Inv'
<1>1. PICK call \in {"profile", "default"}, reply \in Replies(NoProfile) :
        /\ Stands(r, call)
        /\ cache' = Kept(NoProfile, reply)
        /\ \/ ForToken(reply) = Rejected /\ Fails(r)
           \/ /\ ForToken(reply) # Rejected /\ Goes(r)
              /\ profile' = IF call = "profile"
                            THEN [profile EXCEPT ![r] = ProfileOf(r, ForToken(reply))] ELSE profile
              /\ capsOf' = IF call = "default"
                           THEN [capsOf EXCEPT ![r] = ScopeOf(ProfileOf(r, ForToken(reply)))]
                           ELSE capsOf
              /\ prefs' = prefs
        /\ UNCHANGED <<outside, job>>
    BY DEF ResolveDefault
<1>2. NoProfile \in Scopes /\ UNCHANGED <<account, recall, line, past, job>>
    BY <1>1 DEF Scopes, outside
<1>3. PastInv' /\ CacheInv'
    BY <1>1, <1>2, KeptIsGiven DEF Inv, PastInv
<1>4. /\ RequestInv(r) /\ TableInv /\ PastInv /\ CacheInv
      /\ todo[r] # <<>> /\ Head(todo[r]) = call /\ todo[r] \in Seq(CallNames)
    BY <1>1 DEF Inv, Stands, RequestInv
<1>5. job[r] # Nothing /\ prefs[r] # Rejected /\ NamesDefault(job[r])
    <2>1. Awaits(todo[r], call)
        BY <1>4, NextCall
    <2> QED
        BY <1>1, <1>4, <2>1 DEF RequestInv
<1>6. CASE Fails(r)
    <2>1. /\ todo' = [todo EXCEPT ![r] = <<>>] /\ prefs' = [prefs EXCEPT ![r] = Rejected]
          /\ profile' = profile /\ capsOf' = capsOf
        BY <1>6 DEF Fails
    <2> QED
        BY <1>2, <1>3, <1>4, <1>5, <2>1, FailureKeeps
<1>7. CASE /\ ForToken(reply) # Rejected /\ Goes(r)
           /\ profile' = IF call = "profile"
                         THEN [profile EXCEPT ![r] = ProfileOf(r, ForToken(reply))] ELSE profile
           /\ capsOf' = IF call = "default"
                        THEN [capsOf EXCEPT ![r] = ScopeOf(ProfileOf(r, ForToken(reply)))]
                        ELSE capsOf
           /\ prefs' = prefs
    <2> DEFINE name == ProfileOf(r, ForToken(reply))
    <2>1. reply \in Known(NoProfile)
        BY <1>2, <1>4, <1>7, RepliesAreKnown
    <2>2. /\ \/ name = job[r].segment
             \/ \E own \in past.account : own.persona \in Spellings /\ Folded[own.persona] = name
          /\ ScopeOf(name) \in Meant(job[r]) /\ ScopeOf(name) \in Scopes
        BY <1>2, <1>4, <1>5, <2>1, ResolvedDefault, ScopeOfName
    <2> HIDE DEF name
    <2>3. /\ todo' = [todo EXCEPT ![r] = Tail(todo[r])] /\ prefs' = prefs /\ job' = job
          /\ profile' = IF call = "profile" THEN [profile EXCEPT ![r] = name] ELSE profile
          /\ capsOf' = IF call = "default" THEN [capsOf EXCEPT ![r] = ScopeOf(name)] ELSE capsOf
        BY <1>2, <1>7 DEF Goes, name
    <2>4. TableInv'
        BY <1>4, <2>2, <2>3 DEF TableInv
    <2>5. /\ todo'[r] = Tail(todo[r]) /\ prefs'[r] = prefs[r] /\ job'[r] = job[r]
          /\ call = "profile" => profile'[r] = name /\ capsOf'[r] = capsOf[r]
          /\ call = "default" => profile'[r] = profile[r] /\ capsOf'[r] = ScopeOf(name)
          /\ \A q \in Requests : q # r =>
                /\ todo'[q] = todo[q] /\ profile'[q] = profile[q]
                /\ capsOf'[q] = capsOf[q] /\ prefs'[q] = prefs[q] /\ job'[q] = job[q]
        BY <1>4, <2>3 DEF TableInv
    <2>6. \A q \in Requests : q # r => RequestInv(q)'
        BY <1>2, <2>5, OthersKeep DEF Inv
    <2>7. /\ Tail(todo[r]) \in Seq(CallNames) /\ DefaultThenCaps(Tail(todo[r]))
          /\ \A c : Awaits(todo[r], c) => c = call \/ Awaits(Tail(todo[r]), c)
          /\ call = "default" => Awaits(Tail(todo[r]), "caps")
        BY <1>4, NextCall DEF RequestInv
    <2>8. NamesDefault(job[r]) => Awaits(todo'[r], "profile") \/ ProfileKnown(r)'
        <3>1. CASE call = "profile"
            BY <1>2, <2>2, <2>5, <3>1 DEF ProfileKnown
        <3>2. CASE call = "default"
            BY <1>2, <1>4, <1>5, <2>5, <2>7, <3>2 DEF RequestInv, ProfileKnown
        <3> QED
            BY <3>1, <3>2
    <2>9. job[r].op # "card" => Awaits(todo'[r], "default") \/ capsOf'[r] \in Meant(job[r])'
        <3>1. Meant(job[r])' = Meant(job[r])
            BY <1>2 DEF Meant, WasSilent
        <3> QED
            BY <1>4, <1>5, <2>2, <2>5, <2>7, <3>1 DEF RequestInv
    <2>10. job[r].op # "card" => Awaits(todo'[r], "caps") \/ CapsKnown(r)'
        <3>1. CASE call = "profile"
            <4>1. CapsKnown(r) => CapsKnown(r)'
                BY <1>2, <2>5, <3>1 DEF CapsKnown, Known, Given, PastRecall, WasSilent
            <4> QED
                BY <1>4, <1>5, <2>5, <2>7, <3>1, <4>1 DEF RequestInv
        <3>2. CASE call = "default"
            BY <2>5, <2>7, <3>2
        <3> QED
            BY <3>1, <3>2
    <2>11. RequestInv(r)'
        BY <1>2, <1>5, <2>5, <2>7, <2>8, <2>9, <2>10 DEF RequestInv
    <2> QED
        BY <1>3, <2>4, <2>6, <2>11 DEF Inv
<1> QED
    BY <1>1, <1>6, <1>7

LEMMA ReadCapsKeeps ==
    ASSUME Inv, NEW r \in Requests, ReadCaps(r)
    PROVE  Inv'
<1>1. PICK reply \in Replies(capsOf[r]) :
        /\ Stands(r, "caps")
        /\ cache' = Kept(capsOf[r], reply)
        /\ \/ ForToken(reply) = Rejected /\ Fails(r)
           \/ /\ ForToken(reply) # Rejected /\ Goes(r)
              /\ prefs' = [prefs EXCEPT ![r] = ForToken(reply)]
              /\ UNCHANGED <<profile, capsOf>>
        /\ UNCHANGED <<outside, job>>
    BY DEF ReadCaps
<1>2. capsOf[r] \in Scopes /\ UNCHANGED <<account, recall, line, past, job>>
    BY <1>1 DEF Inv, TableInv, outside
<1>3. PastInv' /\ CacheInv'
    BY <1>1, <1>2, KeptIsGiven DEF Inv, PastInv
<1>4. /\ RequestInv(r) /\ TableInv /\ PastInv /\ CacheInv
      /\ todo[r] # <<>> /\ Head(todo[r]) = "caps" /\ todo[r] \in Seq(CallNames)
    BY <1>1 DEF Inv, Stands, RequestInv
<1>5. job[r] # Nothing /\ prefs[r] # Rejected
    BY <1>4 DEF RequestInv
<1>6. CASE Fails(r)
    <2>1. /\ todo' = [todo EXCEPT ![r] = <<>>] /\ prefs' = [prefs EXCEPT ![r] = Rejected]
          /\ profile' = profile /\ capsOf' = capsOf
        BY <1>6 DEF Fails
    <2> QED
        BY <1>2, <1>3, <1>4, <1>5, <2>1, FailureKeeps
<1>7. CASE /\ ForToken(reply) # Rejected /\ Goes(r)
           /\ prefs' = [prefs EXCEPT ![r] = ForToken(reply)]
           /\ UNCHANGED <<profile, capsOf>>
    <2> DEFINE answer == ForToken(reply)
    <2>1. reply \in Known(capsOf[r])
        BY <1>2, <1>4, <1>7, RepliesAreKnown
    <2> HIDE DEF answer
    <2>2. /\ todo' = [todo EXCEPT ![r] = Tail(todo[r])] /\ prefs' = [prefs EXCEPT ![r] = answer]
          /\ profile' = profile /\ capsOf' = capsOf /\ job' = job /\ answer # Rejected
        BY <1>2, <1>7 DEF Goes, answer
    <2>3. TableInv'
        BY <1>4, <2>2 DEF TableInv
    <2>4. /\ todo'[r] = Tail(todo[r]) /\ prefs'[r] = answer
          /\ \A q \in Requests : q # r => todo'[q] = todo[q] /\ prefs'[q] = prefs[q]
        BY <1>4, <2>2 DEF TableInv
    <2>5. \A q \in Requests : q # r => RequestInv(q)'
        BY <1>2, <2>2, <2>4, OthersKeep DEF Inv
    <2>6. /\ Tail(todo[r]) \in Seq(CallNames) /\ DefaultThenCaps(Tail(todo[r]))
          /\ \A c : Awaits(todo[r], c) => c = "caps" \/ Awaits(Tail(todo[r]), c)
          /\ \A c : Awaits(Tail(todo[r]), c) => Awaits(todo[r], c)
        BY <1>4, NextCall DEF RequestInv
    <2>7. ProfileKnown(r) => ProfileKnown(r)'
        BY <1>2, <2>2 DEF ProfileKnown
    <2>8. CapsKnown(r)'
        <3>1. Known(capsOf[r])' = Known(capsOf[r])
            BY <1>2, <2>2 DEF Known, Given, PastRecall, WasSilent
        <3> QED
            BY <2>1, <2>4, <3>1 DEF CapsKnown, answer
    <2>9. Meant(job[r])' = Meant(job[r])
        BY <1>2 DEF Meant, WasSilent
    <2>10. RequestInv(r)'
        BY <1>2, <1>4, <1>5, <2>2, <2>4, <2>6, <2>7, <2>8, <2>9 DEF RequestInv
    <2> QED
        BY <1>3, <2>3, <2>5, <2>10 DEF Inv
<1> QED
    BY <1>1, <1>6, <1>7

LEMMA NextInv == Inv /\ [Next]_vars => Inv'
<1> SUFFICES ASSUME Inv, [Next]_vars PROVE Inv'
    OBVIOUS
<1>0. /\ account \in AccountChoices /\ recall \in [Profiles -> RecallChoices]
    BY DEF Inv, PastInv
<1>1. CASE ChooseForAccount
    BY <1>0, <1>1, TurnKeeps DEF ChooseForAccount
<1>2. CASE ChooseForProfile
    <2>1. PICK p \in Profiles, rec \in RecallChoices :
            Turn(account, [recall EXCEPT ![p] = rec], line)
        BY <1>2 DEF ChooseForProfile
    <2>2. [recall EXCEPT ![p] = rec] \in [Profiles -> RecallChoices]
        BY <1>0
    <2> QED
        BY <1>0, <2>1, <2>2, TurnKeeps
<1>3. CASE LineTurns
    BY <1>0, <1>3, TurnKeeps DEF LineTurns
<1>4. ASSUME NEW r \in Requests, (\E j \in Jobs : Receive(r, j)) \/ ResolveDefault(r) \/ ReadCaps(r)
      PROVE  Inv'
    BY <1>4, ReceiveKeeps, ResolveKeeps, ReadCapsKeeps
<1>5. CASE UNCHANGED vars
    <2>1. UNCHANGED <<account, recall, line, past, cache, job, todo, profile, capsOf, prefs>>
        BY <1>5 DEF vars, outside, requests
    <2>2. PastInv' /\ CacheInv' /\ TableInv'
        BY <2>1 DEF Inv, PastInv, CacheInv, TableInv, Given, PastRecall
    <2>3. \A r \in Requests : RequestInv(r)'
        BY <2>1, OthersKeep DEF Inv
    <2> QED
        BY <2>2, <2>3 DEF Inv
<1> QED
    BY <1>1, <1>2, <1>3, <1>4, <1>5 DEF Next, Done

-----------------------------------------------------------------------------

\* The calls of a request that is carried out are all made.
LEMMA ServedKnows ==
    ASSUME Inv, NEW r \in Requests, Served(r)
    PROVE  /\ NamesDefault(job[r]) => ProfileKnown(r)
           /\ NamesDefault(job[r]) /\ job[r].op # "card" => capsOf[r] \in Meant(job[r])
           /\ job[r].op # "card" => CapsKnown(r)
           /\ ~NamesDefault(job[r]) =>
                profile[r] = job[r].segment /\ capsOf[r] = ScopeOf(job[r].segment)
           /\ capsOf[r] \in Scopes
BY NoneLeft DEF Inv, Served, RequestInv, TableInv

\* "@default" acts on a persona that the person chose as the default, or is refused
\* (resolve_profile hands the segment on, and no store takes its name).
THEOREM DefaultCorrect == Spec => []DefaultIsChosen
<1>1. Inv => DefaultIsChosen
    <2> SUFFICES ASSUME Inv, NEW r \in Requests, Served(r), NamesDefault(job[r])
                 PROVE  \E own \in past.account :
                            own.persona \in Spellings /\ Folded[own.persona] = profile[r]
        BY DEF DefaultIsChosen
    <2>1. ProfileKnown(r)
        BY ServedKnows
    <2>2. profile[r] # job[r].segment
        BY NamesAssumption DEF Served, NamesDefault, Storable
    <2> QED
        BY <2>1, <2>2 DEF ProfileKnown
<1> QED
    BY <1>1, InitInv, NextInv, PTL DEF Spec

\* A reply's policy is that of one thing settings-api said; no other reply destroys
\* anything or keeps anything.
LEMMA PolicyOfReply ==
    ASSUME PastInv, NEW s \in Scopes, NEW reply \in Known(s)
    PROVE  \/ \E acc \in Said : /\ ForToken(reply).erasure = Erasure(acc.mode, acc.days)
                              /\ ForToken(reply).logValues = Flag(acc.log)
           \/ /\ ForToken(reply).erasure.mode = "tombstone"
              /\ ForToken(reply).logValues = FALSE
<1>1. CASE reply \in Given(s)
    <2>1. PICK own \in past.account, rec \in PastRecall(s) : reply = Answer(AccountOf(own), rec)
        BY <1>1 DEF Given
    <2>2. ForToken(reply) = Applied(reply)
        BY <1>1, GivenAreAnswers, Tokens
    <2>3. reply.account = AccountOf(own) /\ AccountOf(own) \in Said
        BY <2>1 DEF Answer, Said
    <2>4. /\ Applied(reply).erasure = Erasure(reply.account.mode, reply.account.days)
          /\ Applied(reply).logValues = Flag(reply.account.log)
        BY DEF Applied
    <2> QED
        BY <2>2, <2>3, <2>4
<1>2. CASE reply = Unavailable
    <2>1. ForToken(reply) = Deployed
        BY <1>2, Tokens
    <2>2. Deployed.erasure.mode = "tombstone" /\ Deployed.logValues = FALSE
        BY DEF Deployed, Tombstone
    <2> QED
        BY <2>1, <2>2
<1>3. CASE WasSilent /\ reply = Answer(Catalogue, CatalogueRecall)
    <2>1. reply \in Answers /\ reply.account = Catalogue /\ Catalogue \in Said
        BY <1>3 DEF Answer, Answers, Said
    <2>2. /\ ForToken(reply).erasure = Erasure(Catalogue.mode, Catalogue.days)
          /\ ForToken(reply).logValues = Flag(Catalogue.log)
        BY <2>1, Tokens DEF Applied
    <2> QED
        BY <2>1, <2>2
<1> QED
    BY <1>1, <1>2, <1>3 DEF Known

LEMMA ErasureOfChoice ==
    ASSUME NEW mode, NEW days, Erasure(mode, days).mode # "tombstone"
    PROVE  /\ Erasure(mode, days).mode = mode
           /\ mode = "grace" =>
                Erasure(mode, days).graceDays =
                    (IF days \in 0 .. MaxGraceDays THEN days ELSE DefaultGraceDays)
<1>1. mode \in Modes
    BY DEF Erasure, Tombstone
<1>2. Erasure(mode, days) =
        [mode |-> mode,
         graceDays |-> IF mode = "grace" /\ WholeNumber(days, 0 .. MaxGraceDays) # Malformed
                       THEN days ELSE DefaultGraceDays]
    BY <1>1 DEF Erasure
<1>3. WholeNumber(days, 0 .. MaxGraceDays) # Malformed <=> days \in 0 .. MaxGraceDays
    BY RequestsAssumption, DeploymentAssumption DEF WholeNumber
<1> QED
    BY <1>2, <1>3

\* Nothing is destroyed and nothing replaced is kept unless settings-api once said just
\* that of the person: not in an outage that no answer preceded, not for a setting of the
\* wrong shape, and under no mixture of two answers (_erasure, _flag,
\* deployment_preferences).
LEMMA SaidIsDone == Inv => NothingUnsaidIsDone
<1> SUFFICES ASSUME Inv, NEW r \in Requests, DestroysOrKeeps(r)
             PROVE  \E acc \in Said : AsksFor(acc, prefs[r])
    BY DEF NothingUnsaidIsDone
<1>1. PICK reply \in Known(capsOf[r]) : prefs[r] = ForToken(reply)
    BY ServedKnows DEF CapsKnown, DestroysOrKeeps
<1>2. capsOf[r] \in Scopes /\ PastInv
    BY ServedKnows DEF Inv, DestroysOrKeeps
<1>3. PICK acc \in Said : /\ prefs[r].erasure = Erasure(acc.mode, acc.days)
                          /\ prefs[r].logValues = Flag(acc.log)
    BY <1>1, <1>2, PolicyOfReply DEF DestroysOrKeeps
<1>4. prefs[r].logValues => acc.log = TRUE
    BY <1>3 DEF Flag
<1>5. /\ prefs[r].erasure.mode # "tombstone" => acc.mode = prefs[r].erasure.mode
      /\ prefs[r].erasure.mode = "grace" =>
            prefs[r].erasure.graceDays =
                (IF acc.days \in 0 .. MaxGraceDays THEN acc.days ELSE DefaultGraceDays)
    BY <1>3, ErasureOfChoice
<1> QED
    BY <1>4, <1>5 DEF AsksFor

THEOREM NothingUnsaid == Spec => []NothingUnsaidIsDone
BY SaidIsDone, InitInv, NextInv, PTL DEF Spec

\* Where the catalogue is the one that docs/operations.md asks for, what settings-api
\* says is the person's own choice wherever it destroys or keeps anything.
LEMMA SaidIsChosen ==
    ASSUME CatalogueChoosesNothing, NEW r \in Requests, DestroysOrKeeps(r),
           NEW acc \in Said, AsksFor(acc, prefs[r])
    PROVE  \E own \in past.account : AsksFor(own, prefs[r])
<1>1. Catalogue.mode = "tombstone" /\ Catalogue.days = DefaultGraceDays /\ Catalogue.log = FALSE
    BY DEF CatalogueChoosesNothing
<1>2. /\ prefs[r].logValues => acc.log = TRUE
      /\ prefs[r].erasure.mode # "tombstone" => acc.mode = prefs[r].erasure.mode
      /\ prefs[r].erasure.mode = "grace" =>
            prefs[r].erasure.graceDays =
                (IF acc.days \in 0 .. MaxGraceDays THEN acc.days ELSE DefaultGraceDays)
      /\ prefs[r].erasure.mode # "tombstone" \/ prefs[r].logValues
    BY DEF AsksFor, DestroysOrKeeps
<1>3. acc # Catalogue
    BY <1>1, <1>2
<1>4. PICK own \in past.account : acc = AccountOf(own)
    BY <1>3 DEF Said
<1>5. /\ acc.mode = Resolved(own.mode, Catalogue.mode)
      /\ acc.days = Resolved(own.days, Catalogue.days)
      /\ acc.log = Resolved(own.log, Catalogue.log)
    BY <1>4, SettingsOfAccount
<1>6. prefs[r].logValues => own.log = TRUE
    BY <1>1, <1>2, <1>5 DEF Resolved
<1>7. prefs[r].erasure.mode # "tombstone" => own.mode = prefs[r].erasure.mode
    BY <1>1, <1>2, <1>5 DEF Resolved
<1>8. (IF acc.days \in 0 .. MaxGraceDays THEN acc.days ELSE DefaultGraceDays)
        = (IF own.days \in 0 .. MaxGraceDays THEN own.days ELSE DefaultGraceDays)
    <2>1. CASE own.days # Unchosen
        BY <1>5, <2>1 DEF Resolved
    <2>2. CASE own.days = Unchosen
        <3>1. acc.days = DefaultGraceDays
            BY <1>1, <1>5, <2>2 DEF Resolved
        <3>2. Unchosen \notin Nat
            BY RequestsAssumption
        <3> QED
            BY <2>2, <3>1, <3>2, DeploymentAssumption
    <2> QED
        BY <2>1, <2>2
<1> QED
    BY <1>2, <1>6, <1>7, <1>8 DEF AsksFor

\* "a person who has chosen nothing gets exactly what persona-api did before"
\* (docs/adr/0009) holds on the condition that the decision's Consequences name: that the
\* catalogue's own mode is a tombstone.  On another catalogue it does not hold.
THEOREM NothingUnchosen == CatalogueChoosesNothing => (Spec => []NothingUnchosenIsDone)
<1> SUFFICES ASSUME CatalogueChoosesNothing PROVE Spec => []NothingUnchosenIsDone
    OBVIOUS
<1>1. Inv => NothingUnchosenIsDone
    BY SaidIsDone, SaidIsChosen DEF NothingUnsaidIsDone, NothingUnchosenIsDone
<1> QED
    BY <1>1, InitInv, NextInv, PTL DEF Spec

-----------------------------------------------------------------------------

LEMMA NarrowedCap ==
    ASSUME NEW deployment \in Nat \ {0}, NEW own
    PROVE  /\ Narrowed(deployment, WholeNumber(own, Nat \ {0})) \in Nat \ {0}
           /\ IsNarrowed(Narrowed(deployment, WholeNumber(own, Nat \ {0})), deployment, own)
<1>1. CASE own \in Nat \ {0}
    <2>1. own # Malformed
        BY <1>1, RequestsAssumption
    <2> QED
        BY <1>1, <2>1 DEF Narrowed, WholeNumber, Lesser, IsNarrowed
<1>2. CASE own \notin Nat \ {0}
    BY <1>2 DEF Narrowed, WholeNumber, IsNarrowed
<1> QED
    BY <1>1, <1>2

LEMMA AppliedCaps ==
    ASSUME NEW reply
    PROVE  /\ Applied(reply).recall <= RecallMax
           /\ IsNarrowed(Applied(reply).recall, DeployedRecall, reply.recall)
           /\ IsNarrowed(Applied(reply).pins, DeployedPins, reply.account.pins)
<1> DEFINE page == Narrowed(DeployedRecall, WholeNumber(reply.recall, Nat \ {0}))
           pins == Narrowed(DeployedPins, WholeNumber(reply.account.pins, Nat \ {0}))
<1>1. /\ DeployedRecall \in Nat \ {0} /\ RecallMax \in Nat \ {0} /\ DeployedPins \in Nat \ {0}
      /\ DeployedRecall <= RecallMax
    BY DeploymentAssumption
<1>2. /\ page \in Nat \ {0} /\ IsNarrowed(page, DeployedRecall, reply.recall)
      /\ IsNarrowed(pins, DeployedPins, reply.account.pins)
    BY <1>1, NarrowedCap
<1>3. Applied(reply).recall = Lesser(page, RecallMax) /\ Applied(reply).pins = pins
    BY DEF Applied
<1> HIDE DEF page, pins
<1>4. page <= DeployedRecall
    BY <1>2 DEF IsNarrowed
<1>5. Lesser(page, RecallMax) = page /\ page <= RecallMax
    BY <1>1, <1>2, <1>4 DEF Lesser
<1> QED
    BY <1>2, <1>3, <1>5

LEMMA CapsOfReply ==
    ASSUME PastInv, NEW s \in Scopes, NEW reply \in Known(s)
    PROVE  /\ ForToken(reply).recall <= RecallMax
           /\ \E own \in PastRecall(s) \cup (IF WasSilent THEN {CatalogueRecall, Malformed} ELSE {}) :
                IsNarrowed(ForToken(reply).recall, DeployedRecall, own)
           /\ \E own \in OwnPins : IsNarrowed(ForToken(reply).pins, DeployedPins, own)
<1>1. CASE reply \in Given(s)
    <2>1. PICK own \in past.account, rec \in PastRecall(s) : reply = Answer(AccountOf(own), rec)
        BY <1>1 DEF Given
    <2>2. ForToken(reply) = Applied(reply)
        BY <1>1, GivenAreAnswers, Tokens
    <2>3. reply.account = AccountOf(own) /\ reply.recall = rec /\ AccountOf(own) \in Said
        BY <2>1 DEF Answer, Said
    <2>4. reply.account.pins \in OwnPins
        BY <2>3 DEF OwnPins
    <2> QED
        BY <2>2, <2>3, <2>4, AppliedCaps
<1>2. CASE WasSilent /\ reply = Unavailable
    <2>1. ForToken(reply).recall = DeployedRecall /\ ForToken(reply).pins = DeployedPins
        BY <1>2, Tokens DEF Deployed
    <2>2. /\ IsNarrowed(DeployedRecall, DeployedRecall, Malformed)
          /\ IsNarrowed(DeployedPins, DeployedPins, Malformed)
        BY RequestsAssumption, DeploymentAssumption DEF IsNarrowed
    <2>3. Malformed \in OwnPins
        BY <1>2 DEF OwnPins
    <2> QED
        BY <1>2, <2>1, <2>2, <2>3, DeploymentAssumption
<1>3. CASE WasSilent /\ reply = Answer(Catalogue, CatalogueRecall)
    <2>1. reply \in Answers /\ reply.account = Catalogue /\ reply.recall = CatalogueRecall
        BY <1>3 DEF Answer, Answers
    <2>2. Catalogue.pins \in OwnPins
        BY <1>3 DEF OwnPins, Said
    <2> QED
        BY <1>3, <2>1, <2>2, Tokens, AppliedCaps
<1> QED
    BY <1>1, <1>2, <1>3 DEF Known

\* The page a request did not size and the cap of its pins are the person's own or the
\* catalogue's, for the persona the request is about, narrowed by the deployment's; no page exceeds what
\* may be asked for (_narrow, get_preferences, page_limit).
THEOREM CapsCorrect == Spec => []CapsAreTheirs
<1>1. Inv => CapsAreTheirs
    <2> SUFFICES ASSUME Inv, NEW r \in Requests, Served(r), job[r].op # "card"
                 PROVE  /\ PageLimit(r) <= RecallMax
                        /\ \E own \in OwnPages(job[r]) :
                              IsNarrowed(prefs[r].recall, DeployedRecall, own)
                        /\ \E own \in OwnPins : IsNarrowed(prefs[r].pins, DeployedPins, own)
        BY DEF CapsAreTheirs
    <2>1. PICK reply \in Known(capsOf[r]) : prefs[r] = ForToken(reply)
        BY ServedKnows DEF CapsKnown
    <2>2. capsOf[r] \in Scopes /\ PastInv
        BY ServedKnows DEF Inv
    <2>3. /\ prefs[r].recall <= RecallMax
          /\ \E own \in PastRecall(capsOf[r])
                    \cup (IF WasSilent THEN {CatalogueRecall, Malformed} ELSE {}) :
                IsNarrowed(prefs[r].recall, DeployedRecall, own)
          /\ \E own \in OwnPins : IsNarrowed(prefs[r].pins, DeployedPins, own)
        BY <2>1, <2>2, CapsOfReply
    <2>4. capsOf[r] \in Meant(job[r])
        <3>1. CASE NamesDefault(job[r])
            BY <3>1, ServedKnows
        <3>2. CASE ~NamesDefault(job[r])
            BY <3>2, ServedKnows DEF Served, ScopeOf, Meant
        <3> QED
            BY <3>1, <3>2
    <2>5. PastRecall(capsOf[r]) \cup (IF WasSilent THEN {CatalogueRecall, Malformed} ELSE {})
             \subseteq OwnPages(job[r])
        <3> DEFINE pages == {PastRecall(s) : s \in Meant(job[r])}
                   elsewise == IF WasSilent THEN {CatalogueRecall, Malformed} ELSE {}
        <3>1. OwnPages(job[r]) = (UNION pages) \cup elsewise
            BY DEF OwnPages, PastRecall
        <3>2. PastRecall(capsOf[r]) \in pages
            BY <2>4
        <3> HIDE DEF pages, elsewise
        <3>3. PastRecall(capsOf[r]) \subseteq UNION pages
            BY <3>2
        <3>4. ASSUME NEW own \in PastRecall(capsOf[r]) PROVE own \in OwnPages(job[r])
            BY <3>1, <3>3
        <3>5. ASSUME NEW own \in elsewise PROVE own \in OwnPages(job[r])
            BY <3>1
        <3> QED
            BY <3>4, <3>5 DEF elsewise
    <2>6. PageLimit(r) <= RecallMax
        BY <2>3 DEF PageLimit, Served
    <2> QED
        BY <2>3, <2>5, <2>6
<1> QED
    BY <1>1, InitInv, NextInv, PTL DEF Spec
=============================================================================
