------------------------- MODULE ScopePolicyProofs --------------------------
(* What ScopePolicy asks of a token, for every method, path and query, and *)
(* whatever scopes the token holds.                                        *)
EXTENDS ScopePolicy, TLAPS

(* Every lookup has at most five acceptable scopes. *)
LEMMA LookupDomain ==
    ASSUME NEW tail, NEW query
    PROVE  \E n \in 0 .. 5 : DOMAIN LookupScopes(tail, query) = 1 .. n
<1>1. DOMAIN ClientReaders = 1 .. 3
    BY DEF ClientReaders
<1>2. DOMAIN <<"roles:read", "roles:write", "groups:write", "clients:write",
               "client-scopes:write">> = 1 .. 5
    OBVIOUS
<1>3. DOMAIN <<"client-scopes:read", "client-scopes:write", "clients:write",
               "realm:admin">> = 1 .. 4
    OBVIOUS
<1>4. DOMAIN << >> = 1 .. 0
    OBVIOUS
<1> QED BY <1>1, <1>2, <1>3, <1>4 DEF LookupScopes

(* A set of positions within 1 .. 5 that is not empty has a first one. *)
LEMMA FirstPosition ==
    ASSUME NEW S \in SUBSET (1 .. 5), S # {}
    PROVE  \E i \in S : \A j \in S : i <= j
<1>1. CASE 1 \in S  BY <1>1
<1>2. CASE 1 \notin S /\ 2 \in S  BY <1>2
<1>3. CASE 1 \notin S /\ 2 \notin S /\ 3 \in S  BY <1>3
<1>4. CASE 1 \notin S /\ 2 \notin S /\ 3 \notin S /\ 4 \in S  BY <1>4
<1>5. CASE 1 \notin S /\ 2 \notin S /\ 3 \notin S /\ 4 \notin S
    <2>1. \A i \in S : i = 5
        BY <1>5
    <2>2. PICK i \in S : TRUE
        OBVIOUS
    <2>3. \A j \in S : 5 <= j
        BY <2>1
    <2> QED BY <2>1, <2>2, <2>3
<1> QED BY <1>1, <1>2, <1>3, <1>4, <1>5

(* No request is forwarded for want of a rule: whatever its method, path   *)
(* and query, some scope is asked of its token.                            *)
THEOREM SomeScopeRequired ==
    ASSUME NEW method, NEW segments, NEW query, NEW held
    PROVE  RequiredScopes(method, segments, query, held) # {}
<1> DEFINE lookup == IF method = "GET" THEN LookupScopes(ResourceTail(segments), query)
                                       ELSE << >>
           names == IF lookup # << >> THEN lookup ELSE <<FamilyScope(method, segments)>>
           candidates == [i \in DOMAIN names |-> {names[i]}]
           fits == {i \in DOMAIN candidates : candidates[i] \subseteq held}
           chosen == IF fits = {} THEN 1 ELSE CHOOSE i \in fits : \A j \in fits : i <= j
<1>1. PICK n \in 1 .. 5 : DOMAIN names = 1 .. n
    <2>1. CASE lookup # << >>
        <3>1. method = "GET" /\ names = LookupScopes(ResourceTail(segments), query)
            BY <2>1
        <3>2. PICK n \in 0 .. 5 : DOMAIN names = 1 .. n
            BY <3>1, LookupDomain
        <3>3. n # 0
            BY <2>1, <3>1, <3>2 DEF LookupScopes, ClientReaders
        <3> QED BY <3>2, <3>3
    <2>2. CASE lookup = << >>
        <3>1. names = <<FamilyScope(method, segments)>>
            BY <2>2
        <3>2. DOMAIN names = 1 .. 1
            BY <3>1
        <3> QED BY <3>2
    <2> HIDE DEF names
    <2> QED BY <2>1, <2>2
<1>2. ScopeCandidates(method, segments, query) = candidates
    BY DEF ScopeCandidates, Alternatives
<1>3. RequiredScopes(method, segments, query, held) = candidates[chosen]
    BY <1>2 DEF RequiredScopes, SelectScopeCandidate
<1> HIDE DEF names
<1>4. chosen \in DOMAIN names
    <2>1. CASE fits = {}
        BY <1>1, <2>1
    <2>2. CASE fits # {}
        <3>1. fits \in SUBSET (1 .. 5) /\ fits \subseteq DOMAIN names
            BY <1>1
        <3>2. \E i \in fits : \A j \in fits : i <= j
            BY <2>2, <3>1, FirstPosition
        <3> QED BY <2>2, <3>1, <3>2
    <2> QED BY <2>1, <2>2
<1>5. candidates[chosen] = {names[chosen]}
    BY <1>4
<1> HIDE DEF candidates, chosen
<1> QED BY <1>3, <1>5

(* A path that no lookup matches asks for its family's scope, whatever the *)
(* method and the token.                                                   *)
LEMMA AsksFamilyScope ==
    ASSUME NEW method, NEW segments, NEW query, NEW held,
           method # "GET" \/ LookupScopes(ResourceTail(segments), query) = << >>
    PROVE  RequiredScopes(method, segments, query, held) = {FamilyScope(method, segments)}
<1> DEFINE f == FamilyScope(method, segments)
<1>1. ScopeCandidates(method, segments, query) = [i \in DOMAIN <<f>> |-> {<<f>>[i]}]
    BY DEF ScopeCandidates, Alternatives
<1>2. DOMAIN <<f>> = {1} /\ <<f>>[1] = f
    OBVIOUS
<1> HIDE DEF f
<1> DEFINE candidates == [i \in {1} |-> {f}]
<1>3. ScopeCandidates(method, segments, query) = candidates
    BY <1>1, <1>2
<1>4. ASSUME NEW i \in {1} PROVE candidates[i] = {f}
    OBVIOUS
<1>5. DOMAIN candidates = {1}
    OBVIOUS
<1>6. SelectScopeCandidate(candidates, held) = {f}
    <2> DEFINE fits == {i \in DOMAIN candidates : candidates[i] \subseteq held}
               chosen == IF fits = {} THEN 1 ELSE CHOOSE i \in fits : \A j \in fits : i <= j
    <2>1. chosen = 1
        <3>1. CASE fits = {}
            BY <3>1
        <3>2. CASE fits # {}
            <4>1. fits = {1}
                BY <1>5, <3>2
            <4>2. \E i \in fits : \A j \in fits : i <= j
                BY <4>1
            <4>3. chosen \in fits
                BY <3>2, <4>2
            <4> QED BY <4>1, <4>3
        <3> QED BY <3>1, <3>2
    <2>2. SelectScopeCandidate(candidates, held) = candidates[chosen]
        BY DEF SelectScopeCandidate
    <2> HIDE DEF candidates, chosen
    <2> QED BY <1>4, <2>1, <2>2
<1> QED BY <1>3, <1>6 DEF RequiredScopes, f

(* If any of the acceptable scopes is held, one that is held is asked for. *)
LEMMA HeldIsChosen ==
    ASSUME NEW method, NEW segments, NEW query, NEW held,
           NEW i \in DOMAIN ScopeCandidates(method, segments, query),
           ScopeCandidates(method, segments, query)[i] \subseteq held
    PROVE  RequiredScopes(method, segments, query, held) \subseteq held
<1> DEFINE candidates == ScopeCandidates(method, segments, query)
           fits == {k \in DOMAIN candidates : candidates[k] \subseteq held}
           chosen == IF fits = {} THEN 1 ELSE CHOOSE k \in fits : \A j \in fits : k <= j
<1>1. fits \in SUBSET (1 .. 5)
    <2> DEFINE lookup == IF method = "GET" THEN LookupScopes(ResourceTail(segments), query)
                                           ELSE << >>
               names == IF lookup # << >> THEN lookup ELSE <<FamilyScope(method, segments)>>
    <2>1. DOMAIN candidates = DOMAIN names
        BY DEF ScopeCandidates, Alternatives
    <2>2. CASE lookup # << >>
        <3>1. names = LookupScopes(ResourceTail(segments), query)
            BY <2>2
        <3>2. PICK n \in 0 .. 5 : DOMAIN names = 1 .. n
            BY <3>1, LookupDomain
        <3> HIDE DEF candidates, names
        <3> QED BY <2>1, <3>2
    <2>3. CASE lookup = << >>
        <3>1. names = <<FamilyScope(method, segments)>>
            BY <2>3
        <3>2. DOMAIN names = 1 .. 1
            BY <3>1
        <3> HIDE DEF candidates, names
        <3> QED BY <2>1, <3>2
    <2> QED BY <2>2, <2>3
<1>2. i \in fits
    OBVIOUS
<1>3. RequiredScopes(method, segments, query, held) = candidates[chosen]
    BY DEF RequiredScopes, SelectScopeCandidate
<1> HIDE DEF candidates
<1>4. \E k \in fits : \A j \in fits : k <= j
    <2> HIDE DEF fits
    <2> QED BY <1>1, <1>2, FirstPosition
<1>5. chosen \in fits
    BY <1>2, <1>4
<1> QED BY <1>3, <1>5
=============================================================================
