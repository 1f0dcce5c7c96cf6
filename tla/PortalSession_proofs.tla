------------------------ MODULE PortalSession_proofs ------------------------
(***************************************************************************)
(* Proofs about PortalSession for every set of administrators, entity map, *)
(* rules and bound.                                                        *)
(***************************************************************************)
EXTENDS PortalSession, SequenceTheorems, TLAPS

-----------------------------------------------------------------------------
(* The requests on their way.                                              *)

\* What is left of a sequence without its n-th element.
LEMMA Removed ==
    ASSUME NEW S, NEW s \in Seq(S), NEW n \in 1 .. Len(s)
    PROVE  /\ RemoveAt(s, n) \in Seq(S)
           /\ Len(RemoveAt(s, n)) = Len(s) - 1
           /\ \A k \in 1 .. Len(s) - 1 :
                RemoveAt(s, n)[k] = IF k < n THEN s[k] ELSE s[k + 1]
<1> DEFINE a == SubSeq(s, 1, n - 1)
           b == SubSeq(s, n + 1, Len(s))
<1>0. Len(s) \in Nat /\ n \in Nat /\ n >= 1 /\ n <= Len(s)
  BY LenProperties
<1>1. /\ a \in Seq(S) /\ Len(a) = n - 1
      /\ \A k \in 1 .. n - 1 : a[k] = s[k]
  <2>1. \A k \in 1 .. n - 1 : s[k] \in S
    BY <1>0, ElementOfSeq
  <2>2. /\ SubSeq(s, 1, n - 1) \in Seq(S)
        /\ Len(SubSeq(s, 1, n - 1)) = IF 1 <= n - 1 THEN n - 1 - 1 + 1 ELSE 0
        /\ \A i \in 1 .. n - 1 - 1 + 1 : SubSeq(s, 1, n - 1)[i] = s[1 + i - 1]
    <3>1. 1 \in Int /\ n - 1 \in Int
      BY <1>0
    <3> QED BY <2>1, <3>1, SubSeqProperties
  <2> QED BY <1>0, <2>2
<1>2. /\ b \in Seq(S) /\ Len(b) = Len(s) - n
      /\ \A k \in 1 .. Len(s) - n : b[k] = s[n + k]
  <2>1. \A k \in n + 1 .. Len(s) : s[k] \in S
    BY <1>0, ElementOfSeq
  <2>2. /\ SubSeq(s, n + 1, Len(s)) \in Seq(S)
        /\ Len(SubSeq(s, n + 1, Len(s))) = IF n + 1 <= Len(s) THEN Len(s) - (n + 1) + 1 ELSE 0
        /\ \A i \in 1 .. Len(s) - (n + 1) + 1 :
             SubSeq(s, n + 1, Len(s))[i] = s[n + 1 + i - 1]
    <3>1. n + 1 \in Int /\ Len(s) \in Int
      BY <1>0
    <3> QED BY <2>1, <3>1, SubSeqProperties
  <2> QED BY <1>0, <2>2
<1> HIDE DEF a, b
<1>3. /\ a \o b \in Seq(S) /\ Len(a \o b) = Len(a) + Len(b)
      /\ \A i \in 1 .. Len(a) + Len(b) : (a \o b)[i] = IF i <= Len(a) THEN a[i] ELSE b[i - Len(a)]
  BY <1>1, <1>2, ConcatProperties
<1>4. RemoveAt(s, n) = a \o b
  BY DEF RemoveAt, a, b
<1>5. \A k \in 1 .. Len(s) - 1 : (a \o b)[k] = IF k < n THEN s[k] ELSE s[k + 1]
  <2> SUFFICES ASSUME NEW k \in 1 .. Len(s) - 1
               PROVE  (a \o b)[k] = IF k < n THEN s[k] ELSE s[k + 1]
    OBVIOUS
  <2>1. (a \o b)[k] = IF k <= n - 1 THEN a[k] ELSE b[k - (n - 1)]
    BY <1>0, <1>1, <1>2, <1>3
  <2>2. CASE k < n
    <3>1. k \in 1 .. n - 1
      BY <1>0, <2>2
    <3>2. a[k] = s[k]
      BY <1>1, <3>1
    <3>3. k <= n - 1
      BY <3>1, <1>0
    <3> QED BY <2>1, <2>2, <3>2, <3>3
  <2>3. CASE ~(k < n)
    <3>1. k - (n - 1) \in 1 .. Len(s) - n /\ ~(k <= n - 1) /\ n + (k - (n - 1)) = k + 1
      BY <1>0, <2>3
    <3>2. b[k - (n - 1)] = s[n + (k - (n - 1))]
      BY <1>2, <3>1
    <3> QED BY <2>1, <2>3, <3>1, <3>2
  <2> QED BY <2>2, <2>3
<1>6. Len(a \o b) = Len(s) - 1
  BY <1>0, <1>1, <1>2, <1>3
<1> QED BY <1>3, <1>4, <1>5, <1>6

\* A request or more is added behind the others.
LEMMA Requested ==
    ASSUME NEW s \in Seq(Identity), NEW who \in Identity, NEW times \in {1, 2}
    PROVE  /\ Request(s, who, times) \in Seq(Identity)
           /\ Len(Request(s, who, times)) > 0
           /\ Request(s, who, times)[Len(Request(s, who, times))] = who
<1> DEFINE t == [n \in 1 .. times |-> who]
<1>1. t \in Seq(Identity) /\ Len(t) = times
  BY SeqDef
<1>2. Len(s) \in Nat
  BY LenProperties
<1>3. \A k \in 1 .. times : t[k] = who
  OBVIOUS
<1> HIDE DEF t
<1>4. /\ s \o t \in Seq(Identity) /\ Len(s \o t) = Len(s) + Len(t)
      /\ \A i \in 1 .. Len(s) + Len(t) : (s \o t)[i] = IF i <= Len(s) THEN s[i] ELSE t[i - Len(s)]
  BY <1>1, ConcatProperties
<1>5. (s \o t)[Len(s) + times] = who
  BY <1>1, <1>2, <1>3, <1>4
<1>6. Request(s, who, times) = s \o t
  BY DEF Request, t
<1> QED BY <1>1, <1>2, <1>4, <1>5, <1>6

-----------------------------------------------------------------------------
(* What the filter makes of an entity map.                                 *)

\* Nothing in the map is above its rights in the map of the code, but for the
\* rights that the override gives.
Below(m) == \A x \in DOMAIN m : x \notin Overridden => m[x] \subseteq Base[x]

\* The routes of a profile.
Routes(who) == IF who = Nobody THEN Empty ELSE Offer(Narrowed(Base, who))

\* Routes that offer no more than a profile may see.
Fit(m, who) ==
    \A x \in DOMAIN m :
        /\ who # Nobody
        /\ x \in Offered(who)
        /\ m[x] \subseteq Rights(Base, x, who)

LEMMA MapDef ==
    ASSUME NEW m
    PROVE  m \in Map <=> \E there \in SUBSET Item : m \in [there -> SUBSET Right]
BY DEF Map

\* The map of the code and the empty one.
LEMMA Basic ==
    /\ Base \in Map /\ Below(Base)
    /\ Empty \in Map /\ \A who : Fit(Empty, who)
<1>1. Base \in [Item -> SUBSET Right]
  BY SessionAssumption
<1>2. Base \in Map /\ Below(Base)
  BY <1>1, MapDef DEF Below
<1>3. Empty \in [{} -> SUBSET Right] /\ DOMAIN Empty = {}
  BY DEF Empty
<1> QED BY <1>2, <1>3, MapDef DEF Fit

\* The rights of an item of a map are rights.
LEMMA RightsTyped ==
    ASSUME NEW m \in Map, NEW x \in DOMAIN m, NEW i \in Identity
    PROVE  x \in Item /\ Rights(m, x, i) \in SUBSET Right
<1>1. PICK there \in SUBSET Item : m \in [there -> SUBSET Right]
  BY MapDef
<1>2. x \in Item /\ m[x] \in SUBSET Right
  BY <1>1
<1>3. Override[i][x] \in SUBSET Right
  BY <1>2, SessionAssumption
<1> QED BY <1>2, <1>3 DEF Rights

\* A filter gives maps.
LEMMA FilterTyped ==
    ASSUME NEW m \in Map, NEW i \in Identity
    PROVE  Narrowed(m, i) \in Map /\ Offer(Narrowed(m, i)) \in Map
<1> DEFINE kept == {x \in Item : \A y \in Above[x] \cup {x} : Kept(m, y, i)}
           n == Narrowed(m, i)
           offered == {x \in DOMAIN n : x \in Block => \E y \in DOMAIN n : x \in Above[y]}
<1>1. \A x \in kept : x \in DOMAIN m
  BY DEF Kept
<1>2. \A x \in kept : Rights(m, x, i) \in SUBSET Right
  BY <1>1, RightsTyped
<1>3. n = [x \in kept |-> Rights(m, x, i)]
  BY DEF Narrowed
<1>4. n \in [kept -> SUBSET Right] /\ kept \in SUBSET Item
  BY <1>2, <1>3
<1> HIDE DEF kept, n
<1>5. Offer(n) = [x \in offered |-> n[x]]
  BY DEF Offer
<1>6. Offer(n) \in [offered -> SUBSET Right] /\ offered \in SUBSET Item
  BY <1>4, <1>5
<1>7. n \in Map /\ Offer(n) \in Map
  BY <1>4, <1>6, MapDef
<1> QED BY <1>7 DEF n

\* What a filter takes away stays away until the map is made afresh, and what
\* it leaves fits the profile, from whichever map it started.
LEMMA FilterFits ==
    ASSUME NEW m \in Map, Below(m), NEW i \in Identity
    PROVE  Below(Narrowed(m, i)) /\ Fit(Offer(Narrowed(m, i)), i)
<1> DEFINE allowed == {x \in Accessible[i] : i \in Restricted /\ x \notin Block =>
                          Granted[i][x] \cap (IF x \in Overridden THEN Override[i][x] ELSE Base[x]) # {}}
           kept == {x \in Item : Above[x] \cup {x} \subseteq allowed}
           left == {x \in Item : \A y \in Above[x] \cup {x} : Kept(m, y, i)}
           n == Narrowed(m, i)
<1>1. \A x : Kept(m, x, i) => x \in allowed /\ x \in DOMAIN m
                             /\ Rights(m, x, i) \subseteq Rights(Base, x, i)
  <2> SUFFICES ASSUME NEW x, Kept(m, x, i)
               PROVE  x \in allowed /\ x \in DOMAIN m
                      /\ Rights(m, x, i) \subseteq Rights(Base, x, i)
    OBVIOUS
  <2>1. x \in DOMAIN m /\ x \in Accessible[i]
        /\ (i \in Restricted /\ x \notin Block => Rights(m, x, i) # {})
    BY DEF Kept
  <2>2. x \notin Overridden => m[x] \subseteq Base[x]
    BY <2>1 DEF Below
  <2>3. Rights(m, x, i) \subseteq Rights(Base, x, i)
    BY <2>2 DEF Rights
  <2>4. i \in Restricted =>
          Rights(Base, x, i) = Granted[i][x] \cap (IF x \in Overridden THEN Override[i][x] ELSE Base[x])
    BY DEF Rights
  <2>5. x \in allowed
    BY <2>1, <2>3, <2>4
  <2> QED BY <2>1, <2>3, <2>5
<1>2. left \subseteq kept
  BY <1>1
<1>3. Offered(i) = {x \in kept : x \in Block => \E y \in kept : x \in Above[y]}
  BY DEF Offered
<1>4. n = [x \in left |-> Rights(m, x, i)]
  BY DEF Narrowed
<1>5. \A x \in left : Rights(m, x, i) \subseteq Rights(Base, x, i)
  BY <1>1
<1>6. Below(n)
  <2>1. \A x : x \notin Overridden => Rights(Base, x, i) \subseteq Base[x]
    BY DEF Rights
  <2> QED BY <1>4, <1>5, <2>1 DEF Below
<1> HIDE DEF kept, left, n, allowed
<1>7. \A x \in DOMAIN Offer(n) :
        /\ x \in left /\ Offer(n)[x] = Rights(m, x, i)
        /\ x \in Block => \E y \in left : x \in Above[y]
  BY <1>4 DEF Offer
<1>8. i # Nobody
  BY SessionAssumption
<1>9. Fit(Offer(n), i)
  BY <1>2, <1>3, <1>5, <1>7, <1>8 DEF Fit
<1> QED BY <1>6, <1>9 DEF n

\* From the map of the code a filter gives exactly what the profile may see.
LEMMA FilterOfBase ==
    ASSUME NEW i \in Identity
    PROVE  /\ DOMAIN Offer(Narrowed(Base, i)) = Offered(i)
           /\ \A x \in Offered(i) : Offer(Narrowed(Base, i))[x] = Rights(Base, x, i)
<1> DEFINE allowed == {x \in Accessible[i] : i \in Restricted /\ x \notin Block =>
                          Granted[i][x] \cap (IF x \in Overridden THEN Override[i][x] ELSE Base[x]) # {}}
           kept == {x \in Item : Above[x] \cup {x} \subseteq allowed}
           left == {x \in Item : \A y \in Above[x] \cup {x} : Kept(Base, y, i)}
           n == Narrowed(Base, i)
<1>1. DOMAIN Base = Item /\ Accessible[i] \subseteq Item
  BY SessionAssumption
<1>2. \A x : Kept(Base, x, i) <=> x \in allowed
  <2> SUFFICES ASSUME NEW x
               PROVE  Kept(Base, x, i) <=> x \in allowed
    OBVIOUS
  <2>1. i \in Restricted =>
          Rights(Base, x, i) = Granted[i][x] \cap (IF x \in Overridden THEN Override[i][x] ELSE Base[x])
    BY DEF Rights
  <2> QED BY <1>1, <2>1 DEF Kept
<1>3. left = kept
  BY <1>2
<1>4. Offered(i) = {x \in kept : x \in Block => \E y \in kept : x \in Above[y]}
  BY DEF Offered
<1>5. n = [x \in left |-> Rights(Base, x, i)]
  BY DEF Narrowed
<1> HIDE DEF kept, left, n, allowed
<1>6. /\ DOMAIN Offer(n) = {x \in kept : x \in Block => \E y \in kept : x \in Above[y]}
      /\ \A x \in DOMAIN Offer(n) : Offer(n)[x] = Rights(Base, x, i)
  BY <1>3, <1>5 DEF Offer
<1> QED BY <1>4, <1>6 DEF n

-----------------------------------------------------------------------------
(* The invariant.                                                          *)

\* A request for the profile of the token is the last one on its way, or none
\* is and its profile is there, unless an answer overtook an older one.
LastIsOwn ==
    token # Nobody /\ ~overtaken =>
        /\ Len(loads) = 0 => profile = token
        /\ Len(loads) > 0 => loads[Len(loads)] = token

\* The map has no more than that of the code, and the routes fit the profile;
\* when the fresh map was rendered they are those of the profile.
RoutesFit ==
    /\ Below(map)
    /\ Mounted => /\ Fit(filtered, profile)
                  /\ due # "both" => filtered = Routes(profile) /\ Fit(menu, profile)
                  /\ due = "no" => menu = filtered

\* An exchange that is on its way is the first one, and the address still names
\* whom to impersonate, or the second one; who has logged out waits for no first.
ExchangesEnd ==
    /\ search => asked <= 1
    /\ ~spec => ~out /\ ~exchanging
    /\ exchanging => asked = 2 \/ (asked = 1 /\ search /\ guard)
    /\ exchanging /\ out => asked = 2

Inv == TypeOK /\ LastIsOwn /\ RoutesFit /\ ExchangesEnd

LEMMA InitInv == Init => Inv
<1> SUFFICES ASSUME Init PROVE Inv
  OBVIOUS
<1> USE DEF Init
<1>1. loads \in Seq(Identity)
  BY EmptySeq
<1>2. TypeOK
  <2>1. map \in Map /\ filtered \in Map /\ menu \in Map
    BY Basic
  <2>2. given \in 0 .. MaxTokens /\ asked \in 0 .. 2 /\ pages \in 0 .. MaxPages
    BY SessionAssumption
  <2>3. /\ token \in Identity \cup {Nobody} /\ profile \in Identity \cup {Nobody}
        /\ wanted \in Identity \cup {Nobody} /\ mode \in {"target", "username"}
        /\ due \in {"both", "last", "no"}
    OBVIOUS
  <2>4. /\ spec \in BOOLEAN /\ search \in BOOLEAN /\ guard \in BOOLEAN
        /\ exchanging \in BOOLEAN /\ overtaken \in BOOLEAN
        /\ refused \in BOOLEAN /\ out \in BOOLEAN
    OBVIOUS
  <2> HIDE DEF Init
  <2> QED BY <1>1, <2>1, <2>2, <2>3, <2>4 DEF TypeOK
<1>3. LastIsOwn
  BY DEF LastIsOwn
<1>4. RoutesFit
  <2>1. Below(map)
    BY Basic
  <2>2. ~Mounted
    BY DEF Mounted
  <2> QED BY <2>1, <2>2 DEF RoutesFit
<1>5. ExchangesEnd
  BY DEF ExchangesEnd
<1> QED BY <1>2, <1>3, <1>4, <1>5 DEF Inv

\* The filter, run on a map that is below that of the code.
LEMMA Filtered ==
    ASSUME NEW m \in Map, Below(m), NEW who \in Identity \cup {Nobody}, Filter(m, who)
    PROVE  /\ map' \in Map /\ filtered' \in Map
           /\ Below(map)' /\ Fit(filtered', who)
           /\ m = Base => filtered' = Routes(who)
<1>1. CASE who = Nobody
  <2>1. filtered' = Empty /\ map' = m
    BY <1>1 DEF Filter
  <2>2. Below(map)'
    BY <2>1 DEF Below
  <2> QED BY <1>1, <2>1, <2>2, Basic DEF Routes
<1>2. CASE who # Nobody
  <2>1. map' = Narrowed(m, who) /\ filtered' = Offer(Narrowed(m, who)) /\ who \in Identity
    BY <1>2 DEF Filter
  <2>2. Below(Narrowed(m, who)) /\ Fit(Offer(Narrowed(m, who)), who)
    BY <2>1, FilterFits
  <2>3. Below(map)'
    BY <2>1, <2>2 DEF Below
  <2> QED BY <1>2, <2>1, <2>2, <2>3, FilterTyped DEF Routes
<1> QED BY <1>1, <1>2

\* The effects of AppRoutes keep the routes typed and fitting, if the profile
\* stays whenever they are told of no change.
LEMMA RoutesFollow ==
    ASSUME Inv, NEW changed \in BOOLEAN, AppRoutes(changed),
           profile' \in Identity \cup {Nobody},
           ~changed => profile' = profile
    PROVE  /\ map' \in Map /\ filtered' \in Map /\ menu' \in Map
           /\ due' \in {"both", "last", "no"}
           /\ RoutesFit'
<1>1. map \in Map /\ filtered \in Map /\ menu \in Map /\ Below(map)
      /\ due \in {"both", "last", "no"}
  BY DEF Inv, TypeOK, RoutesFit
<1>2. CASE ~Mounted'
  <2>1. map' = Base /\ filtered' = Empty /\ menu' = Empty /\ due' = "no"
    BY <1>2 DEF AppRoutes
  <2>2. Below(map)'
    BY <2>1, Basic DEF Below
  <2> QED BY <1>2, <2>1, <2>2, Basic DEF RoutesFit
<1>3. CASE Mounted' /\ ~Mounted
  <2>1. Filter(Base, profile') /\ menu' = Empty /\ due' = "both"
    BY <1>3 DEF AppRoutes
  <2>2. /\ map' \in Map /\ filtered' \in Map
        /\ Below(map)' /\ Fit(filtered', profile')
    BY <2>1, Basic, Filtered
  <2>3. Fit(filtered, profile)'
    BY <2>2 DEF Fit
  <2> QED BY <2>1, <2>2, <2>3, Basic DEF RoutesFit
<1>4. CASE Mounted' /\ Mounted /\ changed
  <2>1. PICK m \in {map, Base} : Filter(m, profile') /\ menu' \in {menu, filtered} /\ due' = "both"
    BY <1>4 DEF AppRoutes
  <2>2. m \in Map /\ Below(m)
    BY <1>1, <2>1, Basic
  <2>3. /\ map' \in Map /\ filtered' \in Map
        /\ Below(map)' /\ Fit(filtered', profile')
    BY <2>1, <2>2, Filtered
  <2>4. Fit(filtered, profile)'
    BY <2>3 DEF Fit
  <2> QED BY <1>1, <2>1, <2>3, <2>4 DEF RoutesFit
<1>5. CASE Mounted' /\ Mounted /\ ~changed
  <2>1. UNCHANGED routes /\ profile' = profile
    BY <1>5 DEF AppRoutes
  <2>2. map' = map /\ filtered' = filtered /\ menu' = menu /\ due' = due
    BY <2>1 DEF routes
  <2>3. RoutesFit'
    BY <1>5, <2>1, <2>2 DEF Inv, RoutesFit, Below, Fit
  <2> QED BY <1>1, <2>2, <2>3
<1> QED BY <1>2, <1>3, <1>4, <1>5

\* What the invariant says of the next state, but for the exchanges.
SessionFollows ==
    /\ token' \in Identity \cup {Nobody} /\ profile' \in Identity \cup {Nobody}
    /\ loads' \in Seq(Identity) /\ overtaken' \in BOOLEAN
    /\ map' \in Map /\ filtered' \in Map /\ menu' \in Map
    /\ due' \in {"both", "last", "no"}
    /\ LastIsOwn' /\ RoutesFit'

\* Another token.
LEMMA TokenFollows ==
    ASSUME Inv, NEW who \in Identity \cup {Nobody}, TokenBecomes(who)
    PROVE  SessionFollows
<1>1. token' = who /\ profile' = Nobody /\ overtaken' = FALSE /\ AppRoutes(TRUE)
  BY DEF TokenBecomes
<1>2. loads' \in Seq(Identity)
      /\ (who # Nobody => Len(loads') > 0 /\ loads'[Len(loads')] = who)
  <2>1. loads \in Seq(Identity)
    BY DEF Inv, TypeOK
  <2>2. CASE who = Nobody
    BY <2>1, <2>2 DEF TokenBecomes
  <2>3. CASE who # Nobody
    <3>1. PICK times \in {1, 2} : loads' = Request(loads, who, times)
      BY <2>3 DEF TokenBecomes
    <3> QED BY <2>1, <2>3, <3>1, Requested
  <2> QED BY <2>2, <2>3
<1>3. LastIsOwn'
  BY <1>1, <1>2 DEF LastIsOwn
<1>4. /\ map' \in Map /\ filtered' \in Map /\ menu' \in Map
      /\ due' \in {"both", "last", "no"} /\ RoutesFit'
  BY <1>1, RoutesFollow
<1> QED BY <1>1, <1>2, <1>3, <1>4 DEF SessionFollows

\* The page is opened.
LEMMA OpenFollows ==
    ASSUME Inv, NEW who \in Identity \cup {Nobody}, NEW how, Open(who, how)
    PROVE  SessionFollows
<1>1. token' = token /\ profile' = Nobody /\ overtaken' = FALSE /\ AppRoutes(TRUE)
      /\ loads' = IF token = Nobody THEN <<>> ELSE <<token>>
  BY DEF Open
<1>2. token \in Identity \cup {Nobody}
  BY DEF Inv, TypeOK
<1>3. loads' \in Seq(Identity) /\ LastIsOwn'
  <2>1. CASE token = Nobody
    BY <1>1, <2>1, EmptySeq DEF LastIsOwn
  <2>2. CASE token # Nobody
    <3>1. loads' = <<token>> /\ token \in Identity
      BY <1>1, <1>2, <2>2
    <3>2. loads' \in Seq(Identity) /\ Len(loads') = 1 /\ loads'[1] = token
      BY <3>1
    <3> QED BY <1>1, <3>2 DEF LastIsOwn
  <2> QED BY <2>1, <2>2
<1>4. /\ map' \in Map /\ filtered' \in Map /\ menu' \in Map
      /\ due' \in {"both", "last", "no"} /\ RoutesFit'
  BY <1>1, RoutesFollow
<1> QED BY <1>1, <1>2, <1>3, <1>4 DEF SessionFollows

\* The API definition arrives.
LEMMA SpecFollows ==
    ASSUME Inv, LoadSpec
    PROVE  SessionFollows
<1>1. /\ token' = token /\ profile' = profile /\ overtaken' = overtaken /\ AppRoutes(FALSE)
      /\ loads' = IF search /\ mode = "username" /\ token # Nobody /\ profile = Nobody
                  THEN Request(loads, token, 1) ELSE loads
  BY DEF LoadSpec
<1>2. /\ token \in Identity \cup {Nobody} /\ profile \in Identity \cup {Nobody}
      /\ loads \in Seq(Identity) /\ overtaken \in BOOLEAN /\ LastIsOwn
  BY DEF Inv, TypeOK
<1>3. loads' \in Seq(Identity) /\ LastIsOwn'
  <2>1. CASE loads' = loads
    BY <1>1, <1>2, <2>1 DEF LastIsOwn
  <2>2. CASE loads' = Request(loads, token, 1) /\ token # Nobody
    <3>1. loads' \in Seq(Identity) /\ Len(loads') > 0 /\ loads'[Len(loads')] = token
      BY <1>2, <2>2, Requested
    <3> QED BY <1>1, <3>1 DEF LastIsOwn
  <2> QED BY <1>1, <2>1, <2>2
<1>4. /\ map' \in Map /\ filtered' \in Map /\ menu' \in Map
      /\ due' \in {"both", "last", "no"} /\ RoutesFit'
  BY <1>1, <1>2, RoutesFollow
<1> QED BY <1>1, <1>2, <1>3, <1>4 DEF SessionFollows

\* A profile arrives: unless it overtook another one, those asked for before
\* are of the same administrator, and the last one is still that of the token.
LEMMA ProfileFollows ==
    ASSUME Inv, NEW n \in 1 .. Len(loads), LoadProfile(n)
    PROVE  SessionFollows
<1>1. /\ token' = token /\ profile' = loads[n] /\ loads' = RemoveAt(loads, n)
      /\ overtaken' = (overtaken \/ \E k \in 1 .. n - 1 : loads[k] # loads[n])
      /\ AppRoutes(TRUE)
  BY DEF LoadProfile
<1>2. /\ token \in Identity \cup {Nobody} /\ loads \in Seq(Identity)
      /\ overtaken \in BOOLEAN /\ LastIsOwn
  BY DEF Inv, TypeOK
<1>3. /\ loads' \in Seq(Identity) /\ Len(loads') = Len(loads) - 1
      /\ \A k \in 1 .. Len(loads) - 1 : loads'[k] = IF k < n THEN loads[k] ELSE loads[k + 1]
  BY <1>1, <1>2, Removed
<1>4. profile' \in Identity /\ overtaken' \in BOOLEAN
  BY <1>1, <1>2, ElementOfSeq
<1>5. LastIsOwn'
  <2> SUFFICES ASSUME token' # Nobody, ~overtaken'
               PROVE  /\ Len(loads') = 0 => profile' = token'
                      /\ Len(loads') > 0 => loads'[Len(loads')] = token'
    BY DEF LastIsOwn
  <2>1. Len(loads) \in Nat /\ n \in Nat /\ 1 <= n /\ n <= Len(loads)
    BY <1>2, LenProperties
  <2>2. loads[Len(loads)] = token
    BY <1>1, <1>2, <2>1 DEF LastIsOwn
  <2>3. \A k \in 1 .. n - 1 : loads[k] = loads[n]
    BY <1>1
  <2>4. CASE n < Len(loads)
    BY <1>1, <1>3, <2>1, <2>2, <2>4
  <2>5. CASE n = Len(loads)
    <3>1. \A k \in 1 .. Len(loads) - 1 : loads'[k] = token
      BY <1>3, <2>1, <2>2, <2>3, <2>5
    <3> QED BY <1>1, <1>3, <2>1, <2>2, <2>5, <3>1
  <2> QED BY <2>1, <2>4, <2>5
<1>6. /\ map' \in Map /\ filtered' \in Map /\ menu' \in Map
      /\ due' \in {"both", "last", "no"} /\ RoutesFit'
  BY <1>1, <1>4, RoutesFollow
<1> QED BY <1>1, <1>2, <1>3, <1>4, <1>5, <1>6 DEF SessionFollows

\* A failure leaves no token.
LEMMA FailureFollows ==
    ASSUME Inv, NEW n \in 1 .. Len(loads), LoadProfileFails(n)
    PROVE  SessionFollows
<1>1. loads \in Seq(Identity) /\ profile \in Identity \cup {Nobody} /\ overtaken \in BOOLEAN
      /\ map \in Map /\ filtered \in Map /\ menu \in Map /\ due \in {"both", "last", "no"}
  BY DEF Inv, TypeOK
<1>2. loads' = RemoveAt(loads, n) /\ spec' = spec
  BY DEF LoadProfileFails
<1>3. loads' \in Seq(Identity)
  BY <1>1, <1>2, Removed
<1>4. CASE token = Nobody
  <2>1. /\ token' = token /\ profile' = profile /\ guard' = guard /\ overtaken' = overtaken
        /\ map' = map /\ filtered' = filtered /\ menu' = menu /\ due' = due
    BY <1>4 DEF LoadProfileFails, routes
  <2>2. RoutesFit'
    BY <1>4, <2>1 DEF Inv, RoutesFit, Below, Mounted
  <2>3. LastIsOwn'
    BY <1>4, <2>1 DEF LastIsOwn
  <2> QED BY <1>1, <1>3, <1>4, <2>1, <2>2, <2>3 DEF SessionFollows
<1>5. CASE token # Nobody
  <2>1. token' = Nobody /\ profile' = Nobody /\ overtaken' = FALSE /\ AppRoutes(TRUE)
    BY <1>5 DEF LoadProfileFails
  <2>2. LastIsOwn'
    BY <2>1 DEF LastIsOwn
  <2>3. /\ map' \in Map /\ filtered' \in Map /\ menu' \in Map
        /\ due' \in {"both", "last", "no"} /\ RoutesFit'
    BY <2>1, RoutesFollow
  <2> QED BY <1>3, <2>1, <2>2, <2>3 DEF SessionFollows
<1> QED BY <1>4, <1>5

\* A render takes the fresh map, or only the routes.
LEMMA RenderFollows ==
    ASSUME Inv, RenderMap \/ RenderMenu
    PROVE  SessionFollows
<1>1. /\ token' = token /\ profile' = profile /\ loads' = loads
      /\ spec' = spec /\ guard' = guard /\ overtaken' = overtaken
  BY DEF RenderMap, RenderMenu, session, page, history
<1>2. /\ token \in Identity \cup {Nobody} /\ profile \in Identity \cup {Nobody}
      /\ loads \in Seq(Identity) /\ overtaken \in BOOLEAN
      /\ map \in Map /\ filtered \in Map
      /\ LastIsOwn /\ RoutesFit
  BY DEF Inv, TypeOK
<1>3. LastIsOwn'
  BY <1>1, <1>2 DEF LastIsOwn
<1>4. Mounted' <=> Mounted
  BY <1>1 DEF Mounted
<1>5. CASE RenderMap
  <2>1. /\ due = "both" /\ menu' = filtered /\ due' = "last" /\ Filter(Base, profile)
    BY <1>5 DEF RenderMap
  <2>2. /\ map' \in Map /\ filtered' \in Map
        /\ Below(map)' /\ Fit(filtered', profile)
        /\ filtered' = Routes(profile)
    BY <1>2, <2>1, Basic, Filtered
  <2>3. Fit(filtered, profile)'
    BY <1>1, <2>2 DEF Fit
  <2>4. Mounted => Fit(menu, profile)'
    BY <1>1, <1>2, <2>1 DEF RoutesFit, Fit
  <2>5. Routes(profile)' = Routes(profile)
    BY <1>1 DEF Routes
  <2>6. RoutesFit'
    BY <1>4, <2>1, <2>2, <2>3, <2>4, <2>5 DEF RoutesFit
  <2> QED BY <1>1, <1>2, <1>3, <2>1, <2>2, <2>6 DEF SessionFollows
<1>6. CASE RenderMenu
  <2>1. /\ due = "last" /\ menu' = filtered /\ due' = "no"
        /\ map' = map /\ filtered' = filtered
    BY <1>6 DEF RenderMenu
  <2>2. Below(map)'
    BY <1>2, <2>1 DEF RoutesFit, Below
  <2>3. Mounted => Fit(filtered, profile)' /\ Fit(menu, profile)'
    BY <1>1, <1>2, <2>1 DEF RoutesFit, Fit
  <2>4. Routes(profile)' = Routes(profile)
    BY <1>1 DEF Routes
  <2>5. RoutesFit'
    BY <1>2, <1>4, <2>1, <2>2, <2>3, <2>4 DEF RoutesFit
  <2> QED BY <1>1, <1>2, <1>3, <2>1, <2>5 DEF SessionFollows
<1> QED BY <1>5, <1>6

\* What the page and its history may be.
PageTyped ==
    /\ given \in 0 .. MaxTokens /\ asked \in 0 .. 2 /\ pages \in 0 .. MaxPages
    /\ wanted \in Identity \cup {Nobody} /\ mode \in {"target", "username"}
    /\ spec \in BOOLEAN /\ search \in BOOLEAN /\ guard \in BOOLEAN
    /\ exchanging \in BOOLEAN /\ refused \in BOOLEAN /\ out \in BOOLEAN

LEMMA Together ==
    ASSUME SessionFollows, PageTyped', ExchangesEnd'
    PROVE  Inv'
BY DEF SessionFollows, PageTyped, Inv, TypeOK

\* Every step keeps the invariant.
LEMMA NextInv == Inv /\ [Next]_vars => Inv'
<1> SUFFICES ASSUME Inv, [Next]_vars PROVE Inv'
  OBVIOUS
<1>1. PageTyped /\ ExchangesEnd
  BY DEF Inv, TypeOK, PageTyped
<1>0. /\ given < MaxTokens => given + 1 \in 0 .. MaxTokens
      /\ pages < MaxPages => pages + 1 \in 0 .. MaxPages
  BY <1>1, SessionAssumption DEF PageTyped
<1>2. ASSUME NEW n \in 1 .. Len(loads), LoadProfile(n)
      PROVE  Inv'
  <2>1. SessionFollows
    BY <1>2, ProfileFollows
  <2>2. PageTyped'
    BY <1>1, <1>2 DEF LoadProfile, PageTyped
  <2>3. ExchangesEnd'
    BY <1>1, <1>2 DEF LoadProfile, ExchangesEnd
  <2> QED BY <2>1, <2>2, <2>3, Together
<1>3. ASSUME NEW n \in 1 .. Len(loads), LoadProfileFails(n)
      PROVE  Inv'
  <2>1. SessionFollows
    BY <1>3, FailureFollows
  <2>2. guard' \in {guard, spec /\ search}
    BY <1>3 DEF LoadProfileFails
  <2>3. PageTyped'
    BY <1>1, <1>3, <2>2 DEF LoadProfileFails, PageTyped
  <2>4. ExchangesEnd'
    BY <1>1, <1>3, <2>2 DEF LoadProfileFails, ExchangesEnd
  <2> QED BY <2>1, <2>3, <2>4, Together
<1>4. ASSUME NEW again \in BOOLEAN, ExchangeToken(again)
      PROVE  Inv'
  <2>1. wanted \in Identity \cup {Nobody}
    BY <1>1 DEF PageTyped
  <2>2. SessionFollows
    BY <1>4, <2>1, TokenFollows DEF ExchangeToken
  <2>3. again => asked = 1
    BY <1>1, <1>4 DEF ExchangeToken, ExchangesEnd
  <2>4. PageTyped'
    <3>1. given' \in 0 .. MaxTokens /\ asked' \in 0 .. 2 /\ pages' \in 0 .. MaxPages
      BY <1>0, <1>1, <1>4, <2>3 DEF ExchangeToken, PageTyped
    <3>2. /\ wanted' \in Identity \cup {Nobody} /\ mode' \in {"target", "username"}
          /\ spec' \in BOOLEAN /\ search' \in BOOLEAN /\ guard' \in BOOLEAN
          /\ exchanging' \in BOOLEAN /\ refused' \in BOOLEAN /\ out' \in BOOLEAN
      BY <1>1, <1>4, Zenon DEF ExchangeToken, PageTyped
    <3> QED BY <3>1, <3>2 DEF PageTyped
  <2>5. ExchangesEnd'
    BY <1>1, <1>4, <2>3 DEF ExchangeToken, ExchangesEnd
  <2> QED BY <2>2, <2>4, <2>5, Together
<1>5. CASE RefuseExchange
  <2>1. SessionFollows
    <3>1. /\ token' = token /\ profile' = profile /\ loads' = loads /\ overtaken' = overtaken
          /\ map' = map /\ filtered' = filtered /\ menu' = menu /\ due' = due
          /\ spec' = spec /\ guard' = guard
      BY <1>5 DEF RefuseExchange, session, routes
    <3>2. LastIsOwn'
      BY <3>1 DEF Inv, LastIsOwn
    <3>3. RoutesFit'
      BY <3>1 DEF Inv, RoutesFit, Below, Fit, Routes, Mounted
    <3> QED BY <3>1, <3>2, <3>3 DEF Inv, TypeOK, SessionFollows
  <2>2. PageTyped'
    BY <1>1, <1>5 DEF RefuseExchange, session, PageTyped
  <2>3. ExchangesEnd'
    BY <1>1, <1>5 DEF RefuseExchange, session, ExchangesEnd
  <2> QED BY <2>1, <2>2, <2>3, Together
<1>6. CASE LoadSpec
  <2>1. SessionFollows
    BY <1>6, SpecFollows
  <2>2. PageTyped'
    BY <1>1, <1>6 DEF LoadSpec, PageTyped
  <2>3. ExchangesEnd'
    BY <1>1, <1>6 DEF LoadSpec, ExchangesEnd
  <2> QED BY <2>1, <2>2, <2>3, Together
<1>7. CASE RenderMap \/ RenderMenu
  <2>1. SessionFollows
    BY <1>7, RenderFollows
  <2>2. PageTyped' /\ ExchangesEnd'
    BY <1>1, <1>7 DEF RenderMap, RenderMenu, session, page, history, PageTyped, ExchangesEnd
  <2> QED BY <2>1, <2>2, Together
<1>8. ASSUME NEW who \in Identity \cup {Nobody}, NEW how \in {"target", "username"}, Open(who, how)
      PROVE  Inv'
  <2>1. SessionFollows
    BY <1>8, OpenFollows
  <2>2. PageTyped'
    <3>1. given' \in 0 .. MaxTokens /\ asked' \in 0 .. 2 /\ pages' \in 0 .. MaxPages
      BY <1>0, <1>1, <1>8 DEF Open, PageTyped
    <3>2. /\ wanted' \in Identity \cup {Nobody} /\ mode' \in {"target", "username"}
          /\ spec' \in BOOLEAN /\ search' \in BOOLEAN /\ guard' \in BOOLEAN
          /\ exchanging' \in BOOLEAN /\ refused' \in BOOLEAN /\ out' \in BOOLEAN
      BY <1>8, Zenon DEF Open
    <3> QED BY <3>1, <3>2 DEF PageTyped
  <2>3. ExchangesEnd'
    BY <1>8 DEF Open, ExchangesEnd
  <2> QED BY <2>1, <2>2, <2>3, Together
<1>9. ASSUME NEW who \in Identity, LogIn(who)
      PROVE  Inv'
  <2>1. SessionFollows
    BY <1>9, TokenFollows DEF LogIn
  <2>2. PageTyped'
    BY <1>0, <1>1, <1>9 DEF LogIn, PageTyped
  <2>3. ExchangesEnd'
    BY <1>1, <1>9 DEF LogIn, ExchangesEnd
  <2> QED BY <2>1, <2>2, <2>3, Together
<1>10. CASE LogOut
  <2>1. SessionFollows
    BY <1>10, TokenFollows DEF LogOut
  <2>2. PageTyped'
    BY <1>1, <1>10 DEF LogOut, PageTyped
  <2>3. ExchangesEnd'
    BY <1>1, <1>10 DEF LogOut, Mounted, ExchangesEnd
  <2> QED BY <2>1, <2>2, <2>3, Together
<1>11. CASE UNCHANGED vars
  BY <1>11 DEF vars, session, page, routes, history, Inv, TypeOK, LastIsOwn, RoutesFit,
               ExchangesEnd, Below, Fit, Routes, Mounted
<1> QED BY <1>2, <1>3, <1>4, <1>5, <1>6, <1>7, <1>8, <1>9, <1>10, <1>11 DEF Next, Answer

LEMMA Always == Spec => []Inv
BY InitInv, NextInv, PTL DEF Spec

-----------------------------------------------------------------------------
(* Theorems.                                                               *)

\* Every reachable state of a tab is well typed: at most two exchanges are
\* asked for by one page.
THEOREM TypeCorrect == Spec => []TypeOK
<1>1. Inv => TypeOK
  BY DEF Inv
<1> QED BY <1>1, Always, PTL

\* The profile of a tab that rests is its token's, for any number of
\* administrators, pages, logins, impersonations and late answers.
THEOREM OwnProfile == Spec => []ProfileIsOwn
<1>1. Inv => ProfileIsOwn
  <2> SUFFICES ASSUME Inv, token # Nobody, loads = <<>>, ~overtaken
               PROVE  profile = token
    BY DEF ProfileIsOwn
  <2>1. Len(loads) = 0
    BY EmptySeq
  <2> QED BY <2>1 DEF Inv, LastIsOwn
<1> QED BY <1>1, Always, PTL

\* The menu at rest offers exactly what its profile may see, and never more on the
\* way there, for any entity map and any rules, whatever the filters of other
\* profiles did before.
THEOREM OwnMenu == Spec => []MenuIsItsProfiles
<1>1. Inv => MenuIsItsProfiles
  <2> SUFFICES ASSUME Inv, Mounted PROVE MenuIsItsProfiles
    BY DEF MenuIsItsProfiles
  <2>1. ASSUME due = "no", profile # Nobody
        PROVE  /\ DOMAIN menu = Offered(profile)
               /\ \A x \in Offered(profile) : menu[x] = Rights(Base, x, profile)
    <3>1. menu = Offer(Narrowed(Base, profile))
      BY <2>1 DEF Inv, RoutesFit, Routes
    <3>2. profile \in Identity
      BY <2>1 DEF Inv, TypeOK
    <3> QED BY <3>1, <3>2, FilterOfBase
  <2>2. ASSUME due # "both", NEW x \in DOMAIN menu
        PROVE  profile # Nobody /\ x \in Offered(profile)
               /\ menu[x] \subseteq Rights(Base, x, profile)
    <3>1. Fit(menu, profile)
      BY <2>2 DEF Inv, RoutesFit
    <3> QED BY <2>2, <3>1 DEF Fit
  <2> QED BY <2>1, <2>2 DEF MenuIsItsProfiles
<1> QED BY <1>1, Always, PTL

\* A logout is only undone by a login, or by the second token of a page that
\* was opened to impersonate.
THEOREM LogoutsLast == Spec => LogoutLasts
<1>1. Inv /\ [Next]_vars => [out /\ token = Nobody /\ token' # Nobody => ~out' \/ asked = 2]_vars
  <2> SUFFICES ASSUME Inv, Next, out, token = Nobody, token' # Nobody
               PROVE  ~out' \/ asked = 2
    OBVIOUS
  <2>1. ASSUME NEW n \in 1 .. Len(loads), LoadProfile(n) \/ LoadProfileFails(n)
        PROVE  FALSE
    BY <2>1 DEF LoadProfile, LoadProfileFails
  <2>2. ASSUME NEW again \in BOOLEAN, ExchangeToken(again)
        PROVE  asked = 2
    BY <2>2 DEF ExchangeToken, Inv, ExchangesEnd
  <2>3. ASSUME NEW who \in Identity \cup {Nobody}, NEW how, Open(who, how)
        PROVE  FALSE
    BY <2>3 DEF Open
  <2>4. ASSUME NEW who \in Identity, LogIn(who)
        PROVE  ~out'
    BY <2>4 DEF LogIn
  <2>5. CASE RefuseExchange \/ LoadSpec \/ RenderMap \/ RenderMenu
    BY <2>5 DEF RefuseExchange, LoadSpec, RenderMap, RenderMenu, session
  <2>6. CASE LogOut
    BY <2>6 DEF LogOut, TokenBecomes
  <2> QED BY <2>1, <2>2, <2>3, <2>4, <2>5, <2>6 DEF Next, Answer
<1> QED BY <1>1, Always, PTL DEF Spec, LogoutLasts

=============================================================================
