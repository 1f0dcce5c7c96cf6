---------------------------- MODULE PortalSession ----------------------------
(***************************************************************************)
(* A tab of the client portal: whose token it holds, whose profile it has  *)
(* loaded, and which entities its menu offers.  Administrators log in and  *)
(* out, reload the page, and are impersonated in the same tab, while       *)
(* answers to requests of an earlier token are on their way.  The brand    *)
(* portal is alike but for the overridden permissions; that of the         *)
(* platform has no impersonation.                                          *)
(*                                                                         *)
(* React takes the store for an external one: what changes in it is        *)
(* rendered, and the effects run, before another answer or click is        *)
(* handled, so an action is a handler with the effects that follow it.     *)
(* The entity map is local state of a hook, and is rendered later.         *)
(***************************************************************************)
EXTENDS Naturals, Sequences, SequencesExt

CONSTANTS
    Identity,       \* administrators
    Nobody,         \* no token, no profile, no impersonation
    Item,           \* items of the entity map
    Above,          \* the items an item is nested in
    Block,          \* top items that only group others
    Right,          \* what may be done with an entity
    Base,           \* the rights of an item before any filter
    Overridden,     \* items with an aclOverride
    Override,       \* the rights it gives, by identity
    Accessible,     \* the items that isAccessible lets an identity see
    Restricted,     \* identities that have only the rights of their rules
    Granted,        \* the rights their rules give
    MaxTokens,      \* bound: tokens given
    MaxPages        \* bound: pages opened

ASSUME SessionAssumption ==
    /\ Nobody \notin Identity
    /\ Above \in [Item -> SUBSET Item]
    /\ Block \subseteq Item /\ Overridden \subseteq Item
    /\ Base \in [Item -> SUBSET Right]
    /\ Override \in [Identity -> [Item -> SUBSET Right]]
    /\ Accessible \in [Identity -> SUBSET Item]
    \* what is nested in an entity has no isAccessible and no aclOverride
    /\ \A x \in Item :
         \/ Above[x] \subseteq Block
         \/ /\ x \notin Overridden
            /\ \A i \in Identity : x \in Accessible[i]
    /\ Restricted \subseteq Identity
    /\ Granted \in [Identity -> [Item -> SUBSET Right]]
    /\ MaxTokens \in Nat /\ MaxPages \in Nat

VARIABLES
    token,      \* whose token the tab has, in the session storage too
    given,      \* tokens given so far
    profile,    \* whose profile it has
    loads,      \* requests for a profile on their way, oldest first: whose
    spec,       \* whether the API definition has been loaded
    wanted,     \* whom the page was opened to impersonate
    mode,       \* named by a client ("target") or by a name ("username")
    search,     \* whether the address still says so
    guard,      \* whether AppRoutesGuard has seen it there
    exchanging, \* whether a token exchange is on its way
    map,        \* the entity map of useEntityMap, which the filter changes in place
    filtered,   \* the routes the filter has set last
    menu,       \* the routes on the screen
    due,        \* renders of the menu still to come: "both", "last" or "no"
    overtaken,  \* history: since the token was set an answer overtook an older one
    asked,      \* history: exchanges asked for since the page was opened
    refused,    \* history: one of them was refused
    out,        \* history: the user of the page has logged out and not in again
    pages

session == <<token, given, profile, loads>>
page == <<spec, wanted, mode, search, guard, exchanging>>
routes == <<map, filtered, menu, due>>
history == <<overtaken, asked, refused, out, pages>>
vars == <<session, page, routes, history>>

\* The items that are there, and their rights.
Map == UNION {[there -> SUBSET Right] : there \in SUBSET Item}
Empty == [x \in {} |-> {}]

TypeOK ==
    /\ token \in Identity \cup {Nobody}
    /\ given \in 0 .. MaxTokens
    /\ profile \in Identity \cup {Nobody}
    /\ loads \in Seq(Identity)
    /\ spec \in BOOLEAN
    /\ wanted \in Identity \cup {Nobody} /\ mode \in {"target", "username"}
    /\ search \in BOOLEAN /\ guard \in BOOLEAN /\ exchanging \in BOOLEAN
    /\ map \in Map /\ filtered \in Map /\ menu \in Map
    /\ due \in {"both", "last", "no"}
    /\ overtaken \in BOOLEAN /\ refused \in BOOLEAN /\ out \in BOOLEAN
    /\ asked \in 0 .. 2 /\ pages \in 0 .. MaxPages

Init ==
    /\ token = Nobody /\ given = 0 /\ profile = Nobody /\ loads = <<>>
    /\ spec = FALSE /\ wanted = Nobody /\ mode = "target"
    /\ search = FALSE /\ guard = FALSE /\ exchanging = FALSE
    /\ map = Base /\ filtered = Empty /\ menu = Empty /\ due = "no"
    /\ overtaken = FALSE /\ asked = 0 /\ refused = FALSE /\ out = FALSE /\ pages = 0

-----------------------------------------------------------------------------
(* The menu.                                                               *)

\* The rights of an item after its rules; an override starts afresh.
Rights(m, x, i) ==
    LET own == IF x \in Overridden THEN Override[i][x] ELSE m[x] IN
    IF i \in Restricted THEN own \cap Granted[i][x] ELSE own

Kept(m, x, i) ==
    /\ x \in DOMAIN m /\ x \in Accessible[i]
    /\ i \in Restricted /\ x \notin Block => Rights(m, x, i) # {}

\* The map after a filter: an item goes with those it is nested in.
Narrowed(m, i) ==
    [x \in {x \in Item : \A y \in Above[x] \cup {x} : Kept(m, y, i)} |-> Rights(m, x, i)]

\* The routes: a group of which all items are gone is left out.
Offer(m) ==
    [x \in {x \in DOMAIN m : x \in Block => \E y \in DOMAIN m : x \in Above[y]} |-> m[x]]

\* The effect of useAclFilteredEntityMap, for a map and a profile.
Filter(m, who) ==
    IF who = Nobody THEN filtered' = Empty /\ map' = m
    ELSE map' = Narrowed(m, who) /\ filtered' = Offer(Narrowed(m, who))

\* Mutant: AppRoutesGuard only looks at the login.
MountedAnyway == spec /\ token # Nobody

Mounted == spec /\ token # Nobody /\ ~guard

\* AppRoutes is mounted or not, and its effects follow a change of the
\* profile: they filter the map of before, while a fresh one is on its way.
\* A render that was due may have been done with that of the change.
AppRoutes(changed) ==
    CASE ~Mounted' -> map' = Base /\ filtered' = Empty /\ menu' = Empty /\ due' = "no"
      [] Mounted' /\ ~Mounted -> Filter(Base, profile') /\ menu' = Empty /\ due' = "both"
      [] Mounted' /\ Mounted /\ changed ->
           /\ due' = "both"
           /\ \/ Filter(map, profile') /\ menu' = menu
              \/ Filter(IF due = "both" THEN Base ELSE map, profile') /\ menu' = filtered
      [] OTHER -> UNCHANGED routes

\* Mutant: the entity map is not made afresh for another profile.
RenderMapOnce ==
    /\ due = "both"
    /\ menu' = filtered /\ Filter(map, profile) /\ due' = "last"
    /\ UNCHANGED <<session, page, history>>

\* Mutant: every render makes the entity map afresh.
RenderMapAgain ==
    /\ due = "both"
    /\ menu' = filtered /\ Filter(Base, profile) /\ due' = "both"
    /\ UNCHANGED <<session, page, history>>

\* The render after them takes the fresh map, and the filter runs on it.
RenderMap ==
    /\ due = "both"
    /\ menu' = filtered /\ Filter(Base, profile) /\ due' = "last"
    /\ UNCHANGED <<session, page, history>>

RenderMenu ==
    /\ due = "last"
    /\ menu' = filtered /\ due' = "no"
    /\ UNCHANGED <<session, page, map, filtered, history>>

-----------------------------------------------------------------------------
(* The token and the profile.                                              *)

\* loadProfile, once or by each of several effects.
Request(queue, who, times) == queue \o [n \in 1 .. times |-> who]

\* Mutant: the profile is asked for when there is none, and not dropped.
TokenBecomesOnly(who) ==
    /\ token' = who
    /\ profile' = IF who = Nobody THEN Nobody ELSE profile
    /\ loads' = IF who = Nobody \/ profile # Nobody THEN loads ELSE Request(loads, who, 1)
    /\ overtaken' = FALSE
    /\ AppRoutes(TRUE)

\* App: with another token the profile is dropped, and asked for again.  The
\* second effect of Login asks too, when an administrator is impersonated by
\* name and it sees the login or the loss of the profile.
TokenBecomes(who) ==
    /\ token' = who
    /\ profile' = Nobody
    /\ loads' =
         IF who = Nobody THEN loads
         ELSE LET login == /\ guard' /\ mode = "username"
                           /\ token = Nobody \/ profile # Nobody
              IN Request(loads, who, IF login THEN 2 ELSE 1)
    /\ overtaken' = FALSE
    /\ AppRoutes(TRUE)

\* The page is opened or reloaded; its address may name someone to impersonate.
Open(who, how) ==
    /\ pages < MaxPages
    /\ pages' = pages + 1
    /\ wanted' = who /\ mode' = how /\ search' = (who # Nobody)
    /\ spec' = FALSE /\ guard' = FALSE /\ exchanging' = FALSE
    /\ token' = token /\ profile' = Nobody
    /\ loads' = IF token = Nobody THEN <<>> ELSE <<token>>
    /\ overtaken' = FALSE /\ asked' = 0 /\ refused' = FALSE /\ out' = FALSE
    /\ AppRoutes(TRUE)
    /\ UNCHANGED given

\* The API definition arrives and the guard is mounted: Login, which exchanges
\* the token if there is someone to impersonate, or the routes.
LoadSpec ==
    /\ pages > 0 /\ ~spec
    /\ spec' = TRUE
    /\ guard' = search /\ exchanging' = search
    /\ asked' = IF search THEN 1 ELSE 0
    /\ loads' = IF search /\ mode = "username" /\ token # Nobody /\ profile = Nobody
                THEN Request(loads, token, 1) ELSE loads
    /\ UNCHANGED <<token, profile>>
    /\ AppRoutes(FALSE)
    /\ UNCHANGED <<given, wanted, mode, search, overtaken, refused, out, pages>>

\* The login form, which an impersonation by client does not show.
LogIn(who) ==
    /\ spec /\ token = Nobody /\ given < MaxTokens
    /\ guard => mode = "username"
    /\ given' = given + 1
    /\ guard' = search
    /\ out' = FALSE
    /\ UNCHANGED <<spec, wanted, mode, search, exchanging, asked, refused, pages>>
    /\ TokenBecomes(who)

LogOut ==
    /\ Mounted
    /\ guard' = search
    /\ out' = TRUE
    /\ UNCHANGED <<given, spec, wanted, mode, search, exchanging, asked, refused, pages>>
    /\ TokenBecomes(Nobody)

\* Mutant: Login changes the path and leaves the names in the address.
ExchangeTokenNamed(again) ==
    /\ exchanging /\ given < MaxTokens
    /\ again => guard /\ search
    /\ given' = given + 1
    /\ search' = search
    /\ guard' = again /\ exchanging' = again
    /\ asked' = IF again THEN asked + 1 ELSE asked
    /\ UNCHANGED <<spec, wanted, mode, refused, out, pages>>
    /\ TokenBecomes(wanted)

\* A token of the impersonated one.  Login then takes the names from the
\* address, and changes the path, on which its effect depends: if the token was
\* rendered before, Login is still there and asks for a second one.
ExchangeToken(again) ==
    /\ exchanging /\ given < MaxTokens
    /\ again => guard /\ search
    /\ given' = given + 1
    /\ search' = FALSE
    /\ guard' = again /\ exchanging' = again
    /\ asked' = IF again THEN asked + 1 ELSE asked
    /\ UNCHANGED <<spec, wanted, mode, refused, out, pages>>
    /\ TokenBecomes(wanted)

\* The page stays blank, or shows the login form.
RefuseExchange ==
    /\ exchanging
    /\ exchanging' = FALSE /\ refused' = TRUE
    /\ UNCHANGED <<session, spec, wanted, mode, search, guard, routes, overtaken, asked, out, pages>>

\* A profile arrives, be it that of an earlier token.
LoadProfile(n) ==
    /\ profile' = loads[n]
    /\ loads' = RemoveAt(loads, n)
    /\ overtaken' = (overtaken \/ \E k \in 1 .. n - 1 : loads[k] # loads[n])
    /\ guard' = (spec /\ search)
    /\ UNCHANGED <<token, given, spec, wanted, mode, search, exchanging, asked, refused, out, pages>>
    /\ AppRoutes(TRUE)

\* A failure takes the token away, be it a later one.
LoadProfileFails(n) ==
    /\ loads' = RemoveAt(loads, n)
    /\ UNCHANGED <<given, spec, wanted, mode, search, exchanging, asked, refused, out, pages>>
    /\ IF token = Nobody
       THEN UNCHANGED <<token, profile, guard, overtaken, routes>>
       ELSE /\ token' = Nobody /\ profile' = Nobody /\ overtaken' = FALSE
            /\ guard' = (spec /\ search)
            /\ AppRoutes(TRUE)

-----------------------------------------------------------------------------
Answer ==
    \/ \E n \in 1 .. Len(loads) : LoadProfile(n) \/ LoadProfileFails(n)
    \/ \E again \in BOOLEAN : ExchangeToken(again)
    \/ RefuseExchange
    \/ LoadSpec

Next ==
    \/ Answer \/ RenderMap \/ RenderMenu
    \/ \E who \in Identity \cup {Nobody}, how \in {"target", "username"} : Open(who, how)
    \/ \E who \in Identity : LogIn(who)
    \/ LogOut

Spec == Init /\ [][Next]_vars

\* Each request is answered in the end, and React renders what it is told to.
FairSpec ==
    /\ Spec
    /\ WF_vars(RenderMap) /\ WF_vars(RenderMenu)
    /\ WF_vars(LoadSpec) /\ WF_vars(RefuseExchange \/ \E again \in BOOLEAN : ExchangeToken(again))
    /\ WF_vars(\E n \in 1 .. Len(loads) : LoadProfile(n) \/ LoadProfileFails(n))

-----------------------------------------------------------------------------
(* Properties.                                                             *)

\* What the entity map promises an administrator, whoever came before.
Offered(i) ==
    LET allowed == {x \in Accessible[i] : i \in Restricted /\ x \notin Block =>
                        Granted[i][x] \cap (IF x \in Overridden THEN Override[i][x] ELSE Base[x]) # {}}
        kept == {x \in Item : Above[x] \cup {x} \subseteq allowed}
    IN {x \in kept : x \in Block => \E y \in kept : x \in Above[y]}

\* The profile of a tab that is logged in belongs to its token once every
\* request for one was answered, whatever answers of earlier tokens came
\* meanwhile; only one that overtakes an older one can change that.
ProfileIsOwn ==
    token # Nobody /\ loads = <<>> /\ ~overtaken => profile = token

\* The profiles that were there before leave no trace in the menu, although
\* each filter changes the map in place: at rest it offers what its profile
\* may see, with the rights of that profile, and never more than that on the
\* way there, but for what is on the screen until the first render.
MenuIsItsProfiles ==
    Mounted =>
        /\ due = "no" /\ profile # Nobody =>
            /\ DOMAIN menu = Offered(profile)
            /\ \A x \in Offered(profile) : menu[x] = Rights(Base, x, profile)
        /\ due # "both" =>
            \A x \in DOMAIN menu :
                /\ profile # Nobody
                /\ x \in Offered(profile)
                /\ menu[x] \subseteq Rights(Base, x, profile)

\* Who has logged out is not logged in by an answer, but for the second token
\* of an impersonation.
LogoutLasts ==
    [][out /\ token = Nobody /\ token' # Nobody => ~out' \/ asked = 2]_vars

\* A session that begins comes to its menu, unless it ends, an exchange was
\* refused, or an answer overtook another.
SessionSettles ==
    token # Nobody ~>
        \/ Mounted /\ profile = token /\ due = "no"
        \/ token = Nobody \/ refused \/ overtaken

=============================================================================
