-------------------------------- MODULE Feed --------------------------------
(***************************************************************************)
(* What a user sees of locked content: FeedService.getFeed, getMyPurchases *)
(* and getContentForUser, reading the entitlements that Purchase writes.   *)
(* The handlers change no state: they are operators over the tables.  All  *)
(* of them first collect the content ids of the user's entitlement rows,   *)
(* and none of them looks at validUntil.                                   *)
(*                                                                         *)
(* All of them show published content only.  The workflow changes the      *)
(* status at any time and no step of a purchase depends on it, so that it  *)
(* is no state of Purchase but an argument: published is the set of those  *)
(* rows that have the status PUBLISHED when a handler reads it.            *)
(***************************************************************************)
EXTENDS Purchase

\* Mutant: the query is not restricted to the user.
EntitledToAnyone(u) == {order[t].content : t \in {x \in TxRefs : grants[x] > 0}}

\* entitledContentIds
EntitledIds(u) ==
  {order[t].content : t \in {x \in TxRefs : grants[x] > 0 /\ order[x].user = u}}

\* What a query finds: the type is the category of the request, if it has one,
\* and one of a default otherwise.
TypeFilters(default) == {default} \cup {{k} : k \in ContentTypes}

Selected(published, types) == {c \in published : Kind[c] \in types}

TopLevelTypes ==
  {"MOVIE", "SERIES", "MUSIC_VIDEO", "DAWAH", "DOCUMENTARY", "PROPHET_HISTORY",
   "BOOK"}

\* getFeed unlocks, of what it lists, what is entitled itself.
FeedUnlocks(u, published, types) == Selected(published, types) \cap EntitledIds(u)

\* getMyPurchases lists, as unlocked, what is entitled.
Library(u, published, types) == Selected(published, types) \cap EntitledIds(u)

\* getContentForUser reads a published content with its children and theirs,
\* of any status; otherwise there is no page, but a 404.
Page(published, root) ==
  IF root \in published
    THEN {root} \cup Children(root) \cup UNION {Children(c) : c \in Children(root)}
    ELSE {}

\* Mutant: the hierarchy is not looked at.
DetailUnlocksAlone(u, published, root) == Page(published, root) \cap EntitledIds(u)

\* For each of them it asks checkUserAccess with the collected ids, which then
\* looks for the content, its parent and its grandparent among them.
DetailUnlocks(u, published, root) ==
  LET entitledContentIds == EntitledIds(u)
  IN  {c \in Page(published, root) : Chain(c) \cap entitledContentIds # {}}

-----------------------------------------------------------------------------
\* Whom checkUserAccess refuses to sell a content ("User already has access")
\* can open it, as long as it is published: every page that shows the content
\* shows it unlocked, the feed lists it unlocked if nothing contains it, and
\* what was bought of it, or of what contains it, is in the library and its
\* page leads to the content.  (Where that is not published he has access that
\* no view gives him.)
OwnerNotLockedOut ==
  \A u \in Users, c \in Contents :
    HasAccess(u, c) =>
      \A published \in SUBSET contents :
        /\ \A root \in published :
             c \in Page(published, root) => c \in DetailUnlocks(u, published, root)
        /\ Parent[c] = NoContent =>
             \A types \in TypeFilters(TopLevelTypes) :
               c \in Selected(published, types) =>
                 c \in FeedUnlocks(u, published, types)
        /\ \A b \in published \cap Chain(c) \cap EntitledIds(u) :
             /\ b \in Library(u, published, ContentTypes)
             /\ c \in Page(published, b)

\* What the pages and the feed of all categories unlock.
Unlocked(u, published) ==
  (UNION {DetailUnlocks(u, published, root) : root \in published})
  \cup FeedUnlocks(u, published, ContentTypes)

\* No view unlocks what was not paid for at the gateway, not even if all is
\* published: behind every unlocked content is an order of this user, for it
\* or for what contains it, that Chapa has seen paid.
NothingUnpaidUnlocked ==
  \A u \in Users :
    \A c \in Unlocked(u, contents) \cup Library(u, contents, ContentTypes) :
      \E t \in TxRefs : /\ order[t].user = u
                        /\ order[t].content \in Chain(c)
                        /\ chapa[t] = "paid"

\* Access bought for a while ends: checkUserAccess returns "The valid
\* entitlement record if access is granted, otherwise null", so what a view
\* unlocks is what a valid entitlement gives access to.
UnlockedOnlyWhileValid ==
  \A u \in Users, published \in SUBSET contents :
    \A c \in Unlocked(u, published) : HasAccess(u, c)
=============================================================================
