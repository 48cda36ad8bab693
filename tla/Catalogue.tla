----------------------------- MODULE Catalogue -----------------------------
(***************************************************************************)
(* One content: its review workflow, its edits, its lock and its prices    *)
(* (ContentService), statement by statement.                               *)
(*                                                                         *)
(* Every operation reads the row, checks it, changes the entity in memory  *)
(* and calls save(), which reads the row once more and updates the columns *)
(* in which the two differ.  There is no transaction around an operation.  *)
(* Of the columns only four are kept: the status, isLocked, the media and  *)
(* the thumbnailUrl that synchronizeThumbnailUrl derives from them.        *)
(***************************************************************************)
EXTENDS Naturals, Sequences

CONSTANTS
  Requests,  \* requests about the content, each made once
  Medias,    \* media arrays: sequences of [type, isPrimary, url]
  NoUrl,     \* a null thumbnailUrl
  Absent     \* no row, or no entity

VARIABLES
  row,         \* the content row
  tiers,       \* its price row for each access type
  step,        \* what a request does next, or how it ended
  op,          \* the operation a request performs
  entity,      \* the entity it has in memory
  changed,     \* the columns its save() found different
  prices,      \* the prices lockContent has yet to save
  reviewed,    \* history: the media an admin has seen when publishing them
  edited,      \* history: somebody who may edit everything has done so
  announced,   \* history: announcements of a publication
  approvals,   \* history: how often the row went from review to published
  overlapped,  \* history: two requests have run at once
  failed       \* history: a statement has failed

vars == <<row, tiers, step, op, entity, changed, prices, reviewed, edited,
          announced, approvals, overlapped, failed>>

Statuses    == {"DRAFT", "PENDING_REVIEW", "PUBLISHED", "ARCHIVED"}
AccessTypes == {"PERMANENT", "TEMPORARY"}
Columns     == {"status", "locked", "media", "thumb"}
Operations  == {"submit", "approve", "reject", "archive", "restore", "update",
                "lock", "unlock", "remove"}
Running     == {"preload", "select", "write", "insert", "deactivate", "find_tier",
                "insert_tier", "select_tier", "write_tier", "delete", "notify"}
Answers     == {"done", "refused", "error"}

\* synchronizeThumbnailUrl: the url of the first primary thumbnail, if any.
IsPrimaryThumbnail(item) == item.type = "THUMBNAIL" /\ item.isPrimary

ThumbnailOf(media) ==
  LET primary == SelectSeq(media, IsPrimaryThumbnail)
  IN  IF primary = <<>> THEN NoUrl ELSE primary[1].url

\* IsOnePrimaryThumbnailConstraint
IsOnePrimaryThumbnail(media) == Len(SelectSeq(media, IsPrimaryThumbnail)) <= 1

Urls == {NoUrl} \cup {ThumbnailOf(media) : media \in Medias}

Rows == [status : Statuses, locked : BOOLEAN, media : Medias, thumb : Urls]

ASSUME AbsentAssumption == Absent \notin Rows

\* attachPricingForLocked: what a listing shows as the price of the content.
PricingTiers ==
  IF row # Absent /\ row.locked THEN {a \in AccessTypes : tiers[a] = "active"} ELSE {}

Idle == \A r \in Requests : step[r] \notin Running

TypeOK ==
  /\ row \in Rows \cup {Absent}
  /\ tiers \in [AccessTypes -> {"none", "inactive", "active"}]
  /\ step \in [Requests -> Running \cup Answers \cup {"idle"}]
  /\ op \in [Requests -> Operations \cup {"create"}]
  /\ entity \in [Requests -> Rows \cup {Absent}]
  /\ changed \in [Requests -> SUBSET Columns]
  /\ prices \in [Requests -> SUBSET AccessTypes]
  /\ reviewed \subseteq Medias
  /\ edited \in BOOLEAN /\ overlapped \in BOOLEAN /\ failed \in BOOLEAN
  /\ announced \in Nat /\ approvals \in Nat
  /\ \A r \in Requests : step[r] \in {"select", "write", "insert"} => entity[r] # Absent
  /\ \A r \in Requests : step[r] = "write" => changed[r] # {}
  /\ \A r \in Requests :
       step[r] \in {"find_tier", "insert_tier", "select_tier", "write_tier"}
         => op[r] = "lock" /\ prices[r] # {}

\* No row yet, or one that sequences of complete operations may have left.
Init ==
  /\ row \in {c \in Rows : c.thumb = ThumbnailOf(c.media)} \cup {Absent}
  /\ tiers \in [AccessTypes -> {"none", "inactive", "active"}]
  /\ IF row = Absent
       THEN \A a \in AccessTypes : tiers[a] = "none"
       ELSE row.locked <=> \E a \in AccessTypes : tiers[a] = "active"
  /\ step = [r \in Requests |-> "idle"]
  /\ op = [r \in Requests |-> "create"]
  /\ entity = [r \in Requests |-> Absent]
  /\ changed = [r \in Requests |-> {}]
  /\ prices = [r \in Requests |-> {}]
  /\ reviewed = IF row # Absent /\ row.status \in {"PUBLISHED", "ARCHIVED"}
                  THEN {row.media} ELSE {}
  /\ announced = 0
  /\ approvals = 0
  /\ edited = FALSE
  /\ overlapped = FALSE
  /\ failed = FALSE

-----------------------------------------------------------------------------
Goto(r, s) == step' = [step EXCEPT ![r] = s]

Hold(r, e) == entity' = [entity EXCEPT ![r] = e]

\* The request arrives and reads the row.
Find(r, o) ==
  /\ step[r] = "idle"
  /\ op' = [op EXCEPT ![r] = o]
  /\ overlapped' = (overlapped \/ ~Idle)
  /\ UNCHANGED <<row, tiers, changed, announced, approvals, failed>>

Refuse(r) == Goto(r, "refused") /\ UNCHANGED <<entity, prices, reviewed, edited>>

\* submitForReview, approveContent, rejectContent, archiveContent and
\* restoreContent: 404 without a row, 400 in the wrong status.
Workflow(r, o, from, to) ==
  /\ Find(r, o)
  /\ IF row # Absent /\ row.status = from
       THEN /\ Hold(r, [row EXCEPT !.status = to])
            /\ Goto(r, "select")
            /\ reviewed' = IF to = "PUBLISHED" THEN reviewed \cup {row.media} ELSE reviewed
            /\ UNCHANGED <<prices, edited>>
       ELSE Refuse(r)

SubmitForReview(r) == Workflow(r, "submit", "DRAFT", "PENDING_REVIEW")
RejectContent(r)   == Workflow(r, "reject", "PENDING_REVIEW", "DRAFT")
ArchiveContent(r)  == Workflow(r, "archive", "PUBLISHED", "ARCHIVED")
RestoreContent(r)  == Workflow(r, "restore", "ARCHIVED", "PUBLISHED")

\* Mutant: a second approval is not refused.
ApproveAgain(r) ==
  \E from \in {"PENDING_REVIEW", "PUBLISHED"} : Workflow(r, "approve", from, "PUBLISHED")

ApproveContent(r) == Workflow(r, "approve", "PENDING_REVIEW", "PUBLISHED")

\* Mutant: only content in review is kept from its uploader.
MayEditPublished(manageAll) == manageAll \/ row.status # "PENDING_REVIEW"

\* An uploader may not edit what is in review or published.
MayEdit(manageAll) == manageAll \/ row.status \notin {"PENDING_REVIEW", "PUBLISHED"}

Update(r) ==
  /\ Find(r, "update")
  /\ \E manageAll \in BOOLEAN :
       IF row # Absent /\ MayEdit(manageAll)
         THEN /\ Goto(r, "preload")
              /\ edited' = (edited \/ manageAll)
              /\ UNCHANGED <<entity, prices, reviewed>>
         ELSE Refuse(r)

LockContent(r) ==
  /\ Find(r, "lock")
  /\ \E given \in SUBSET AccessTypes :
       IF row # Absent /\ given # {}
         THEN /\ Hold(r, [row EXCEPT !.locked = TRUE])
              /\ prices' = [prices EXCEPT ![r] = given]
              /\ Goto(r, "deactivate")
              /\ UNCHANGED <<reviewed, edited>>
         ELSE Refuse(r)

UnlockContent(r) ==
  /\ Find(r, "unlock")
  /\ IF row # Absent
       THEN /\ Hold(r, [row EXCEPT !.locked = FALSE])
            /\ Goto(r, "deactivate")
            /\ UNCHANGED <<prices, reviewed, edited>>
       ELSE Refuse(r)

Remove(r) ==
  /\ Find(r, "remove")
  /\ IF row # Absent
       THEN Goto(r, "delete") /\ UNCHANGED <<entity, prices, reviewed, edited>>
       ELSE Refuse(r)

-----------------------------------------------------------------------------
\* Mutant: the status of a new content is left to the default of its column.
CreateByDefault ==
  /\ row = Absent
  /\ \A r \in Requests : step[r] = "idle"
  /\ \E media \in Medias : \E status \in {"PUBLISHED", "PENDING_REVIEW"} :
       row' = [status |-> status, locked |-> FALSE, media |-> media,
               thumb |-> ThumbnailOf(media)]
  /\ UNCHANGED <<tiers, step, op, entity, changed, prices, reviewed, edited, announced,
                 approvals, overlapped, failed>>

\* create: nobody knows the id of the row before it is there.
Create ==
  /\ row = Absent
  /\ \A r \in Requests : step[r] = "idle"
  /\ \E media \in Medias : \E status \in {"DRAFT", "PENDING_REVIEW"} :
       /\ IsOnePrimaryThumbnail(media)
       /\ row' = [status |-> status, locked |-> FALSE, media |-> media,
                  thumb |-> ThumbnailOf(media)]
  /\ UNCHANGED <<tiers, step, op, entity, changed, prices, reviewed, edited, announced,
                 approvals, overlapped, failed>>

histories == <<reviewed, edited, announced, approvals, overlapped, failed>>

\* Mutant: the thumbnail is derived only when the content is created.
GivenUnsynchronized(media, status) == [row EXCEPT !.media = media, !.status = status]

\* The row is read again and what the request brings is merged into it.  The
\* status may be set too, to one of the two a new content may have.
Given(media, status) ==
  [row EXCEPT !.media = media, !.status = status, !.thumb = ThumbnailOf(media)]

Preload(r) ==
  /\ step[r] = "preload"
  /\ IF row = Absent
       THEN Goto(r, "refused") /\ UNCHANGED entity
       ELSE /\ \E media \in Medias :
                 \E status \in {row.status, "DRAFT", "PENDING_REVIEW"} :
                   IsOnePrimaryThumbnail(media) /\ Hold(r, Given(media, status))
            /\ Goto(r, "select")
  /\ UNCHANGED <<row, tiers, op, changed, prices, histories>>

Differing(r) == {c \in Columns : row[c] # entity[r][c]}

AfterSave(r) == IF op[r] = "approve" THEN "notify" ELSE "done"

\* The SELECT of save().  An entity whose row is gone will be inserted.
SelectForSave(r) ==
  /\ step[r] = "select"
  /\ IF row = Absent
       THEN Goto(r, "insert") /\ UNCHANGED changed
       ELSE /\ changed' = [changed EXCEPT ![r] = Differing(r)]
            /\ Goto(r, IF Differing(r) = {} THEN AfterSave(r) ELSE "write")
  /\ UNCHANGED <<row, tiers, op, entity, prices, histories>>

\* The UPDATE of save(): it touches nothing when the row is gone by now.
WriteRow(r) ==
  /\ step[r] = "write"
  /\ row' = IF row = Absent THEN Absent
            ELSE [c \in Columns |-> IF c \in changed[r] THEN entity[r][c] ELSE row[c]]
  /\ approvals' = IF row # Absent /\ row.status = "PENDING_REVIEW" /\ row'.status = "PUBLISHED"
                    THEN approvals + 1 ELSE approvals
  /\ Goto(r, AfterSave(r))
  /\ UNCHANGED <<tiers, op, entity, changed, prices, reviewed, edited, announced,
                 overlapped, failed>>

\* The INSERT of save(), or the primary key refuses it.
InsertRow(r) ==
  /\ step[r] = "insert"
  /\ IF row = Absent
       THEN row' = entity[r] /\ Goto(r, AfterSave(r))
       ELSE Goto(r, "error") /\ UNCHANGED row
  /\ UNCHANGED <<tiers, op, entity, changed, prices, histories>>

\* The price rows have no foreign key and stay.
DeleteRow(r) ==
  /\ step[r] = "delete"
  /\ row' = Absent
  /\ Goto(r, "done")
  /\ UNCHANGED <<tiers, op, entity, changed, prices, histories>>

-----------------------------------------------------------------------------
\* The permanent price is saved before the temporary one.
Tier(r) == IF "PERMANENT" \in prices[r] THEN "PERMANENT" ELSE "TEMPORARY"

\* Mutant: unlocking leaves the prices as they are.
DeactivateForLockOnly(r) ==
  /\ step[r] = "deactivate"
  /\ Goto(r, IF op[r] = "lock" THEN "find_tier" ELSE "select")
  /\ tiers' = [a \in AccessTypes |-> IF op[r] = "unlock" \/ tiers[a] = "none"
                                     THEN tiers[a] ELSE "inactive"]
  /\ UNCHANGED <<row, op, entity, changed, prices, histories>>

\* One UPDATE for all the prices of the content.
DeactivateTiers(r) ==
  /\ step[r] = "deactivate"
  /\ tiers' = [a \in AccessTypes |-> IF tiers[a] = "none" THEN "none" ELSE "inactive"]
  /\ Goto(r, IF op[r] = "lock" THEN "find_tier" ELSE "select")
  /\ UNCHANGED <<row, op, entity, changed, prices, histories>>

FindTier(r) ==
  /\ step[r] = "find_tier"
  /\ Goto(r, IF tiers[Tier(r)] = "none" THEN "insert_tier" ELSE "select_tier")
  /\ UNCHANGED <<row, tiers, op, entity, changed, prices, histories>>

\* Mutant: there is always another tier to save.
TierSavedAndNext(r) ==
  /\ prices' = [prices EXCEPT ![r] = @ \ {Tier(r)}]
  /\ Goto(r, "find_tier")

\* The tier is saved: go on with the next one, or save the content.
TierSaved(r) ==
  LET rest == prices[r] \ {Tier(r)}
  IN  /\ prices' = [prices EXCEPT ![r] = rest]
      /\ Goto(r, IF rest = {} THEN "select" ELSE "find_tier")

\* (contentId, accessType) is unique.
InsertTier(r) ==
  /\ step[r] = "insert_tier"
  /\ IF tiers[Tier(r)] = "none"
       THEN tiers' = [tiers EXCEPT ![Tier(r)] = "active"] /\ TierSaved(r)
       ELSE Goto(r, "error") /\ UNCHANGED <<tiers, prices>>
  /\ UNCHANGED <<row, op, entity, changed, histories>>

\* The SELECT of save(): isActive is written only where it is false now.
SelectTier(r) ==
  /\ step[r] = "select_tier"
  /\ IF tiers[Tier(r)] = "active" THEN TierSaved(r)
     ELSE Goto(r, "write_tier") /\ UNCHANGED prices
  /\ UNCHANGED <<row, tiers, op, entity, changed, histories>>

WriteTier(r) ==
  /\ step[r] = "write_tier"
  /\ tiers' = [tiers EXCEPT ![Tier(r)] = "active"]
  /\ TierSaved(r)
  /\ UNCHANGED <<row, op, entity, changed, histories>>

\* notifyContentPublished: the answer is the same when it fails.
NotifyContentPublished(r) ==
  /\ step[r] = "notify"
  /\ announced' \in {announced, announced + 1}
  /\ Goto(r, "done")
  /\ UNCHANGED <<row, tiers, op, entity, changed, prices, reviewed, edited, approvals,
                 overlapped, failed>>

\* A statement fails and the request answers with an error.
StatementFails(r) ==
  /\ step[r] \in Running \ {"notify"}
  /\ Goto(r, "error")
  /\ failed' = TRUE
  /\ UNCHANGED <<row, tiers, op, entity, changed, prices, reviewed, edited, announced,
                 approvals, overlapped>>

Next ==
  \/ Create
  \/ \E r \in Requests :
       \/ SubmitForReview(r) \/ ApproveContent(r) \/ RejectContent(r)
       \/ ArchiveContent(r) \/ RestoreContent(r) \/ Update(r)
       \/ LockContent(r) \/ UnlockContent(r) \/ Remove(r)
       \/ Preload(r) \/ SelectForSave(r) \/ WriteRow(r) \/ InsertRow(r) \/ DeleteRow(r)
       \/ DeactivateTiers(r) \/ FindTier(r) \/ InsertTier(r)
       \/ SelectTier(r) \/ WriteTier(r)
       \/ NotifyContentPublished(r)
       \/ StatementFails(r)

Spec == Init /\ [][Next]_vars

-----------------------------------------------------------------------------
\* The review cannot be bypassed: whatever overlaps, fails, or saves a stale
\* entity, content is PUBLISHED or ARCHIVED only if an admin has published
\* some version of it after reading it in the status that allows it.
PublishedWasReviewed ==
  row # Absent /\ row.status \in {"PUBLISHED", "ARCHIVED"} => reviewed # {}

\* approveContent and restoreContent publish what the admin saw: unless
\* requests overlap, or somebody who may edit everything edits it, the
\* published media are ones an admin had read when publishing.
PublishedAsReviewed ==
  row # Absent /\ row.status = "PUBLISHED" /\ ~overlapped /\ ~edited
    => row.media \in reviewed

\* lockContent and unlockContent: unless they overlap or fail half-way, content
\* is locked exactly when it has a price, and a listing shows it.
LockAndPriceAgree ==
  row # Absent /\ Idle /\ ~overlapped /\ ~failed
    => /\ row.locked <=> \E a \in AccessTypes : tiers[a] = "active"
       /\ row.locked <=> PricingTiers # {}

\* approveContent announces a content no more often than it is published from
\* review, unless requests overlap.
AnnouncedOnce == ~overlapped => announced <= approvals

\* create and update keep the legacy thumbnailUrl in step with the media,
\* through every save(), unless requests overlap.
ThumbnailInStep ==
  row # Absent /\ ~overlapped => row.thumb = ThumbnailOf(row.media)
=============================================================================
