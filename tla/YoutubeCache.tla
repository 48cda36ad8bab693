---------------------------- MODULE YoutubeCache ----------------------------
(***************************************************************************)
(* The cache in front of the YouTube API (YoutubeService): readers that    *)
(* fill it, and refreshes, nightly or by an admin, that clear and fill it. *)
(*                                                                         *)
(* YouTube's data is only a version, which grows.  The cache has a key for *)
(* the playlists, fetched one after the other, and one for each search.    *)
(***************************************************************************)
EXTENDS FiniteSets, Sequences, Naturals

CONSTANTS
  Playlists,   \* how many playlists are fetched
  Queries,     \* searches
  Fetches,     \* requests and jobs that may fetch, each made once
  MaxVersion,  \* bound on the version of the data
  Playlist,    \* the key of the playlists
  Missing      \* nothing in the cache

VARIABLES
  version,    \* the version of YouTube's data
  cache,      \* for each key the versions of the pages stored, or Missing
  fetchStep,  \* what a request does next, or how it ended
  fetchKey,   \* the key it is about
  refreshes,  \* whether it is a refresh
  pages,      \* the versions of the pages it has fetched
  began,      \* the version when it began to fetch
  fresh,      \* history: the version when the last complete refresh began
  mingled     \* history: when it began, an older fetch was still on its way

vars == <<version, cache, fetchStep, fetchKey, refreshes, pages, began, fresh, mingled>>

Keys == {Playlist} \cup Queries

Lists == UNION {[1..n -> 0..MaxVersion] : n \in 0..Playlists}

\* A search is one page; each playlist is taken for one.
Size(k) == IF k = Playlist THEN Playlists ELSE 1

TypeOK ==
  /\ version \in 0..MaxVersion
  /\ cache \in [Keys -> Lists \cup {Missing}]
  /\ fetchStep \in [Fetches -> {"idle", "get", "delete", "list", "set", "served", "error"}]
  /\ fetchKey \in [Fetches -> Keys]
  /\ refreshes \in [Fetches -> BOOLEAN]
  /\ pages \in [Fetches -> Lists]
  /\ began \in [Fetches -> 0..MaxVersion]
  /\ fresh \in 0..version
  /\ mingled \in BOOLEAN
  /\ \A f \in Fetches : fetchStep[f] = "list" => Len(pages[f]) < Size(fetchKey[f])

Init ==
  /\ version = 0
  /\ cache = [k \in Keys |-> Missing]
  /\ fetchStep = [f \in Fetches |-> "idle"]
  /\ fetchKey = [f \in Fetches |-> Playlist]
  /\ refreshes = [f \in Fetches |-> FALSE]
  /\ pages = [f \in Fetches |-> <<>>]
  /\ began = [f \in Fetches |-> 0]
  /\ fresh = 0
  /\ mingled = FALSE

-----------------------------------------------------------------------------
\* Somebody uploads a video.
Upload ==
  /\ version < MaxVersion
  /\ version' = version + 1
  /\ UNCHANGED <<cache, fetchStep, fetchKey, refreshes, pages, began, fresh, mingled>>

Goto(f, s) == fetchStep' = [fetchStep EXCEPT ![f] = s]

Ask(f, k, first) ==
  /\ fetchStep[f] = "idle"
  /\ Goto(f, first)
  /\ fetchKey' = [fetchKey EXCEPT ![f] = k]
  /\ refreshes' = [refreshes EXCEPT ![f] = (first = "delete")]
  /\ UNCHANGED <<version, cache, pages, began, fresh, mingled>>

GetPlaylistVideos(f) == Ask(f, Playlist, "get")

\* searchCachedPlaylist filters what getPlaylistVideos returns.
SearchCachedPlaylist(f) == Ask(f, Playlist, "get")

SearchYouTube(f) == \E q \in Queries : Ask(f, q, "get")

\* The admin's refresh and the nightly job.
RefreshPlaylistCache(f) == Ask(f, Playlist, "delete")

StartToFetch(f) ==
  /\ Goto(f, "list")
  /\ began' = [began EXCEPT ![f] = version]

GetCached(f) ==
  /\ fetchStep[f] = "get"
  /\ IF cache[fetchKey[f]] # Missing
       THEN /\ Goto(f, "served")
            /\ pages' = [pages EXCEPT ![f] = cache[fetchKey[f]]]
            /\ UNCHANGED began
       ELSE StartToFetch(f) /\ UNCHANGED pages
  /\ UNCHANGED <<version, cache, fetchKey, refreshes, fresh, mingled>>

\* Mutant: the refresh goes the way of the readers, past what is cached.
RefreshIfMissing(f) ==
  /\ fetchStep[f] = "delete"
  /\ IF cache[Playlist] # Missing
       THEN Goto(f, "served") /\ fresh' = version /\ UNCHANGED began
       ELSE StartToFetch(f) /\ UNCHANGED fresh
  /\ UNCHANGED <<version, cache, fetchKey, refreshes, pages, mingled>>

\* The refresh deletes what is cached and starts to fetch.
DeleteCached(f) ==
  /\ fetchStep[f] = "delete"
  /\ cache' = [cache EXCEPT ![Playlist] = Missing]
  /\ StartToFetch(f)
  /\ UNCHANGED <<version, fetchKey, refreshes, pages, fresh, mingled>>

\* One page after the other, each as it is at the moment.
List(f) ==
  /\ fetchStep[f] = "list"
  /\ pages' = [pages EXCEPT ![f] = Append(@, version)]
  /\ Goto(f, IF Len(pages'[f]) = Size(fetchKey[f]) THEN "set" ELSE "list")
  /\ UNCHANGED <<version, cache, fetchKey, refreshes, began, fresh, mingled>>

\* Other fetches of the playlists that began on older data than f.
OlderThan(f) ==
  {g \in Fetches \ {f} : /\ fetchKey[g] = Playlist
                         /\ fetchStep[g] \in {"list", "set"}
                         /\ began[g] < began[f]}

\* The whole list is stored, and what a complete refresh has stored is fresh.
SetCached(f) ==
  /\ fetchStep[f] = "set"
  /\ cache' = [cache EXCEPT ![fetchKey[f]] = pages[f]]
  /\ Goto(f, "served")
  /\ IF refreshes[f] /\ began[f] >= fresh
       THEN fresh' = began[f] /\ mingled' = (OlderThan(f) # {})
       ELSE UNCHANGED <<fresh, mingled>>
  /\ UNCHANGED <<version, fetchKey, refreshes, pages, began>>

\* The API, or the cache, fails; nothing is stored.
FetchFails(f) ==
  /\ fetchStep[f] \in {"list", "set"}
  /\ Goto(f, "error")
  /\ UNCHANGED <<version, cache, fetchKey, refreshes, pages, began, fresh, mingled>>

\* The time of an entry has run out.
Expire(k) ==
  /\ cache[k] # Missing
  /\ cache' = [cache EXCEPT ![k] = Missing]
  /\ UNCHANGED <<version, fetchStep, fetchKey, refreshes, pages, began, fresh, mingled>>

Next ==
  \/ Upload
  \/ \E f \in Fetches : \/ GetPlaylistVideos(f) \/ SearchCachedPlaylist(f)
                        \/ SearchYouTube(f) \/ RefreshPlaylistCache(f)
                        \/ GetCached(f) \/ DeleteCached(f) \/ List(f) \/ SetCached(f)
                        \/ FetchFails(f)
  \/ \E k \in Keys : Expire(k)

Spec == Init /\ [][Next]_vars

-----------------------------------------------------------------------------
\* refreshPlaylistCache: what is cached or served is always the whole list,
\* and once a refresh is complete no list older than it is cached, in any of
\* its pages, unless a fetch that had begun on older data was on its way at
\* that moment and overwrites it.
FreshAfterRefresh ==
  /\ cache[Playlist] # Missing =>
       /\ Len(cache[Playlist]) = Playlists
       /\ ~mingled => \A n \in 1..Playlists : cache[Playlist][n] >= fresh
  /\ \A f \in Fetches :
       fetchStep[f] = "served" => Len(pages[f]) = Size(fetchKey[f])
=============================================================================
