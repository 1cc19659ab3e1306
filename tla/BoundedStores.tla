----------------------------- MODULE BoundedStores -----------------------------
(***************************************************************************)
(* What the plugin keeps for its clients between calls, within limits:     *)
(* results behind handles and artifacts (store.py), downloads in the data  *)
(* cache on the disk (autonomy.py). Each store is a sequence, oldest first *)
(* in the order in which it gives things up.                               *)
(***************************************************************************)
EXTENDS Integers, Sequences, SequencesExt, FiniteSetsExt

CONSTANTS
    Ids,            \* of handles, artifacts and cached URLs
    MaxHandles,     \* HandleStore.max_handles (100 in the code)
    MaxItems,       \* ArtifactStore.max_items (128)
    MaxSize,        \* ArtifactStore.max_item_bytes, the limit of a download, in units
    MaxTotal,       \* ArtifactStore.max_total_bytes, in units
    MaxCached,      \* DataCache.max_bytes, in units
    MaxPage         \* bound of the model on the oversized items of a page

VARIABLES
    handles,        \* HandleStore._values: ids in the order of their creation
    artifacts,      \* ArtifactStore._values: id and size, least recently read first
    totalBytes,     \* ArtifactStore._total_bytes
    cache,          \* the cache's directories: url, size and what cannot be removed
    answer          \* history: what the last call of a store promised

storeVars == <<handles, artifacts, totalBytes, cache, answer>>

Sizes == 1..MaxSize
Nothing == [store |-> "none", ids |-> <<>>]
Promise(store, ids) == answer' = [store |-> store, ids |-> ids]

IdsOf(entries) == {e.id : e \in ToSet(entries)}

\* What the first n of some numbers are together, for every n.
Sums(numbers) ==
    LET sum[n \in 0..Len(numbers)] == IF n = 0 THEN 0 ELSE sum[n - 1] + numbers[n]
    IN  sum

Bytes(entries) == Sums([i \in DOMAIN entries |-> entries[i].size])[Len(entries)]

Init ==
    /\ handles = <<>> /\ artifacts = <<>> /\ totalBytes = 0 /\ cache = <<>>
    /\ answer = Nothing

\* What a sequence has at some of its places, in its order.
At(places, entries) ==
    LET upTo[n \in 0..Len(entries)] ==
            IF n = 0 THEN <<>>
            ELSE IF n \in places THEN Append(upTo[n - 1], entries[n]) ELSE upTo[n - 1]
    IN  upTo[Len(entries)]

(* ------------------------------ HandleStore ------------------------------ *)

\* A mutant of Stored: a full store does without the newest.
StoredIfRoom(ids) ==
    LET all == handles \o ids
    IN  handles' = SubSeq(all, 1, Min({MaxHandles, Len(all)}))

\* put, once for each id: a full store gives up its oldest value first.
Stored(ids) ==
    LET all == handles \o ids
        surplus == IF Len(all) > MaxHandles THEN Len(all) - MaxHandles ELSE 0
    IN  handles' = SubSeq(all, surplus + 1, Len(all))

\* A result beyond the inline limit.
PutResult(id) ==
    /\ id \notin ToSet(handles)
    /\ Stored(<<id>>)
    /\ Promise("handles", <<id>>)
    /\ UNCHANGED <<artifacts, totalBytes, cache>>

\* _bounded_page stores each oversized item of the page under a new handle.
ReadHandle(id, nested) ==
    /\ id \in ToSet(handles)
    /\ ToSet(nested) \cap ToSet(handles) = {}
    /\ Stored(nested)
    /\ Promise("handles", nested)
    /\ UNCHANGED <<artifacts, totalBytes, cache>>

\* prune: the oldest expire first.
ExpireHandles ==
    /\ handles # <<>>
    /\ handles' = Tail(handles)
    /\ answer' = Nothing
    /\ UNCHANGED <<artifacts, totalBytes, cache>>

(* ----------------------------- ArtifactStore ----------------------------- *)

\* The least recently read go until there is room for one more of this size.
Evicted(size) ==
    LET Fits(n) == Len(artifacts) - n < MaxItems
                   /\ totalBytes - Bytes(SubSeq(artifacts, 1, n)) + size <= MaxTotal
    IN  Min({n \in 0..Len(artifacts) : n = Len(artifacts) \/ Fits(n)})

PutBytes(id, size) ==
    /\ id \notin IdsOf(artifacts)
    /\ artifacts' = Append(SubSeq(artifacts, Evicted(size) + 1, Len(artifacts)),
                           [id |-> id, size |-> size])
    /\ totalBytes' = totalBytes - Bytes(SubSeq(artifacts, 1, Evicted(size))) + size
    /\ Promise("artifacts", <<id>>)
    /\ UNCHANGED <<handles, cache>>

Without(i) == RemoveAt(artifacts, i)

\* Reading makes it the last to be evicted, but not younger.
ReadArtifact(i) ==
    /\ artifacts' = Append(Without(i), artifacts[i])
    /\ Promise("artifacts", <<artifacts[i].id>>)
    /\ UNCHANGED <<handles, totalBytes, cache>>

\* release, or prune of an expired one wherever it stands.
Release(i) ==
    /\ artifacts' = Without(i)
    /\ totalBytes' = totalBytes - artifacts[i].size
    /\ answer' = Nothing
    /\ UNCHANGED <<handles, cache>>

(* ------------------------------- DataCache ------------------------------- *)

\* prune takes the oldest while the total is over the limit. What it fails to
\* remove is not subtracted, though the file of a directory that stays behind
\* is gone by then; a file in use stays.
Freed(entries) ==
    Sums([i \in DOMAIN entries |-> IF entries[i].stuck = "no" THEN entries[i].size ELSE 0])

Goes(entries, i) ==
    /\ Bytes(entries) - Freed(entries)[i - 1] > MaxCached
    /\ entries[i].stuck # "file"

Pruned(entries) == At({i \in DOMAIN entries : ~Goes(entries, i)}, entries)

\* put: a second download of a URL goes to the same directory, where a file of
\* another name stays behind; an archive is extracted next to its file.
PutDownload(url, size, stuck) ==
    LET others == At({i \in DOMAIN cache : cache[i].id # url}, cache)
        left == stuck = "dir" \/ \E e \in ToSet(cache) : e.id = url /\ e.stuck = "dir"
        entry == [id |-> url, size |-> size, stuck |-> IF left THEN "dir" ELSE "no"]
    IN  /\ \A e \in ToSet(cache) : e.id = url => e.stuck # "file"
        /\ cache' = Pruned(Append(others, entry))
        /\ answer' = [store |-> "cache", ids |-> <<url>>,
                      stuck |-> \E e \in ToSet(others) : e.stuck # "no"]
        /\ UNCHANGED <<handles, artifacts, totalBytes>>

\* QGIS opens the file of a cached layer, or closes it.
UseFile(i) ==
    /\ \/ cache[i].stuck = "no" /\ cache' = [cache EXCEPT ![i].stuck = "file"]
       \/ cache[i].stuck = "file" /\ cache' = [cache EXCEPT ![i].stuck = "no"]
    /\ answer' = Nothing
    /\ UNCHANGED <<handles, artifacts, totalBytes>>

HandleNext ==
    \/ \E id \in Ids : PutResult(id)
    \/ \E id \in Ids, nested \in SetToAllKPermutations(Ids) :
            Len(nested) <= MaxPage /\ ReadHandle(id, nested)
    \/ ExpireHandles

ArtifactNext ==
    \/ \E id \in Ids, size \in Sizes : PutBytes(id, size)
    \/ \E i \in DOMAIN artifacts : ReadArtifact(i) \/ Release(i)

CacheNext ==
    \/ \E url \in Ids, size \in Sizes, stuck \in {"no", "dir"} : PutDownload(url, size, stuck)
    \/ \E i \in DOMAIN cache : UseFile(i)

Next == HandleNext \/ ArtifactNext \/ CacheNext

Spec == Init /\ [][Next]_storeVars

-----------------------------------------------------------------------------
TypeOK ==
    /\ handles \in Seq(Ids) /\ IsInjective(handles)
    /\ Len(handles) <= MaxHandles
    /\ IdsOf(artifacts) \subseteq Ids /\ Len(artifacts) <= MaxItems
    /\ \A e \in ToSet(cache) : e.id \in Ids /\ e.size \in Sizes /\ e.stuck \in {"no", "dir", "file"}

\* The counter that decides about evictions is the sum of what is stored.
Accounted == totalBytes = Bytes(artifacts) /\ totalBytes <= MaxTotal

\* What a call has just handed out can be read by the next: the last handles
\* stored for a page, as many as the store holds; an artifact; the path of a
\* download, unless an older one could not be removed (none is too large by itself).
Honoured ==
    LET given == answer.ids
        last == SubSeq(given, Max({1, Len(given) - MaxHandles + 1}), Len(given))
    IN  CASE answer.store = "handles" -> ToSet(last) \subseteq ToSet(handles)
          [] answer.store = "artifacts" -> ToSet(given) \subseteq IdsOf(artifacts)
          [] answer.store = "cache" -> ToSet(given) \subseteq IdsOf(cache) \/ answer.stuck
          [] answer.store = "none" -> TRUE

\* The limits of the stores never cost a client what it was just given, but for
\* the cases that Honoured names.
StoredIsThere == Accounted /\ Honoured
===============================================================================
