------------------------------ MODULE IngestProofs ------------------------------
(***************************************************************************)
(* How the corpus is read and kept, for every value of the constants.      *)
(*                                                                         *)
(* PageCache: for all listings, whatever they change into, and however     *)
(* many runs are killed: a page served is one answer of GitHub, a walk     *)
(* that went to the end is the listing, and the rate limit is spent once   *)
(* for each version of a page (github/client.py, github/cache.py).         *)
(*                                                                         *)
(* CorpusIngest: for all units, contents and collections, and all sizes of *)
(* shards, batches and commits: what a mining run leaves in the store and  *)
(* in the index, wherever it was stopped (ingest/pipeline.py); a reader of *)
(* the store sees CorpusPromise.                                           *)
(*                                                                         *)
(* Chunks: for any file and any limits, what it is cut into keeps it       *)
(* (ingest/chunking.py).                                                   *)
(***************************************************************************)
EXTENDS PageCache, CorpusIngest, Chunks, CountingLemmas, FiniteSetTheorems, SequenceTheorems,
        TLAPS

Storing == {"put_body", "put_meta"}
InRequest == {"send", "touch"} \cup Storing

(* Metadata and a body of one answer.                                      *)
Answer(u, meta, body) ==
  /\ meta \in Meta /\ body \in Versions
  /\ meta.etag = body /\ meta.next = LinkOf[u][body]

(* An entry nobody was killed over is one answer, but for the moment       *)
(* between the writing of its files.                                       *)
FilesInv ==
  \A u \in Urls :
    metaFile[u] \in Meta /\ u \notin cut /\ ~(walkAt = "put_meta" /\ url = u) =>
      Answer(u, metaFile[u], bodyFile[u])

(* What the run has in its hands of the page it is on: the entry, which is *)
(* still there, or the answer it is about to store.                        *)
RequestInv ==
  /\ walkAt \in InRequest => url \in Urls
  /\ walkAt \in {"send", "touch"} =>
       /\ cached.meta.etag = Entry(url).meta.etag
       /\ cached.meta \in Meta => cached.body # Absent
       /\ cached.meta \in Meta /\ url \notin cut => Answer(url, cached.meta, cached.body)
  /\ walkAt = "touch" => cached.meta \in Meta
  /\ walkAt \in Storing => Answer(url, cached.meta, cached.body)
  /\ walkAt = "put_meta" => bodyFile[url] = cached.body
  /\ pure /\ walkAt \in {"touch"} \cup Storing => cached.meta.etag = site[url]

(* The pages walked are a path along the links, without a page twice; the  *)
(* walk is where the last link leads.                                      *)
PathInv ==
  /\ ended => walkAt = "idle" /\ Len(walked) > 0 /\ walked[Len(walked)].next \in visited \cup {NoUrl}
  /\ walkAt \in {"page"} \cup InRequest =>
       /\ Len(walked) = 0 => url = First
       /\ Len(walked) > 0 => url = walked[Len(walked)].next
  /\ walkAt = "page" /\ Len(walked) = 0 => visited = {}
  /\ walkAt \in InRequest => url \in visited /\ \A i \in 1 .. Len(walked) : walked[i].url # url
  /\ \A i \in 1 .. Len(walked) : walked[i].url \in visited
  /\ \A i, j \in 1 .. Len(walked) : walked[i].url = walked[j].url => i = j
  /\ Len(walked) > 0 => walked[1].url = First
  /\ \A i \in 1 .. Len(walked) - 1 : walked[i].next = walked[i + 1].url

PagesInv ==
  \A i \in 1 .. Len(walked) : walked[i].url \notin cut =>
    /\ walked[i].next = LinkOf[walked[i].url][walked[i].body]
    /\ pure => walked[i].body = site[walked[i].url]

(* The ETag the next request of a page is made with, once the answer in    *)
(* hand is stored.                                                         *)
Held(u) ==
  IF walkAt \in Storing /\ url = u THEN cached.meta.etag ELSE Entry(u).meta.etag

(* A page that can be answered in full now has one full answer to spend.   *)
PaidInv ==
  \A u \in Urls :
    /\ paid[u] <= 1 + changes[u] + cacheDeaths
    /\ Held(u) # site[u] => paid[u] <= changes[u] + cacheDeaths

CacheInv == CacheTypeOK /\ FilesInv /\ RequestInv /\ PathInv /\ PagesInv /\ PaidInv

-----------------------------------------------------------------------------
(***************************************************************************)
(* Entries and yielded pages.                                              *)
(***************************************************************************)
LEMMA NoEntryIsNoMeta == NoEntry \notin Meta /\ TornEntry \notin Meta /\ NoEntry.etag = Absent
BY CacheAssumption DEF NoEntry, TornEntry, Meta

LEMMA MetaOf ==
  ASSUME NEW meta \in Meta
  PROVE  meta.etag \in Versions /\ meta.next \in Urls \cup {NoUrl} /\ meta.fresh \in BOOLEAN
BY DEF Meta

LEMMA AgeIsNotContent ==
  ASSUME NEW meta \in Meta, NEW f \in BOOLEAN
  PROVE  /\ [meta EXCEPT !.fresh = f] \in Meta
         /\ [meta EXCEPT !.fresh = f].etag = meta.etag
         /\ [meta EXCEPT !.fresh = f].next = meta.next
BY DEF Meta

LEMMA EntryIs ==
  ASSUME CacheTypeOK, NEW u \in Urls
  PROVE  /\ metaFile[u] \in Meta /\ bodyFile[u] # Absent =>
              Entry(u).meta = metaFile[u] /\ Entry(u).body = bodyFile[u]
         /\ ~(metaFile[u] \in Meta /\ bodyFile[u] # Absent) =>
              Entry(u).meta = NoEntry /\ Entry(u).meta.etag = Absent
         /\ Entry(u).meta \in Meta => metaFile[u] \in Meta /\ bodyFile[u] # Absent
         /\ Entry(u).meta \in Meta \cup {NoEntry}
         /\ Entry(u).body \in Versions \cup {Absent, Torn}
<1>1. CASE metaFile[u] \in Meta /\ bodyFile[u] # Absent
  <2>1. Entry(u) = [meta |-> metaFile[u], body |-> bodyFile[u]]  BY <1>1 DEF Entry
  <2> QED  BY <1>1, <2>1 DEF CacheTypeOK
<1>2. CASE ~(metaFile[u] \in Meta /\ bodyFile[u] # Absent)
  <2>1. Entry(u) = [meta |-> NoEntry, body |-> Absent]  BY <1>2 DEF Entry, NoPage
  <2> QED  BY <1>2, <2>1, NoEntryIsNoMeta
<1> QED  BY <1>1, <1>2

(* The page a yield adds is the one the walk is on.                        *)
LEMMA YieldsOne ==
  ASSUME CacheTypeOK, url \in Urls,
         NEW body \in Versions \cup {Torn}, NEW next \in Urls \cup {NoUrl},
         Yield(body, next)
  PROVE  /\ walkAt' \in {"idle", "page"} /\ ended' \in BOOLEAN /\ url' \in Urls \cup {NoUrl}
         /\ walked' \in Seq(Page)
         /\ \/ /\ walkAt' = "idle" /\ ended' = FALSE
               /\ url' = url /\ walked' = walked
            \/ /\ walkAt' = "page" /\ ended' = ended /\ body \in Versions
               /\ url' = next
               /\ Len(walked') = Len(walked) + 1
               /\ \A i \in 1 .. Len(walked) : walked'[i] = walked[i]
               /\ walked'[Len(walked) + 1] = [url |-> url, body |-> body, next |-> next]
<1>1. CASE body = Torn
  BY <1>1 DEF Yield, Leave, CacheTypeOK
<1>2. CASE body # Torn
  <2> DEFINE page == [url |-> url, body |-> body, next |-> next]
  <2>1. page \in Page  BY <1>2 DEF Page
  <2>2. /\ walked' = Append(walked, page) /\ url' = next
        /\ walkAt' = "page" /\ ended' = ended
    BY <1>2 DEF Yield
  <2> HIDE DEF page
  <2>3. /\ walked' \in Seq(Page) /\ Len(walked') = Len(walked) + 1
        /\ \A i \in 1 .. Len(walked) : walked'[i] = walked[i]
        /\ walked'[Len(walked) + 1] = page
    BY <2>1, <2>2 DEF CacheTypeOK
  <2> QED  BY <1>2, <2>2, <2>3 DEF page, CacheTypeOK
<1> QED  BY <1>1, <1>2

-----------------------------------------------------------------------------
(***************************************************************************)
(* The steps, each by what it does to the state.                           *)
(***************************************************************************)
LEMMA InitHolds == CacheInit => CacheInv
<1> SUFFICES ASSUME CacheInit  PROVE CacheInv
  OBVIOUS
<1> USE DEF CacheInit
<1>1. CacheTypeOK
  <2>1. cached \in [meta : Meta \cup {NoEntry}, body : Versions \cup {Absent, Torn}]
    BY DEF NoPage
  <2>2. attempt \in 0 .. MaxAttempts - 1 /\ cacheDeaths \in 0 .. MaxDeaths
    BY CacheAssumption
  <2>3. /\ metaFile \in [Urls -> Meta \cup {NoEntry, TornEntry}]
        /\ bodyFile \in [Urls -> Versions \cup {Absent, Torn}]
        /\ changes \in [Urls -> Nat] /\ paid \in [Urls -> Nat]
    OBVIOUS
  <2>4. walked \in Seq(Page)  OBVIOUS
  <2> HIDE DEF CacheInit
  <2>5. /\ site \in [Urls -> Versions]
        /\ walkAt = "idle" /\ url = NoUrl /\ visited = {}
        /\ pure = FALSE /\ ended = FALSE /\ cut = {}
    BY DEF CacheInit
  <2> QED  BY <2>1, <2>2, <2>3, <2>4, <2>5 DEF CacheTypeOK
<1>2. FilesInv  BY NoEntryIsNoMeta DEF FilesInv
<1>3. RequestInv  BY DEF RequestInv, InRequest, Storing
<1>4. PathInv  BY DEF PathInv, InRequest, Storing
<1>5. PagesInv  BY DEF PagesInv
<1>6. PaidInv
  <2>1. \A u \in Urls : paid[u] = 0 /\ changes[u] = 0 /\ cacheDeaths = 0  OBVIOUS
  <2> QED  BY <2>1 DEF PaidInv
<1> QED  BY <1>1, <1>2, <1>3, <1>4, <1>5, <1>6 DEF CacheInv

(* What a served page is made of: the entry, or what the run has in hand.  *)
LEMMA ServedPage ==
  ASSUME CacheTypeOK, RequestInv
  PROVE  /\ ServeByAge => /\ url \in Urls /\ url \notin visited
                          /\ Entry(url).meta \in Meta
                          /\ Entry(url).body \in Versions \cup {Torn}
                          /\ Entry(url).meta.next \in Urls \cup {NoUrl}
         /\ walkAt = "touch" =>
              /\ url \in Urls /\ cached.body \in Versions \cup {Torn}
              /\ cached.meta.next \in Urls \cup {NoUrl}
              /\ LinkOf[url][cached.meta.etag] \in Urls \cup {NoUrl}
         /\ walkAt \in Storing =>
              /\ url \in Urls /\ cached.body \in Versions
              /\ cached.meta.next \in Urls \cup {NoUrl}
<1>1. ASSUME ServeByAge
      PROVE  /\ url \in Urls /\ url \notin visited
             /\ Entry(url).meta \in Meta
             /\ Entry(url).body \in Versions \cup {Torn}
             /\ Entry(url).meta.next \in Urls \cup {NoUrl}
  <2>1. url \in Urls /\ url \notin visited /\ Entry(url).meta.fresh
    BY <1>1 DEF ServeByAge, AtEnd, CacheTypeOK
  <2>2. ~NoEntry.fresh  BY DEF NoEntry
  <2>3. Entry(url).meta \in Meta  BY <2>1, <2>2, EntryIs
  <2>4. Entry(url).body # Absent  BY <2>1, <2>3, EntryIs
  <2> QED  BY <2>1, <2>3, <2>4, EntryIs, MetaOf
<1>2. ASSUME walkAt = "touch"
      PROVE  /\ url \in Urls /\ cached.body \in Versions \cup {Torn}
             /\ cached.meta.next \in Urls \cup {NoUrl}
             /\ LinkOf[url][cached.meta.etag] \in Urls \cup {NoUrl}
  <2>1. /\ url \in Urls /\ cached.meta \in Meta /\ cached.body # Absent
        /\ cached.body \in Versions \cup {Absent, Torn}
    BY <1>2 DEF RequestInv, InRequest, CacheTypeOK
  <2> QED  BY <2>1, MetaOf, CacheAssumption
<1>3. ASSUME walkAt \in Storing
      PROVE  url \in Urls /\ cached.body \in Versions /\ cached.meta.next \in Urls \cup {NoUrl}
  <2>1. url \in Urls /\ cached.meta \in Meta /\ cached.body \in Versions
    BY <1>3 DEF RequestInv, InRequest, Answer
  <2> QED  BY <2>1, MetaOf
<1> QED  BY <1>1, <1>2, <1>3

(* The link a page is served with after a 304: the header's, or the        *)
(* entry's when there is none.                                             *)
LinkServed(next) == IF next # NoUrl THEN next ELSE cached.meta.next

LEMMA Touches ==
  ASSUME CacheTypeOK, RequestInv, Touch
  PROVE  \E next \in {LinkOf[url][cached.meta.etag], NoUrl} :
           /\ Yield(cached.body, LinkServed(next))
           /\ LinkServed(next) \in Urls \cup {NoUrl}
BY ServedPage DEF Touch, LinkServed

(* Every step that yields a page.                                          *)
Serves(body, next) ==
  /\ url \in Urls /\ body \in Versions \cup {Torn} /\ next \in Urls \cup {NoUrl}
  /\ Yield(body, next)
  /\ \/ /\ ServeByAge
        /\ Entry(url).meta \in Meta
        /\ body = Entry(url).body /\ next = Entry(url).meta.next
     \/ /\ Touch
        /\ body = cached.body
        /\ \E header \in {LinkOf[url][cached.meta.etag], NoUrl} : next = LinkServed(header)
     \/ /\ PutMeta
        /\ body = cached.body /\ next = cached.meta.next

LEMMA ServesAPage ==
  ASSUME CacheTypeOK, RequestInv, ServeByAge \/ Touch \/ PutMeta
  PROVE  \E body \in Versions \cup {Torn} : \E next \in Urls \cup {NoUrl} : Serves(body, next)
<1>1. CASE ServeByAge
  <2>1. Serves(Entry(url).body, Entry(url).meta.next)
    BY <1>1, ServedPage DEF Serves, ServeByAge
  <2> QED  BY <1>1, <2>1, ServedPage
<1>2. CASE Touch
  <2>1. PICK header \in {LinkOf[url][cached.meta.etag], NoUrl} :
          /\ Yield(cached.body, LinkServed(header))
          /\ LinkServed(header) \in Urls \cup {NoUrl}
    BY <1>2, Touches
  <2>2. walkAt = "touch"  BY <1>2 DEF Touch
  <2>3. Serves(cached.body, LinkServed(header))
    BY <1>2, <2>1, <2>2, ServedPage DEF Serves
  <2> QED  BY <2>1, <2>2, <2>3, ServedPage
<1>3. CASE PutMeta
  <2>1. walkAt \in Storing /\ Yield(cached.body, cached.meta.next)
    BY <1>3 DEF PutMeta, Storing
  <2>2. Serves(cached.body, cached.meta.next)
    BY <1>3, <2>1, ServedPage DEF Serves
  <2> QED  BY <2>1, <2>2, ServedPage
<1> QED  BY <1>1, <1>2, <1>3

LEMMA CacheTypeNext ==
  ASSUME CacheTypeOK, RequestInv, [CacheNext]_cacheVars  PROVE CacheTypeOK'
<1> USE DEF CacheTypeOK, fileVars, walkVars, countVars
<1>1. CASE UNCHANGED cacheVars  BY <1>1 DEF cacheVars
<1>2. CASE StartWalk
  <2>1. MaxAttempts - 1 \in Nat  BY CacheAssumption
  <2>2. cached' \in [meta : Meta \cup {NoEntry}, body : Versions \cup {Absent, Torn}]
    BY <1>2 DEF StartWalk, NoPage
  <2>3. walked' \in Seq(Page)  BY <1>2 DEF StartWalk
  <2>4. attempt' \in 0 .. MaxAttempts - 1  BY <1>2, <2>1 DEF StartWalk
  <2>5. /\ UNCHANGED <<site, metaFile, bodyFile, cut, changes, paid, cacheDeaths>>
        /\ walkAt' = "page" /\ url' \in Urls /\ visited' = {}
        /\ pure' = TRUE /\ ended' = FALSE
    BY <1>2, CacheAssumption DEF StartWalk
  <2> QED  BY <2>2, <2>3, <2>4, <2>5
<1>3. CASE EndWalk \/ EnoughItems \/ RequestFails
  BY <1>3 DEF EndWalk, EnoughItems, RequestFails, Leave
<1>4. CASE ServeByAge \/ Touch \/ PutMeta
  <2>1. PICK body \in Versions \cup {Torn}, next \in Urls \cup {NoUrl} : Serves(body, next)
    BY <1>4, ServesAPage
  <2>2. /\ walkAt' \in {"idle", "page"} /\ ended' \in BOOLEAN /\ url' \in Urls \cup {NoUrl}
        /\ walked' \in Seq(Page)
    BY <2>1, YieldsOne DEF Serves
  <2>3. CASE ServeByAge
    <3>1. visited' \subseteq Urls  BY <2>1, <2>3 DEF ServeByAge, Serves
    <3> QED  BY <2>2, <2>3, <3>1 DEF ServeByAge
  <2>4. CASE Touch
    <3>1. metaFile' \in [Urls -> Meta \cup {NoEntry, TornEntry}]
      <4>1. url \in Urls /\ Entry(url).meta.etag = cached.meta.etag /\ cached.meta \in Meta
        BY <2>4 DEF Touch, RequestInv, InRequest
      <4>2. metaFile[url] \in Meta
        BY <4>1, EntryIs, MetaOf, CacheAssumption
      <4>3. [metaFile[url] EXCEPT !.fresh = TRUE] \in Meta  BY <4>2, AgeIsNotContent
      <4>4. metaFile' = [metaFile EXCEPT ![url] = [metaFile[url] EXCEPT !.fresh = TRUE]]
        BY <2>4 DEF Touch
      <4> QED  BY <4>1, <4>3, <4>4
    <3> QED  BY <2>2, <2>4, <3>1 DEF Touch
  <2>5. CASE PutMeta
    <3>1. metaFile' \in [Urls -> Meta \cup {NoEntry, TornEntry}]
      BY <2>5 DEF PutMeta
    <3> QED  BY <2>2, <2>5, <3>1 DEF PutMeta
  <2> QED  BY <1>4, <2>3, <2>4, <2>5
<1>5. CASE Request
  <2>1. url \in Urls  BY <1>5 DEF Request, AtEnd
  <2>2. cached' \in [meta : Meta \cup {NoEntry}, body : Versions \cup {Absent, Torn}]
    <3>1. Entry(url) \in [meta : Meta \cup {NoEntry}, body : Versions \cup {Absent, Torn}]
      BY <2>1 DEF Entry, NoPage
    <3> QED  BY <1>5, <3>1 DEF Request
  <2>3. 0 \in 0 .. MaxAttempts - 1  BY CacheAssumption
  <2> QED  BY <1>5, <2>1, <2>2, <2>3 DEF Request
<1>6. CASE NotModified  BY <1>6 DEF NotModified
<1>7. CASE Answered
  <2>1. url \in Urls  BY <1>7 DEF Answered, RequestInv, InRequest
  <2>2. [etag |-> site[url], next |-> LinkOf[url][site[url]], fresh |-> TRUE] \in Meta
    BY <2>1, CacheAssumption DEF Meta
  <2>3. cached' \in [meta : Meta \cup {NoEntry}, body : Versions \cup {Absent, Torn}]
    BY <1>7, <2>1, <2>2 DEF Answered
  <2>4. paid' \in [Urls -> Nat]
    <3>1. paid[url] + 1 \in Nat  BY <2>1
    <3>2. paid' = [paid EXCEPT ![url] = paid[url] + 1]  BY <1>7 DEF Answered
    <3> QED  BY <2>1, <3>1, <3>2
  <2> QED  BY <1>7, <2>3, <2>4 DEF Answered
<1>8. CASE Retry  BY <1>8, CacheAssumption DEF Retry
<1>9. CASE PutBody
  <2>1. bodyFile' \in [Urls -> Versions \cup {Absent, Torn}]  BY <1>9 DEF PutBody
  <2> QED  BY <1>9, <2>1 DEF PutBody
<1>10. CASE DieWalking
  <2>1. bodyFile' \in [Urls -> Versions \cup {Absent, Torn}]  BY <1>10 DEF DieWalking
  <2>2. metaFile' \in [Urls -> Meta \cup {NoEntry, TornEntry}]  BY <1>10 DEF DieWalking
  <2>3. cut' \subseteq Urls
    BY <1>10 DEF DieWalking, RequestInv, InRequest, Storing
  <2>4. cacheDeaths' \in 0 .. MaxDeaths  BY <1>10, CacheAssumption DEF DieWalking
  <2> QED  BY <1>10, <2>1, <2>2, <2>3, <2>4 DEF DieWalking, Leave
<1>11. ASSUME NEW u \in Urls, SiteChanges(u)  PROVE CacheTypeOK'
  <2>1. site' \in [Urls -> Versions]  BY <1>11 DEF SiteChanges
  <2>2. changes' \in [Urls -> Nat]  BY <1>11 DEF SiteChanges
  <2> QED  BY <1>11, <2>1, <2>2 DEF SiteChanges
<1>12. ASSUME NEW u \in Urls, Expire(u)  PROVE CacheTypeOK'
  <2>1. [metaFile[u] EXCEPT !.fresh = FALSE] \in Meta
    BY <1>12, AgeIsNotContent DEF Expire
  <2>2. metaFile' = [metaFile EXCEPT ![u] = [metaFile[u] EXCEPT !.fresh = FALSE]]
    BY <1>12 DEF Expire
  <2>3. metaFile' \in [Urls -> Meta \cup {NoEntry, TornEntry}]  BY <2>1, <2>2
  <2> QED  BY <1>12, <2>3 DEF Expire
<1> QED  BY <1>1, <1>2, <1>3, <1>4, <1>5, <1>6, <1>7, <1>8, <1>9, <1>10, <1>11, <1>12
  DEF CacheNext, WalkStep

LEMMA FilesInvNext ==
  ASSUME CacheTypeOK, RequestInv, FilesInv, [CacheNext]_cacheVars  PROVE FilesInv'
<1> USE DEF fileVars, walkVars, countVars
<1>1. ASSUME UNCHANGED <<metaFile, bodyFile, cut>>, walkAt # "put_meta"  PROVE FilesInv'
  BY <1>1 DEF FilesInv, Answer
<1>2. ASSUME UNCHANGED <<metaFile, bodyFile, cut, walkAt, url>>  PROVE FilesInv'
  BY <1>2 DEF FilesInv, Answer
<1>3. CASE UNCHANGED cacheVars  BY <1>2, <1>3 DEF cacheVars
<1>4. CASE StartWalk \/ EndWalk \/ EnoughItems \/ ServeByAge \/ Request
  BY <1>1, <1>4 DEF StartWalk, EndWalk, EnoughItems, ServeByAge, Request
<1>5. CASE NotModified \/ Answered \/ Retry \/ RequestFails
  BY <1>1, <1>5 DEF NotModified, Answered, Retry, RequestFails
<1>6. CASE Touch
  <2>1. /\ walkAt = "touch" /\ url \in Urls
        /\ metaFile' = [metaFile EXCEPT ![url] = [metaFile[url] EXCEPT !.fresh = TRUE]]
        /\ bodyFile' = bodyFile /\ cut' = cut
    BY <1>6, ServedPage DEF Touch
  <2>2. metaFile[url] \in Meta
    <3>1. Entry(url).meta.etag = cached.meta.etag /\ cached.meta \in Meta
      BY <2>1 DEF RequestInv
    <3> QED  BY <2>1, <3>1, EntryIs, MetaOf, CacheAssumption
  <2>3. metaFile'[url].etag = metaFile[url].etag /\ metaFile'[url].next = metaFile[url].next
        /\ metaFile'[url] \in Meta
    BY <2>1, <2>2, AgeIsNotContent DEF CacheTypeOK
  <2>4. \A u \in Urls : u # url => metaFile'[u] = metaFile[u]
    BY <2>1 DEF CacheTypeOK
  <2> SUFFICES ASSUME NEW u \in Urls, metaFile'[u] \in Meta, u \notin cut'
               PROVE  Answer(u, metaFile'[u], bodyFile'[u])
    BY DEF FilesInv, Answer
  <2>5. metaFile[u] \in Meta  BY <2>2, <2>4
  <2>6. Answer(u, metaFile[u], bodyFile[u])  BY <2>1, <2>5 DEF FilesInv
  <2> QED  BY <2>1, <2>3, <2>4, <2>6 DEF Answer
<1>7. CASE PutBody
  BY <1>7 DEF PutBody, FilesInv, Answer, CacheTypeOK
<1>8. CASE PutMeta
  <2>1. /\ url \in Urls /\ Answer(url, cached.meta, cached.body)
        /\ bodyFile[url] = cached.body /\ walkAt = "put_meta"
    BY <1>8 DEF PutMeta, RequestInv, InRequest, Storing
  <2>2. /\ metaFile'[url] = cached.meta /\ bodyFile' = bodyFile
        /\ \A u \in Urls : u # url => metaFile'[u] = metaFile[u]
        /\ cut' = cut \ {url}
    BY <1>8, <2>1 DEF PutMeta, CacheTypeOK
  <2> QED  BY <2>1, <2>2 DEF FilesInv, Answer
<1>9. CASE DieWalking
  <2>1. /\ walkAt' = "idle"
        /\ \A u \in Urls : u # url => metaFile'[u] = metaFile[u] /\ bodyFile'[u] = bodyFile[u]
        /\ cut' \subseteq cut \cup {url} /\ cut \subseteq cut'
    BY <1>9 DEF DieWalking, Leave, CacheTypeOK
  <2>2. ASSUME NEW u \in Urls, u # url, metaFile'[u] \in Meta, u \notin cut'
        PROVE  Answer(u, metaFile[u], bodyFile[u])
    BY <2>1, <2>2 DEF FilesInv
  <2>3. ASSUME url \in Urls, metaFile'[url] \in Meta, url \notin cut'
        PROVE  /\ metaFile'[url] = metaFile[url] /\ bodyFile'[url] = bodyFile[url]
               /\ Answer(url, metaFile[url], bodyFile[url])
    <3>1. walkAt \notin Storing  BY <1>9, <2>3 DEF DieWalking, Storing
    <3>2. bodyFile' = bodyFile  BY <1>9, <3>1 DEF DieWalking, Storing
    <3>3. metaFile' = metaFile
      <4>1. metaFile' # metaFile => metaFile' = [metaFile EXCEPT ![url] = TornEntry]
        BY <1>9 DEF DieWalking
      <4> QED  BY <2>3, <4>1, NoEntryIsNoMeta DEF CacheTypeOK
    <3> QED  BY <2>1, <2>3, <3>1, <3>2, <3>3 DEF FilesInv, Storing
  <2> QED  BY <2>1, <2>2, <2>3 DEF FilesInv, Answer
<1>10. ASSUME NEW u \in Urls, SiteChanges(u)  PROVE FilesInv'
  BY <1>2, <1>10 DEF SiteChanges
<1>11. ASSUME NEW u \in Urls, Expire(u)  PROVE FilesInv'
  <2>1. /\ metaFile[u] \in Meta
        /\ metaFile' = [metaFile EXCEPT ![u] = [metaFile[u] EXCEPT !.fresh = FALSE]]
        /\ UNCHANGED <<bodyFile, cut, walkAt, url>>
    BY <1>11 DEF Expire
  <2>2. metaFile'[u].etag = metaFile[u].etag /\ metaFile'[u].next = metaFile[u].next
        /\ metaFile'[u] \in Meta
    BY <2>1, AgeIsNotContent DEF CacheTypeOK
  <2>3. \A v \in Urls : v # u => metaFile'[v] = metaFile[v]
    BY <2>1 DEF CacheTypeOK
  <2> QED  BY <2>1, <2>2, <2>3 DEF FilesInv, Answer
<1> QED  BY <1>3, <1>4, <1>5, <1>6, <1>7, <1>8, <1>9, <1>10, <1>11 DEF CacheNext, WalkStep

LEMMA RequestInvNext ==
  ASSUME CacheTypeOK, RequestInv, FilesInv, [CacheNext]_cacheVars  PROVE RequestInv'
<1> USE DEF fileVars, walkVars, countVars, InRequest, Storing
<1>1. ASSUME walkAt' \in {"idle", "page"}  PROVE RequestInv'
  BY <1>1 DEF RequestInv
<1>2. CASE UNCHANGED cacheVars
  BY <1>2 DEF cacheVars, RequestInv, Entry, Answer
<1>3. CASE StartWalk \/ EndWalk \/ EnoughItems \/ RequestFails \/ DieWalking
  BY <1>1, <1>3 DEF StartWalk, EndWalk, EnoughItems, RequestFails, DieWalking, Leave
<1>4. CASE ServeByAge \/ Touch \/ PutMeta
  <2>1. PICK body \in Versions \cup {Torn}, next \in Urls \cup {NoUrl} : Serves(body, next)
    BY <1>4, ServesAPage
  <2> QED  BY <1>1, <2>1, YieldsOne DEF Serves
<1>5. CASE Request
  <2>1. /\ url \in Urls /\ walkAt' = "send" /\ cached' = Entry(url)
        /\ UNCHANGED <<site, metaFile, bodyFile, url, pure, cut>> /\ walkAt = "page"
    BY <1>5 DEF Request, AtEnd, CacheTypeOK
  <2>2. Entry(url)' = Entry(url)  BY <2>1 DEF Entry
  <2>3. Entry(url).meta \in Meta =>
          Entry(url).meta = metaFile[url] /\ Entry(url).body = bodyFile[url]
          /\ bodyFile[url] # Absent
    BY <2>1, EntryIs
  <2>4. Entry(url).meta \in Meta /\ url \notin cut =>
          Answer(url, Entry(url).meta, Entry(url).body)
    BY <2>1, <2>3 DEF FilesInv
  <2> QED  BY <2>1, <2>2, <2>3, <2>4 DEF RequestInv, Answer
<1>6. CASE NotModified
  <2>1. /\ url \in Urls /\ walkAt = "send" /\ walkAt' = "touch" /\ cached.meta.etag = site[url]
        /\ UNCHANGED <<site, metaFile, bodyFile, url, cached, pure, cut>>
    BY <1>6 DEF NotModified, RequestInv
  <2>2. cached.meta \in Meta
    BY <2>1, NoEntryIsNoMeta, CacheAssumption DEF CacheTypeOK
  <2>3. Entry(url)' = Entry(url)  BY <2>1 DEF Entry
  <2> QED  BY <2>1, <2>2, <2>3 DEF RequestInv, Answer
<1>7. CASE Answered
  <2>1. /\ url \in Urls /\ walkAt' = "put_body"
        /\ cached' = [meta |-> [etag |-> site[url], next |-> LinkOf[url][site[url]], fresh |-> TRUE],
                      body |-> site[url]]
        /\ UNCHANGED <<site, url>>
    BY <1>7 DEF Answered, RequestInv
  <2>2. Answer(url, cached'.meta, cached'.body)
    BY <2>1, CacheAssumption DEF Answer, Meta, CacheTypeOK
  <2>3. cached'.meta.etag = site[url]  BY <2>1
  <2> QED  BY <2>1, <2>2, <2>3 DEF RequestInv, Answer
<1>8. CASE Retry
  <2>1. /\ walkAt = "send" /\ UNCHANGED <<site, metaFile, bodyFile, walkAt, url, cached, pure, cut>>
    BY <1>8 DEF Retry
  <2>2. Entry(url)' = Entry(url)  BY <2>1 DEF Entry
  <2> QED  BY <2>1, <2>2 DEF RequestInv, Answer
<1>9. CASE PutBody
  <2>1. /\ walkAt = "put_body" /\ walkAt' = "put_meta"
        /\ bodyFile' = [bodyFile EXCEPT ![url] = cached.body]
        /\ UNCHANGED <<site, url, cached, pure>>
    BY <1>9 DEF PutBody
  <2>2. bodyFile'[url] = cached.body  BY <2>1 DEF RequestInv, CacheTypeOK
  <2> QED  BY <2>1, <2>2 DEF RequestInv, Answer
<1>10. ASSUME NEW u \in Urls, SiteChanges(u)  PROVE RequestInv'
  <2>1. /\ pure' = FALSE
        /\ UNCHANGED <<metaFile, bodyFile, walkAt, url, cached, cut>>
    BY <1>10 DEF SiteChanges
  <2>2. Entry(url)' = Entry(url)  BY <2>1 DEF Entry
  <2> QED  BY <2>1, <2>2 DEF RequestInv, Answer
<1>11. ASSUME NEW u \in Urls, Expire(u)  PROVE RequestInv'
  <2>1. /\ metaFile[u] \in Meta
        /\ metaFile' = [metaFile EXCEPT ![u] = [metaFile[u] EXCEPT !.fresh = FALSE]]
        /\ UNCHANGED <<site, bodyFile, walkAt, url, cached, pure, cut>>
    BY <1>11 DEF Expire
  <2>2. url \in Urls => Entry(url)'.meta.etag = Entry(url).meta.etag
    <3>1. CASE url = u
      <4>1. metaFile'[u] \in Meta /\ metaFile'[u].etag = metaFile[u].etag
        BY <2>1, AgeIsNotContent DEF CacheTypeOK
      <4> QED  BY <2>1, <3>1, <4>1 DEF Entry
    <3>2. CASE url # u
      BY <2>1, <3>2 DEF Entry, CacheTypeOK
    <3> QED  BY <3>1, <3>2
  <2> QED  BY <2>1, <2>2 DEF RequestInv, Answer
<1> QED  BY <1>2, <1>3, <1>4, <1>5, <1>6, <1>7, <1>8, <1>9, <1>10, <1>11 DEF CacheNext, WalkStep

(* A page that is served is new to the walk, and where its last link led.  *)
LEMMA PathGrows ==
  ASSUME CacheTypeOK, PathInv,
         NEW body \in Versions \cup {Torn}, NEW next \in Urls \cup {NoUrl}, Serves(body, next)
  PROVE  PathInv'
<1>1. /\ walkAt \in {"page"} \cup InRequest /\ url \in Urls
      /\ url \in visited' /\ visited \subseteq visited'
      /\ \A i \in 1 .. Len(walked) : walked[i].url # url
  <2>1. CASE ServeByAge
    BY <2>1 DEF ServeByAge, AtEnd, PathInv, Serves
  <2>2. CASE Touch \/ PutMeta
    BY <2>2 DEF Touch, PutMeta, PathInv, Serves, InRequest, Storing
  <2> QED  BY <2>1, <2>2 DEF Serves
<1>2. ~ended  BY <1>1 DEF PathInv, InRequest, Storing
<1>3. Len(walked) \in Nat /\ walked \in Seq(Page)  BY DEF CacheTypeOK
<1>4. CASE walkAt' = "idle" /\ ended' = FALSE /\ url' = url /\ walked' = walked
  BY <1>1, <1>4 DEF PathInv, InRequest, Storing
<1>5. CASE /\ walkAt' = "page" /\ ended' = ended /\ body \in Versions
           /\ url' = next
           /\ Len(walked') = Len(walked) + 1
           /\ \A i \in 1 .. Len(walked) : walked'[i] = walked[i]
           /\ walked'[Len(walked) + 1] = [url |-> url, body |-> body, next |-> next]
  <2> DEFINE n == Len(walked)
  <2>1. walked'[n + 1].url = url /\ walked'[n + 1].next = next  BY <1>5
  <2>2. n \in Nat  BY <1>3
  <2>3. \A i \in 1 .. n + 1 : i \in 1 .. n \/ i = n + 1  BY <2>2
  <2>4. \A i \in 1 .. n : walked'[i] = walked[i]  BY <1>5
  <2>5. ~ended' /\ walkAt' = "page" /\ Len(walked') = n + 1 /\ url' = next  BY <1>2, <1>5
  <2>6. \A i \in 1 .. n + 1 : walked'[i].url \in visited'
    BY <1>1, <2>1, <2>3, <2>4 DEF PathInv
  <2>7. \A i, j \in 1 .. n + 1 : walked'[i].url = walked'[j].url => i = j
    BY <1>1, <2>1, <2>3, <2>4 DEF PathInv
  <2>8. walked'[1].url = First
    <3>1. CASE n = 0  BY <1>1, <2>1, <3>1 DEF PathInv
    <3>2. CASE n > 0  BY <2>2, <2>4, <3>2 DEF PathInv
    <3> QED  BY <2>2, <3>1, <3>2
  <2>9. \A i \in 1 .. n : walked'[i].next = walked'[i + 1].url
    <3> SUFFICES ASSUME NEW i \in 1 .. n  PROVE walked'[i].next = walked'[i + 1].url
      OBVIOUS
    <3>1. CASE i = n
      <4>1. url = walked[n].next  BY <1>1, <2>2, <3>1 DEF PathInv
      <4> QED  BY <2>1, <2>4, <3>1, <4>1
    <3>2. CASE i # n
      <4>1. i \in 1 .. n - 1 /\ i + 1 \in 1 .. n  BY <2>2, <3>2
      <4>2. walked[i].next = walked[i + 1].url  BY <4>1 DEF PathInv
      <4> QED  BY <2>4, <4>1, <4>2
    <3> QED  BY <3>1, <3>2
  <2> HIDE DEF n
  <2>10. /\ Len(walked') # 0 /\ walked'[Len(walked')].next = url'
         /\ Len(walked') - 1 = n
    BY <2>1, <2>2, <2>5
  <2> QED  BY <2>5, <2>6, <2>7, <2>8, <2>9, <2>10 DEF PathInv, InRequest, Storing
<1> QED  BY <1>4, <1>5, YieldsOne DEF Serves

LEMMA PathInvNext ==
  ASSUME CacheTypeOK, RequestInv, PathInv, [CacheNext]_cacheVars  PROVE PathInv'
<1> USE DEF fileVars, walkVars, countVars, InRequest, Storing
<1>1. ASSUME UNCHANGED <<walkAt, url, visited, walked, ended>>  PROVE PathInv'
  BY <1>1 DEF PathInv
<1>2. ASSUME walkAt \in InRequest, walkAt' \in InRequest,
             UNCHANGED <<url, visited, walked, ended>>
      PROVE  PathInv'
  BY <1>2 DEF PathInv
<1>3. CASE UNCHANGED cacheVars  BY <1>1, <1>3 DEF cacheVars
<1>4. CASE StartWalk
  <2>1. walked' = <<>> /\ Len(walked') = 0 /\ url' = First /\ walkAt' = "page"
        /\ visited' = {} /\ ended' = FALSE
    BY <1>4 DEF StartWalk
  <2> QED  BY <2>1 DEF PathInv
<1>5. CASE EndWalk
  <2>1. /\ walkAt = "page" /\ url \in visited \cup {NoUrl} /\ walkAt' = "idle"
        /\ UNCHANGED <<url, visited, walked>>
    BY <1>5 DEF EndWalk, AtEnd
  <2>2. Len(walked) \in Nat  BY DEF CacheTypeOK
  <2>3. Len(walked) # 0
    BY <2>1, CacheAssumption DEF PathInv
  <2>4. Len(walked) > 0 /\ walked[Len(walked)].next \in visited \cup {NoUrl}
    BY <2>1, <2>2, <2>3 DEF PathInv
  <2> QED  BY <2>1, <2>4 DEF PathInv
<1>6. CASE EnoughItems \/ RequestFails \/ DieWalking
  BY <1>6 DEF EnoughItems, RequestFails, DieWalking, Leave, PathInv
<1>7. CASE ServeByAge \/ Touch \/ PutMeta
  BY <1>7, ServesAPage, PathGrows
<1>8. CASE Request
  <2>1. /\ walkAt = "page" /\ url \notin visited /\ walkAt' = "send"
        /\ visited' = visited \cup {url} /\ UNCHANGED <<url, walked, ended>>
    BY <1>8 DEF Request, AtEnd
  <2> QED  BY <2>1 DEF PathInv
<1>9. CASE NotModified \/ Answered \/ Retry \/ PutBody
  BY <1>2, <1>9 DEF NotModified, Answered, Retry, PutBody
<1>10. ASSUME NEW u \in Urls, SiteChanges(u) \/ Expire(u)  PROVE PathInv'
  BY <1>1, <1>10 DEF SiteChanges, Expire
<1> QED  BY <1>3, <1>4, <1>5, <1>6, <1>7, <1>8, <1>9, <1>10 DEF CacheNext, WalkStep

(* A page that is served is one answer unless its entry was cut, and that  *)
(* of now if nothing changed.                                              *)
LEMMA PagesGrow ==
  ASSUME CacheTypeOK, FilesInv, RequestInv, PathInv, PagesInv,
         NEW body \in Versions \cup {Torn}, NEW next \in Urls \cup {NoUrl}, Serves(body, next)
  PROVE  PagesInv'
<1>1. url \in Urls /\ site' = site  BY DEF Serves, ServeByAge, Touch, PutMeta
<1>2. pure' => pure
  <2>1. CASE ServeByAge  BY <2>1 DEF ServeByAge
  <2>2. CASE Touch \/ PutMeta  BY <2>2 DEF Touch, PutMeta
  <2> QED  BY <2>1, <2>2 DEF Serves
<1>3. /\ cut' \subseteq cut /\ cut \subseteq cut' \cup {url}
      /\ url \notin cut' => (next = LinkOf[url][body] /\ (pure' => body = site[url]))
  <2>1. CASE ServeByAge /\ body = Entry(url).body /\ next = Entry(url).meta.next
             /\ Entry(url).meta \in Meta
    <3>1. walkAt = "page" /\ cut' = cut /\ ~pure'  BY <2>1 DEF ServeByAge
    <3>2. metaFile[url] \in Meta /\ body = bodyFile[url] /\ next = metaFile[url].next
      BY <1>1, <2>1, EntryIs
    <3>3. url \notin cut => Answer(url, metaFile[url], bodyFile[url])
      BY <1>1, <3>1, <3>2 DEF FilesInv
    <3> QED  BY <3>1, <3>2, <3>3 DEF Answer
  <2>2. ASSUME Touch, body = cached.body,
               NEW header \in {LinkOf[url][cached.meta.etag], NoUrl}, next = LinkServed(header)
        PROVE  /\ cut' \subseteq cut /\ cut \subseteq cut' \cup {url}
               /\ url \notin cut' => (next = LinkOf[url][body] /\ (pure' => body = site[url]))
    <3>1. walkAt = "touch" /\ cut' = cut /\ pure' = pure  BY <2>2 DEF Touch
    <3>2. cached.meta \in Meta /\ (pure => cached.meta.etag = site[url])
      BY <3>1 DEF RequestInv
    <3>3. url \notin cut => Answer(url, cached.meta, cached.body)
      BY <3>1, <3>2 DEF RequestInv
    <3>4. url \notin cut => next = LinkOf[url][body]
      BY <2>2, <3>3 DEF LinkServed, Answer
    <3> QED  BY <2>2, <3>1, <3>2, <3>3, <3>4 DEF Answer
  <2>3. CASE PutMeta /\ body = cached.body /\ next = cached.meta.next
    <3>1. walkAt = "put_meta" /\ cut' = cut \ {url} /\ pure' = pure
      BY <2>3 DEF PutMeta
    <3>2. Answer(url, cached.meta, cached.body) /\ (pure => cached.meta.etag = site[url])
      BY <3>1 DEF RequestInv, Storing
    <3> QED  BY <2>3, <3>1, <3>2 DEF Answer
  <2> QED  BY <2>1, <2>2, <2>3 DEF Serves
<1>4. \A i \in 1 .. Len(walked) : walked[i].url # url
  BY DEF Serves, ServeByAge, AtEnd, Touch, PutMeta, PathInv, InRequest, Storing
<1>5. \A i \in 1 .. Len(walked) : walked[i].url \notin cut' =>
        /\ walked[i].next = LinkOf[walked[i].url][walked[i].body]
        /\ pure' => walked[i].body = site[walked[i].url]
  BY <1>2, <1>3, <1>4 DEF PagesInv
<1>6. CASE walked' = walked  BY <1>1, <1>5, <1>6 DEF PagesInv
<1>7. CASE /\ Len(walked') = Len(walked) + 1
           /\ \A i \in 1 .. Len(walked) : walked'[i] = walked[i]
           /\ walked'[Len(walked) + 1] = [url |-> url, body |-> body, next |-> next]
  <2>1. Len(walked) \in Nat  BY DEF CacheTypeOK
  <2>2. \A i \in 1 .. Len(walked') : i \in 1 .. Len(walked) \/ i = Len(walked')
    BY <1>7, <2>1
  <2>3. LET page == walked'[Len(walked')]
        IN  page.url = url /\ page.body = body /\ page.next = next
    BY <1>7
  <2> QED  BY <1>1, <1>3, <1>5, <1>7, <2>2, <2>3 DEF PagesInv
<1> QED  BY <1>6, <1>7, YieldsOne DEF Serves

LEMMA PagesInvNext ==
  ASSUME CacheTypeOK, FilesInv, RequestInv, PathInv, PagesInv, [CacheNext]_cacheVars
  PROVE  PagesInv'
<1> USE DEF fileVars, walkVars, countVars
<1>1. ASSUME walked' = walked, cut \subseteq cut', pure' => pure /\ site' = site
      PROVE  PagesInv'
  BY <1>1 DEF PagesInv
<1>2. CASE UNCHANGED cacheVars  BY <1>1, <1>2 DEF cacheVars
<1>3. CASE StartWalk
  <2>1. Len(walked') = 0  BY <1>3 DEF StartWalk
  <2> QED  BY <2>1 DEF PagesInv
<1>4. CASE EndWalk \/ EnoughItems \/ Request \/ RequestFails
  BY <1>1, <1>4 DEF EndWalk, EnoughItems, Request, RequestFails
<1>5. CASE NotModified \/ Answered \/ Retry \/ PutBody
  BY <1>1, <1>5 DEF NotModified, Answered, Retry, PutBody
<1>6. CASE DieWalking
  BY <1>1, <1>6 DEF DieWalking
<1>7. CASE ServeByAge \/ Touch \/ PutMeta
  BY <1>7, ServesAPage, PagesGrow
<1>8. ASSUME NEW u \in Urls, SiteChanges(u) \/ Expire(u)  PROVE PagesInv'
  BY <1>1, <1>8 DEF SiteChanges, Expire
<1> QED  BY <1>2, <1>3, <1>4, <1>5, <1>6, <1>7, <1>8 DEF CacheNext, WalkStep

LEMMA PaidInvNext ==
  ASSUME CacheTypeOK, RequestInv, PaidInv, [CacheNext]_cacheVars  PROVE PaidInv'
<1> USE DEF fileVars, walkVars, countVars
<1>1. ASSUME UNCHANGED <<paid, changes, cacheDeaths, site>>,
             \A u \in Urls : Held(u)' = Held(u)
      PROVE  PaidInv'
  BY <1>1 DEF PaidInv
<1>2. ASSUME UNCHANGED fileVars, walkAt \notin Storing, walkAt' \notin Storing
      PROVE  \A u \in Urls : Held(u)' = Held(u)
  BY <1>2 DEF Held, Entry
<1>3. CASE UNCHANGED cacheVars
  BY <1>1, <1>3 DEF cacheVars, Held, Entry
<1>4. CASE StartWalk \/ EndWalk \/ EnoughItems \/ Request \/ NotModified \/ Retry \/ RequestFails
  BY <1>1, <1>2, <1>4 DEF StartWalk, EndWalk, EnoughItems, Request, NotModified, Retry,
     RequestFails, Leave, Storing
<1>5. CASE ServeByAge \/ Touch \/ PutMeta
  <2>1. PICK body \in Versions \cup {Torn}, next \in Urls \cup {NoUrl} : Serves(body, next)
    BY <1>5, ServesAPage
  <2>2. url \in Urls /\ walkAt' \notin Storing
    BY <2>1, YieldsOne DEF Serves, Storing
  <2>3. UNCHANGED <<paid, changes, cacheDeaths, site>>
    BY <1>5 DEF ServeByAge, Touch, PutMeta
  <2>4. CASE ServeByAge
    BY <1>1, <1>2, <2>2, <2>3, <2>4 DEF ServeByAge, Storing
  <2>5. CASE Touch
    <3>1. /\ walkAt = "touch" /\ bodyFile' = bodyFile
          /\ metaFile' = [metaFile EXCEPT ![url] = [metaFile[url] EXCEPT !.fresh = TRUE]]
      BY <2>5 DEF Touch
    <3>2. metaFile[url] \in Meta
      <4>1. Entry(url).meta.etag = cached.meta.etag /\ cached.meta \in Meta
        BY <3>1 DEF RequestInv
      <4> QED  BY <2>2, <4>1, EntryIs, MetaOf, CacheAssumption
    <3>3. metaFile'[url] \in Meta /\ metaFile'[url].etag = metaFile[url].etag
      BY <2>2, <3>1, <3>2, AgeIsNotContent DEF CacheTypeOK
    <3>4. \A u \in Urls : u # url => Entry(u)' = Entry(u)
      BY <3>1 DEF Entry, CacheTypeOK
    <3>5. \A u \in Urls : u = url => Entry(u)'.meta.etag = Entry(u).meta.etag
      BY <3>1, <3>2, <3>3 DEF Entry
    <3>6. \A u \in Urls : Held(u)' = Held(u)
      BY <2>2, <3>1, <3>4, <3>5 DEF Held, Storing
    <3> QED  BY <1>1, <2>3, <3>6
  <2>6. CASE PutMeta
    <3>1. /\ walkAt = "put_meta" /\ bodyFile' = bodyFile
          /\ metaFile' = [metaFile EXCEPT ![url] = cached.meta]
      BY <2>6 DEF PutMeta
    <3>2. cached.meta \in Meta /\ bodyFile[url] \in Versions
      BY <3>1 DEF RequestInv, Storing, Answer
    <3>3. \A u \in Urls : u = url => Entry(u)'.meta = cached.meta
      BY <2>2, <3>1, <3>2, CacheAssumption DEF Entry, CacheTypeOK
    <3>4. \A u \in Urls : u # url => Entry(u)' = Entry(u)
      BY <3>1 DEF Entry, CacheTypeOK
    <3>5. \A u \in Urls : Held(u)' = Held(u)
      BY <2>2, <3>1, <3>3, <3>4 DEF Held, Storing
    <3> QED  BY <1>1, <2>3, <3>5
  <2> QED  BY <1>5, <2>4, <2>5, <2>6
<1>6. CASE Answered
  <2>1. /\ url \in Urls /\ walkAt = "send" /\ walkAt' = "put_body"
        /\ cached.meta.etag # site[url]
        /\ cached'.meta.etag = site[url]
        /\ paid' = [paid EXCEPT ![url] = paid[url] + 1]
        /\ UNCHANGED <<site, metaFile, bodyFile, url, changes, cacheDeaths>>
    BY <1>6 DEF Answered, RequestInv, InRequest
  <2>2. Held(url) # site[url]
    BY <2>1 DEF Held, RequestInv, Storing
  <2>3. Held(url)' = site'[url]
    BY <2>1 DEF Held, Storing
  <2>4. \A u \in Urls : u # url => Held(u)' = Held(u) /\ paid'[u] = paid[u]
    BY <2>1 DEF Held, Entry, Storing, CacheTypeOK
  <2>5. paid'[url] = paid[url] + 1 /\ paid[url] <= changes[url] + cacheDeaths
    BY <2>1, <2>2 DEF PaidInv, CacheTypeOK
  <2>6. paid[url] \in Nat /\ changes[url] \in Nat /\ cacheDeaths \in Nat
    BY <2>1 DEF CacheTypeOK
  <2>7. paid'[url] <= 1 + changes'[url] + cacheDeaths'  BY <2>1, <2>5, <2>6
  <2> QED  BY <2>1, <2>3, <2>4, <2>7 DEF PaidInv
<1>7. CASE PutBody
  <2>1. /\ walkAt = "put_body" /\ walkAt' = "put_meta"
        /\ bodyFile' = [bodyFile EXCEPT ![url] = cached.body]
        /\ UNCHANGED <<site, metaFile, url, cached, paid, changes, cacheDeaths>>
    BY <1>7 DEF PutBody
  <2>2. \A u \in Urls : u # url => Entry(u)' = Entry(u)
    BY <2>1 DEF Entry, CacheTypeOK
  <2>3. \A u \in Urls : Held(u)' = Held(u)
    BY <2>1, <2>2 DEF Held, Storing
  <2> QED  BY <1>1, <2>1, <2>3
<1>8. CASE DieWalking
  <2>1. cacheDeaths' = cacheDeaths + 1 /\ UNCHANGED <<site, changes, paid>>
    BY <1>8 DEF DieWalking
  <2>2. \A u \in Urls : paid[u] \in Nat /\ changes[u] \in Nat /\ cacheDeaths \in Nat
    BY DEF CacheTypeOK
  <2>3. \A u \in Urls : paid[u] <= changes[u] + (cacheDeaths + 1)
                        /\ paid[u] <= 1 + changes[u] + (cacheDeaths + 1)
    BY <2>2 DEF PaidInv
  <2> QED  BY <2>1, <2>3 DEF PaidInv
<1>9. ASSUME NEW v \in Urls, SiteChanges(v)  PROVE PaidInv'
  <2>1. /\ changes' = [changes EXCEPT ![v] = changes[v] + 1]
        /\ \A u \in Urls : u # v => site'[u] = site[u]
        /\ UNCHANGED <<metaFile, bodyFile, walkAt, url, cached, paid, cacheDeaths>>
    BY <1>9 DEF SiteChanges, CacheTypeOK
  <2>2. \A u \in Urls : Held(u)' = Held(u)
    BY <2>1 DEF Held, Entry
  <2>3. \A u \in Urls : paid[u] \in Nat /\ changes[u] \in Nat /\ cacheDeaths \in Nat
    BY DEF CacheTypeOK
  <2>4. changes'[v] = changes[v] + 1 /\ \A u \in Urls : u # v => changes'[u] = changes[u]
    BY <2>1 DEF CacheTypeOK
  <2>5. paid[v] <= changes[v] + 1 + cacheDeaths  BY <2>3 DEF PaidInv
  <2>6. paid'[v] <= changes'[v] + cacheDeaths' /\ paid'[v] <= 1 + changes'[v] + cacheDeaths'
    BY <2>1, <2>3, <2>4, <2>5
  <2> QED  BY <2>1, <2>2, <2>4, <2>6 DEF PaidInv
<1>10. ASSUME NEW v \in Urls, Expire(v)  PROVE PaidInv'
  <2>1. /\ metaFile[v] \in Meta
        /\ metaFile' = [metaFile EXCEPT ![v] = [metaFile[v] EXCEPT !.fresh = FALSE]]
        /\ UNCHANGED <<site, bodyFile, walkAt, url, cached, paid, changes, cacheDeaths>>
    BY <1>10 DEF Expire
  <2>2. metaFile'[v] \in Meta /\ metaFile'[v].etag = metaFile[v].etag
    BY <2>1, AgeIsNotContent DEF CacheTypeOK
  <2>3. Entry(v)'.meta.etag = Entry(v).meta.etag
    BY <2>1, <2>2 DEF Entry
  <2>4. \A u \in Urls : u # v => Entry(u)' = Entry(u)
    BY <2>1 DEF Entry, CacheTypeOK
  <2>5. \A u \in Urls : Held(u)' = Held(u)  BY <2>1, <2>3, <2>4 DEF Held
  <2> QED  BY <1>1, <2>1, <2>5
<1> QED  BY <1>3, <1>4, <1>5, <1>6, <1>7, <1>8, <1>9, <1>10 DEF CacheNext, WalkStep

-----------------------------------------------------------------------------
(* Files, request, path and counts hold together: the invariant of the     *)
(* theorems below.                                                         *)
THEOREM CacheInvariant == CacheSpec => []CacheInv
<1>1. CacheInit => CacheInv  BY InitHolds
<1>2. CacheInv /\ [CacheNext]_cacheVars => CacheInv'
  BY CacheTypeNext, FilesInvNext, RequestInvNext, PathInvNext, PagesInvNext, PaidInvNext
  DEF CacheInv
<1> QED  BY <1>1, <1>2, PTL DEF CacheSpec

(* Files, entries and pages stay in their types, the retries below their   *)
(* bound: a body cut off is never yielded as a page.                       *)
THEOREM CacheTyped == CacheSpec => []CacheTypeOK
<1>1. CacheInv => CacheTypeOK  BY DEF CacheInv
<1> QED  BY <1>1, CacheInvariant, PTL

(* A page is answered in full at most once for each version it has had and *)
(* once more for each run that was killed: the rate limit is not spent on  *)
(* what the cache holds.                                                   *)
THEOREM EachVersionPaidOnce == CacheSpec => []PaidOnce
<1>1. CacheInv => PaidOnce  BY DEF CacheInv, PaidInv, PaidOnce
<1> QED  BY <1>1, CacheInvariant, PTL

(* Items and link of a page are of one answer unless a run was killed over *)
(* its entry; no page comes twice; and a walk that went to the end while   *)
(* nothing changed is the listing.                                         *)
THEOREM WalkIsAlwaysTheListing == CacheSpec => []WalkIsTheListing
<1>1. CacheInv => WalkIsTheListing
  <2> SUFFICES ASSUME CacheInv  PROVE WalkIsTheListing
    OBVIOUS
  <2> USE DEF CacheInv
  <2>1. \A i \in 1 .. Len(walked) : walked[i].url \notin cut =>
          walked[i].next = LinkOf[walked[i].url][walked[i].body]
    BY DEF PagesInv
  <2>2. \A i, j \in 1 .. Len(walked) : walked[i].url = walked[j].url => i = j
    BY DEF PathInv
  <2>3. pure /\ cut = {} => \A i \in 1 .. Len(walked) : walked[i].body = site[walked[i].url]
    BY DEF PagesInv
  <2>4. ended => /\ walked[1].url = First
                 /\ \A i \in 1 .. Len(walked) - 1 : walked[i].next = walked[i + 1].url
                 /\ walked[Len(walked)].next \in visited \cup {NoUrl}
    BY DEF PathInv
  <2> QED  BY <2>1, <2>2, <2>3, <2>4 DEF WalkIsTheListing
<1> QED  BY <1>1, CacheInvariant, PTL

-----------------------------------------------------------------------------
(* A write to the Hub is one commit: every shard of a run and the manifest *)
(* are MAX_FILES_PER_COMMIT files at most.                                 *)
OneCommit == \A c \in Collections : Cardinality(Named(BuildShards(c))) < FilesPerCommit

(* A run in its first steps has written nothing; one that collected        *)
(* nothing never does.                                                     *)
PhasesOfARun ==
  /\ pc \in {"idle", "build"} => ~wrote /\ done = {}
  /\ IF pc = "idle" THEN units = <<>> ELSE units \in Collections
  /\ pc = "write" <=> todo # {}
  /\ todo \subseteq Named(BuildShards(units)) \cup {Manifest}
  /\ units = <<>> => ~wrote
  /\ pc \in {"prune", "finish"} => done = UnitsOf(units)

(* The manifest lists what the run built when its write is over, and what  *)
(* the last finished run built until another run comes to write.           *)
ManifestIsOfTheRun ==
  /\ pc = "write" => Manifest \in todo \/ manifest = BuildShards(units)
  /\ pc \in {"upsert", "prune", "finish"} => manifest = BuildShards(units)

Untouched == pc \in {"idle", "build"} \/ units = last

Indexed(c) == \A u \in UnitsOf(c) : rows[u] # NoRow /\ rows[u].text = TextOf(c, u)

Pruned(c) ==
  (\E v \in UnitsOf(c) : KindOf[v] \in COMPLETE_KINDS) =>
    \A u \in Units \ UnitsOf(c) : KindOf[u] \in COMPLETE_KINDS => rows[u] = NoRow

RowsAreOfTheRun ==
  /\ \A u \in done : rows[u] # NoRow /\ rows[u].text = TextOf(units, u)
  /\ pc = "finish" => Pruned(units)

(* What the last finished run left, as long as no run changed it.          *)
LastStands ==
  last # <<>> /\ Untouched =>
    manifest = BuildShards(last) /\ Indexed(last) /\ Pruned(last) /\ ~wrote /\ todo = {}

IngestInv ==
  /\ IngestTypeOK /\ PhasesOfARun /\ ManifestIsOfTheRun /\ RowsAreOfTheRun /\ LastStands

(* The shards: on the Hub those of the manifest, as one commit; in a       *)
(* directory those that are left to write come before the manifest.        *)
ShardsAreThere ==
  /\ \A s \in Named(manifest) : shards[s] # <<>>
  /\ pc = "write" => \A s \in Named(BuildShards(units)) \ todo : shards[s] # <<>>

HubIsOneCommit ==
  sink = "hub" =>
    /\ \A s \in Named(manifest) : shards[s] = manifest[s]
    /\ pc = "write" => todo = Changed(BuildShards(units))

ShardsInv == IngestInv /\ ShardsAreThere /\ HubIsOneCommit /\ RowsHaveShards

-----------------------------------------------------------------------------
(***************************************************************************)
(* Lemmas about the operators.                                             *)
(***************************************************************************)
LEMMA QuotientIsMonotone ==
  ASSUME NEW a \in Nat, NEW b \in Nat, NEW k \in Nat \ {0}, a <= b
  PROVE  a \div k \in 0 .. b \div k
OBVIOUS

LEMMA FilesAreFinite == IsFiniteSet(Files)
<1>1. IsFiniteSet(Kinds)
  <2>1. Kinds = {"issue"} \cup {"source"}  BY DEF Kinds
  <2>2. IsFiniteSet({"issue"}) /\ IsFiniteSet({"source"})  BY FS_Singleton
  <2> QED  BY <2>1, <2>2, FS_Union
<1>2. IsFiniteSet(0 .. (LongestList - 1) \div RowsPerShard)
  <2>1. (LongestList - 1) \div RowsPerShard \in Int  BY IngestAssumption
  <2> QED  BY <2>1, FS_Interval
<1>3. IsFiniteSet(ShardNames)  BY <1>1, <1>2, FS_Product DEF ShardNames
<1>4. IsFiniteSet({Manifest})  BY FS_Singleton
<1> QED  BY <1>3, <1>4, FS_Union DEF Files

LEMMA ManifestIsNoShard == Manifest \notin ShardNames
BY DEF Manifest, ShardNames, Kinds

LEMMA CollectionsAreTexts ==
  ASSUME NEW c \in Collections \cup {<<>>}
  PROVE  /\ c \in Texts /\ Len(c) \in Nat /\ Len(c) <= LongestList
         /\ DOMAIN c = 1 .. Len(c)
         /\ \A i \in DOMAIN c : c[i] \in Item /\ c[i].unit \in Units /\ c[i].text \in Contents
         /\ UnitsOf(c) \subseteq Units
<1>1. c \in Seq(Item) /\ Len(c) <= LongestList
  <2>1. <<>> \in Seq(Item) /\ Len(<<>>) = 0 /\ 0 <= LongestList
    BY IngestAssumption
  <2>2. CASE c = <<>>
    BY <2>1, <2>2
  <2>3. CASE c \in Collections
    BY <2>3, IngestAssumption
  <2> QED  BY <2>2, <2>3
<1>2. \A i \in DOMAIN c : c[i] \in Item
  BY <1>1
<1> QED  BY <1>1, <1>2 DEF Texts, Item, UnitsOf

LEMMA PlacesAreFinite ==
  ASSUME NEW c \in Collections \cup {<<>>}
  PROVE  IsFiniteSet(1 .. Len(c)) /\ Cardinality(1 .. Len(c)) = Len(c)
<1>1. PICK n \in Nat : n = Len(c)
  BY CollectionsAreTexts
<1>2. IsFiniteSet(1 .. n) /\ Cardinality(1 .. n) = n
  BY FS_Interval
<1> QED  BY <1>1, <1>2

(* The first and the last place of a unit, and the text it has.            *)
LEMMA UnitHasPlaces ==
  ASSUME NEW c \in Collections \cup {<<>>}, NEW u \in UnitsOf(c)
  PROVE  /\ FirstPlace(c, u) \in DOMAIN c /\ c[FirstPlace(c, u)].unit = u
         /\ Max(PlacesOf(c, u)) \in DOMAIN c /\ c[Max(PlacesOf(c, u))].unit = u
         /\ TextOf(c, u) \in Contents
<1>1. PlacesOf(c, u) \subseteq 1 .. Len(c) /\ PlacesOf(c, u) # {}
  BY CollectionsAreTexts DEF PlacesOf, UnitsOf
<1>2. PlacesOf(c, u) \in SUBSET Nat /\ IsFiniteSet(PlacesOf(c, u))
  BY <1>1, PlacesAreFinite, FS_Subset
<1>3. FirstPlace(c, u) \in PlacesOf(c, u) /\ Max(PlacesOf(c, u)) \in PlacesOf(c, u)
  BY <1>1, <1>2, MinIsLeast, MaxIsGreatest DEF FirstPlace
<1>4. /\ FirstPlace(c, u) \in DOMAIN c /\ c[FirstPlace(c, u)].unit = u
      /\ Max(PlacesOf(c, u)) \in DOMAIN c /\ c[Max(PlacesOf(c, u))].unit = u
  BY <1>3 DEF PlacesOf
<1> QED  BY <1>4, CollectionsAreTexts DEF TextOf

(* Every place of a list is in a shard that there is a name for.           *)
LEMMA PlacesAreShards ==
  ASSUME NEW c \in Collections \cup {<<>>}, NEW i \in DOMAIN c
  PROVE  ShardAt(c, i) \in ShardNames
<1> DEFINE kind == KindOf[c[i].unit]
           before == {j \in DOMAIN c : KindOf[c[j].unit] = kind /\ SortsBefore(c, j, i)}
<1>1. /\ DOMAIN c = 1 .. Len(c) /\ Len(c) \in Nat /\ Len(c) <= LongestList
      /\ kind \in Kinds /\ Rank[c[i].unit] \in Nat
  BY CollectionsAreTexts, IngestAssumption
<1>2. before \subseteq (1 .. Len(c)) \ {i}
  BY <1>1 DEF SortsBefore
<1> HIDE DEF before, kind
<1>3. /\ IsFiniteSet((1 .. Len(c)) \ {i})
      /\ Cardinality((1 .. Len(c)) \ {i}) = Len(c) - 1
  <2>1. i \in 1 .. Len(c)
    BY <1>1
  <2> QED  BY <2>1, PlacesAreFinite, FS_RemoveElement
<1>4. /\ Cardinality(before) \in Nat
      /\ Cardinality(before) <= Len(c) - 1
  <2>1. IsFiniteSet(before) /\ Cardinality(before) <= Cardinality((1 .. Len(c)) \ {i})
    BY <1>2, <1>3, FS_Subset
  <2>2. Cardinality(before) \in Nat
    BY <2>1, FS_CardinalityType
  <2> QED  BY <1>3, <2>1, <2>2
<1>5. Cardinality(before) <= LongestList - 1 /\ LongestList - 1 \in Nat
  BY <1>1, <1>4, IngestAssumption
<1>6. Cardinality(before) \div RowsPerShard \in 0 .. (LongestList - 1) \div RowsPerShard
  BY <1>4, <1>5, QuotientIsMonotone, IngestAssumption
<1>7. ShardAt(c, i) = <<kind, Cardinality(before) \div RowsPerShard>>
  BY DEF ShardAt, kind, before
<1> QED  BY <1>1, <1>6, <1>7 DEF ShardNames

(* Sorting gives every one of the places once.                             *)
LEMMA SortingKeepsAll ==
  ASSUME NEW c \in Collections \cup {<<>>}, NEW places \in SUBSET DOMAIN c
  PROVE  /\ Cardinality(places) \in Nat
         /\ \A m \in 1 .. Cardinality(places) : SortedAt(c, places, m) \in places
         /\ \A m, n \in 1 .. Cardinality(places) :
              SortedAt(c, places, m) = SortedAt(c, places, n) => m = n
         /\ \A i \in places : \E m \in 1 .. Cardinality(places) : SortedAt(c, places, m) = i
<1> DEFINE R == {p \in places \X places : SortsBefore(c, p[1], p[2])}
           size == Cardinality(places)
<1>1. /\ places \subseteq 1 .. Len(c) /\ Len(c) \in Nat
      /\ \A i \in places : i \in Nat /\ Rank[c[i].unit] \in Nat
  BY CollectionsAreTexts, IngestAssumption
<1>2. IsFiniteSet(places) /\ size \in Nat
  BY <1>1, PlacesAreFinite, FS_Subset, FS_CardinalityType
<1>3. \A i, j \in places : <<i, j>> \in R <=> SortsBefore(c, i, j)
  OBVIOUS
<1>4. /\ \A i \in places : ~SortsBefore(c, i, i)
      /\ \A i, j, k \in places :
           SortsBefore(c, i, j) /\ SortsBefore(c, j, k) => SortsBefore(c, i, k)
      /\ \A i, j \in places : i = j \/ SortsBefore(c, i, j) \/ SortsBefore(c, j, i)
  BY <1>1 DEF SortsBefore
<1> HIDE DEF R, size
<1>5. Orders(R, places)
  BY <1>3, <1>4 DEF Orders
<1>6. /\ RankIn(R, places) \in [places -> 0 .. size - 1]
      /\ \A i, j \in places : RankIn(R, places)[i] = RankIn(R, places)[j] => i = j
      /\ \A n \in 0 .. size - 1 : \E i \in places : RankIn(R, places)[i] = n
  <2>1. RankIn(R, places) \in Bijection(places, 0 .. size - 1)
    BY <1>2, <1>5, RanksNumber DEF size
  <2> QED  BY <2>1 DEF Bijection, Injection, Surjection, IsInjective
<1>7. ASSUME NEW i \in places
      PROVE  Cardinality({j \in places : SortsBefore(c, j, i)}) = RankIn(R, places)[i]
  <2>1. {j \in places : SortsBefore(c, j, i)} = Below(R, places, i)
    BY <1>3 DEF Below
  <2> QED  BY <2>1 DEF RankIn
<1>8. ASSUME NEW m \in 1 .. size
      PROVE  /\ SortedAt(c, places, m) \in places
             /\ RankIn(R, places)[SortedAt(c, places, m)] = m - 1
  <2>1. m - 1 \in 0 .. size - 1
    BY <1>2
  <2>2. \E i \in places : Cardinality({j \in places : SortsBefore(c, j, i)}) = m - 1
    BY <1>6, <1>7, <2>1
  <2>3. /\ SortedAt(c, places, m) \in places
        /\ Cardinality({j \in places : SortsBefore(c, j, SortedAt(c, places, m))}) = m - 1
    BY <2>2 DEF SortedAt
  <2> QED  BY <1>7, <2>3
<1>9. ASSUME NEW i \in places
      PROVE  \E m \in 1 .. size : SortedAt(c, places, m) = i
  <2>1. RankIn(R, places)[i] + 1 \in 1 .. size
        /\ RankIn(R, places)[i] + 1 - 1 = RankIn(R, places)[i]
    BY <1>2, <1>6
  <2>2. SortedAt(c, places, RankIn(R, places)[i] + 1) = i
    BY <1>6, <1>8, <2>1
  <2> QED  BY <2>1, <2>2
<1>10. ASSUME NEW m \in 1 .. size, NEW n \in 1 .. size,
              SortedAt(c, places, m) = SortedAt(c, places, n)
       PROVE  m = n
  <2>1. m - 1 = n - 1
    BY <1>8, <1>10
  <2> QED  BY <1>2, <2>1
<1> QED  BY <1>2, <1>8, <1>9, <1>10 DEF size

(* The shards of a list hold its places, each in one line.                 *)
LEMMA ShardsHoldThePlaces ==
  ASSUME NEW c \in Collections \cup {<<>>}, NEW s \in ShardNames
  PROVE  /\ Cardinality(PlacesIn(c, s)) \in Nat
         /\ BuildShards(c)[s] \in Texts
         /\ DOMAIN BuildShards(c)[s] = 1 .. Cardinality(PlacesIn(c, s))
         /\ \A m \in DOMAIN BuildShards(c)[s] :
              /\ SortedAt(c, PlacesIn(c, s), m) \in PlacesIn(c, s)
              /\ BuildShards(c)[s][m] = c[SortedAt(c, PlacesIn(c, s), m)]
<1> DEFINE places == PlacesIn(c, s)
<1>1. places \in SUBSET DOMAIN c
  BY DEF PlacesIn
<1>2. BuildShards(c)[s] = [m \in 1 .. Cardinality(places) |-> c[SortedAt(c, places, m)]]
  BY DEF BuildShards
<1> HIDE DEF places
<1>3. /\ Cardinality(places) \in Nat
      /\ \A m \in 1 .. Cardinality(places) :
           SortedAt(c, places, m) \in places /\ c[SortedAt(c, places, m)] \in Item
  BY <1>1, SortingKeepsAll, CollectionsAreTexts
<1>4. BuildShards(c)[s] \in Seq(Item)
  BY <1>2, <1>3
<1> QED  BY <1>2, <1>3, <1>4 DEF places, Texts

LEMMA ShardsAreTexts ==
  ASSUME NEW c \in Collections \cup {<<>>}
  PROVE  BuildShards(c) \in [ShardNames -> Texts]
<1>1. \A s \in ShardNames : BuildShards(c)[s] \in Texts
  BY ShardsHoldThePlaces
<1>2. \E f : BuildShards(c) = [s \in ShardNames |-> f[s]]
  <2>1. BuildShards(c) = [s \in ShardNames |-> BuildShards(c)[s]]
    BY DEF BuildShards
  <2> QED  BY <2>1
<1> QED  BY <1>1, <1>2

LEMMA PlacesHaveShards ==
  ASSUME NEW c \in Collections \cup {<<>>}, NEW i \in DOMAIN c
  PROVE  ShardAt(c, i) \in Named(BuildShards(c))
<1> DEFINE s == ShardAt(c, i)
<1>1. s \in ShardNames
  BY PlacesAreShards
<1>2. i \in PlacesIn(c, s) /\ PlacesIn(c, s) \in SUBSET DOMAIN c
  BY DEF PlacesIn
<1> HIDE DEF s
<1>3. PICK m \in 1 .. Cardinality(PlacesIn(c, s)) : SortedAt(c, PlacesIn(c, s), m) = i
  BY <1>2, SortingKeepsAll
<1>4. m \in DOMAIN BuildShards(c)[s]
  BY <1>1, ShardsHoldThePlaces
<1>5. DOMAIN <<>> = {}
  OBVIOUS
<1>6. BuildShards(c)[s] # <<>>
  BY <1>4, <1>5
<1> QED  BY <1>1, <1>6 DEF Named, s

LEMMA UnitsHaveShards ==
  ASSUME NEW c \in Collections \cup {<<>>}, NEW u \in UnitsOf(c)
  PROVE  Placement(c, u) \in Named(BuildShards(c)) /\ Placement(c, u) \in ShardNames
BY UnitHasPlaces, PlacesHaveShards, PlacesAreShards DEF Placement

LEMMA NothingBuildsNothing ==
  /\ BuildShards(<<>>) = [s \in ShardNames |-> <<>>]
  /\ Named(BuildShards(<<>>)) = {}
<1>1. DOMAIN <<>> = {}  OBVIOUS
<1>2. ASSUME NEW s \in ShardNames  PROVE BuildShards(<<>>)[s] = <<>>
  <2>1. PlacesIn(<<>>, s) = {}
    BY <1>1 DEF PlacesIn
  <2>2. Cardinality(PlacesIn(<<>>, s)) = 0
    BY <2>1, FS_EmptySet
  <2>3. /\ DOMAIN BuildShards(<<>>)[s] = 1 .. Cardinality(PlacesIn(<<>>, s))
        /\ BuildShards(<<>>)[s] \in Texts
    BY ShardsHoldThePlaces
  <2>4. DOMAIN BuildShards(<<>>)[s] = 1 .. 0 /\ BuildShards(<<>>)[s] \in Seq(Item)
    BY <2>2, <2>3 DEF Texts
  <2>5. PICK t \in Seq(Item) : t = BuildShards(<<>>)[s]
    BY <2>4
  <2>6. DOMAIN t = 1 .. Len(t) /\ Len(t) \in Nat
    BY <2>5
  <2>7. 1 \notin DOMAIN t
    BY <2>4, <2>5
  <2>8. Len(t) = 0
    BY <2>6, <2>7
  <2>9. t = <<>>
    BY <2>5, <2>8, EmptySeq
  <2> QED  BY <2>5, <2>9
<1>3. BuildShards(<<>>) = [s \in ShardNames |-> <<>>]
  BY <1>2, ShardsAreTexts
<1> QED  BY <1>2, <1>3 DEF Named

(* Only what differs is written; if nothing is, the manifest is right.     *)
LEMMA ChangedIsEnough ==
  ASSUME NEW c \in Collections \cup {<<>>}, manifest \in [ShardNames -> Texts]
  PROVE  /\ Changed(BuildShards(c)) \subseteq Named(BuildShards(c)) \cup {Manifest}
         /\ Changed(BuildShards(c)) # {} => Manifest \in Changed(BuildShards(c))
         /\ Changed(BuildShards(c)) = {} <=> manifest = BuildShards(c)
         /\ \A s \in Named(BuildShards(c)) \ Changed(BuildShards(c)) :
              s \in Named(manifest) /\ manifest[s] = BuildShards(c)[s]
<1> DEFINE built == BuildShards(c)
<1>1. built \in [ShardNames -> Texts]  BY ShardsAreTexts
<1> HIDE DEF built
<1>2. /\ Changed(built) \subseteq Named(built) \cup {Manifest}
      /\ Changed(built) # {} => Manifest \in Changed(built)
  BY DEF Changed
<1>3. \A s \in Named(built) \ Changed(built) : s \in Named(manifest) /\ manifest[s] = built[s]
  BY DEF Changed, Named
<1>4. ASSUME Changed(built) = {}  PROVE manifest = built
  <2>1. \A s \in ShardNames : manifest[s] = built[s]
    BY <1>4, <1>3 DEF Changed, Named
  <2> QED  BY <1>1, <2>1
<1>5. ASSUME manifest = built  PROVE Changed(built) = {}
  BY <1>5 DEF Changed
<1> QED  BY <1>2, <1>3, <1>4, <1>5 DEF built

-----------------------------------------------------------------------------
(***************************************************************************)
(* What becomes visible at once.                                           *)
(***************************************************************************)

(* A directory: one file at a time, the manifest after every shard.        *)
LEMMA ManifestComesLast ==
  ASSUME sink = "local", todo \subseteq Files, Manifest \in NextFiles
  PROVE  todo = {Manifest}
<1> DEFINE earlier == {g \in todo : Before(g, Manifest)}
<1>1. Manifest \in todo /\ Cardinality(earlier) < 1
  BY DEF NextFiles
<1>2. earlier = {}
  <2>1. IsFiniteSet(earlier)  BY FilesAreFinite, FS_Subset
  <2>2. Cardinality(earlier) = 0  BY <1>1, <2>1, FS_CardinalityType
  <2> HIDE DEF earlier
  <2> QED  BY <2>1, <2>2, FS_EmptySet
<1>3. ASSUME NEW s \in todo, s # Manifest  PROVE FALSE
  <2>1. s \in ShardNames  BY <1>3 DEF Files
  <2>2. s[1] = "issue" \/ s[1] = "source"  BY <2>1 DEF ShardNames, Kinds
  <2>3. Order(s) < 3  BY <2>2 DEF Order
  <2>4. Order(Manifest) = 3  BY DEF Order, Manifest
  <2>5. Before(s, Manifest)  BY <2>3, <2>4 DEF Before
  <2> QED  BY <1>2, <1>3, <2>5
<1> QED  BY <1>1, <1>3

(* The manifest alone is one file of either.                               *)
LEMMA ManifestAlone ==
  ASSUME todo = {Manifest}
  PROVE  NextFiles = {Manifest}
<1>1. ~Before(Manifest, Manifest)
  <2>1. Order(Manifest) \in Nat  BY DEF Order, Manifest
  <2> QED  BY <2>1 DEF Before, Manifest
<1>2. {g \in todo : Before(g, Manifest)} = {}  BY <1>1
<1>3. Cardinality({g \in todo : Before(g, Manifest)}) = 0  BY <1>2, FS_EmptySet
<1>4. FilesPerCommit \in Nat \ {0}  BY IngestAssumption
<1> QED  BY <1>3, <1>4 DEF NextFiles

(* The Hub: everything in one commit.                                      *)
LEMMA OneCommitTakesAll ==
  ASSUME OneCommit, sink = "hub", units \in Collections,
         todo \subseteq Named(BuildShards(units)) \cup {Manifest}
  PROVE  NextFiles = todo
<1> DEFINE named == Named(BuildShards(units))
<1>1. named \subseteq ShardNames  BY DEF Named
<1>2. IsFiniteSet(named)  BY <1>1, FilesAreFinite, FS_Subset DEF Files
<1>3. Cardinality(named) \in Nat /\ Cardinality(named) < FilesPerCommit
  BY <1>2, FS_CardinalityType DEF OneCommit
<1> HIDE DEF named
<1>4. /\ IsFiniteSet(named \cup {Manifest})
      /\ Cardinality(named \cup {Manifest}) <= Cardinality(named) + 1
  <2>1. /\ IsFiniteSet(named \cup {Manifest})
        /\ Manifest \notin named
    BY <1>1, <1>2, FS_AddElement, ManifestIsNoShard DEF named
  <2>2. Cardinality(named \cup {Manifest}) =
           IF Manifest \in named THEN Cardinality(named) ELSE Cardinality(named) + 1
    BY <1>2, FS_AddElement
  <2> QED  BY <1>3, <2>1, <2>2
<1>5. ASSUME NEW f \in todo
      PROVE  Cardinality({g \in todo : Before(g, f)}) < FilesPerCommit
  <2> DEFINE earlier == {g \in todo : Before(g, f)}
  <2>1. ~Before(f, f)
    <3>1. CASE f = Manifest
      <4>1. Order(Manifest) \in Nat  BY DEF Order, Manifest
      <4> QED  BY <3>1, <4>1 DEF Before, Manifest
    <3>2. CASE f # Manifest
      <4>1. f \in ShardNames  BY <3>2, <1>1 DEF named
      <4>2. f[1] \in Kinds /\ f[2] \in Int  BY <4>1 DEF ShardNames
      <4>3. Order(f) \in Nat  BY <4>2 DEF Order, Kinds
      <4> QED  BY <4>2, <4>3 DEF Before
    <3> QED  BY <3>1, <3>2
  <2>2. earlier \subseteq todo \ {f} /\ todo \subseteq named \cup {Manifest}
    BY <2>1 DEF named
  <2>3. /\ IsFiniteSet(todo) /\ Cardinality(todo) <= Cardinality(named \cup {Manifest})
        /\ Cardinality(todo) \in Nat /\ Cardinality(named \cup {Manifest}) \in Nat
    BY <2>2, <1>4, FS_Subset, FS_CardinalityType
  <2>4. IsFiniteSet(todo \ {f}) /\ Cardinality(todo \ {f}) = Cardinality(todo) - 1
    BY <2>3, FS_RemoveElement
  <2>5. Cardinality(earlier) <= Cardinality(todo \ {f}) /\ Cardinality(earlier) \in Nat
    BY <2>2, <2>4, FS_Subset, FS_CardinalityType
  <2> QED  BY <1>3, <1>4, <2>3, <2>4, <2>5, IngestAssumption
<1>6. NextFiles = {f \in todo : Cardinality({g \in todo : Before(g, f)}) < FilesPerCommit}
  BY DEF NextFiles
<1> QED  BY <1>5, <1>6

-----------------------------------------------------------------------------
(***************************************************************************)
(* What holds of either store.                                             *)
(***************************************************************************)
LEMMA IngestInvInit == ASSUME IngestInit PROVE IngestInv
<1> USE DEF IngestInit
<1>1. <<>> \in Texts  BY CollectionsAreTexts
<1>2. UnitsOf(<<>>) = {}  BY DEF UnitsOf
<1>3. IngestTypeOK  BY <1>1, <1>2 DEF IngestTypeOK
<1>4. PhasesOfARun /\ ManifestIsOfTheRun /\ RowsAreOfTheRun /\ LastStands
  BY DEF PhasesOfARun, ManifestIsOfTheRun, RowsAreOfTheRun, LastStands
<1> QED  BY <1>3, <1>4 DEF IngestInv

LEMMA CollectKeepsInv == ASSUME IngestInv, Collect PROVE IngestInv'
<1> USE DEF IngestInv, Collect, storeVars
<1>1. IngestTypeOK'
  <2>1. done' \subseteq UnitsOf(units')  BY DEF PhasesOfARun
  <2> QED  BY <2>1 DEF IngestTypeOK
<1>2. PhasesOfARun'  BY DEF PhasesOfARun
<1>3. ManifestIsOfTheRun'  BY DEF ManifestIsOfTheRun
<1>4. RowsAreOfTheRun'  BY DEF RowsAreOfTheRun, PhasesOfARun
<1>5. LastStands'  BY DEF LastStands, Untouched, Indexed, Pruned
<1> QED  BY <1>1, <1>2, <1>3, <1>4, <1>5

LEMMA BuiltOfRun == ASSUME IngestTypeOK PROVE ShardsOf[units] = BuildShards(units)
BY DEF IngestTypeOK, ShardsOf

LEMMA BuildKeepsInv == ASSUME IngestInv, Build PROVE IngestInv'
<1> USE DEF IngestInv, Build, storeVars
<1> DEFINE built == BuildShards(units)
<1>0. ShardsOf[units] = built
  BY BuiltOfRun
<1> USE <1>0
<1>1. /\ units \in Collections \cup {<<>>} /\ manifest \in [ShardNames -> Texts]
      /\ last \in Collections \cup {<<>>}
  BY DEF IngestTypeOK
<1>2. /\ Changed(built) \subseteq Named(built) \cup {Manifest}
      /\ Changed(built) # {} => Manifest \in Changed(built)
      /\ Changed(built) = {} <=> manifest = built
  BY <1>1, ChangedIsEnough
<1>3. IngestTypeOK'
  <2>1. todo' \subseteq Files  BY <1>2 DEF Files, Named
  <2> QED  BY <2>1 DEF IngestTypeOK
<1>4. PhasesOfARun'  BY <1>2 DEF PhasesOfARun
<1>5. ManifestIsOfTheRun'  BY <1>2 DEF ManifestIsOfTheRun
<1>6. RowsAreOfTheRun'  BY DEF RowsAreOfTheRun, PhasesOfARun
<1>7. LastStands'
  <2> SUFFICES ASSUME last # <<>>, units = last
               PROVE  manifest = BuildShards(last) /\ Indexed(last) /\ Pruned(last)
                      /\ ~wrote /\ todo' = {}
    BY DEF LastStands, Untouched, Indexed, Pruned
  <2> QED  BY <1>2 DEF LastStands, Untouched
<1> QED  BY <1>3, <1>4, <1>5, <1>6, <1>7

(* A file lands; the last of the write may be the manifest or not, but it  *)
(* has landed before the write is over.                                    *)
LEMMA WriteKeepsInv == ASSUME IngestInv, Write PROVE IngestInv'
<1> USE DEF IngestInv, storeVars
<1> DEFINE built == BuildShards(units)
<1>1. /\ pc = "write" /\ pc' \in {"upsert", "write"}
      /\ shards' = [s \in ShardNames |-> IF s \in NextFiles THEN built[s] ELSE shards[s]]
      /\ manifest' = IF Manifest \in NextFiles THEN built ELSE manifest
      /\ todo' = todo \ NextFiles
      /\ wrote' = (wrote \/ NextFiles # {Manifest})
      /\ pc' = IF todo' = {} THEN "upsert" ELSE "write"
      /\ UNCHANGED <<sink, rows, units, done, last>>
  BY BuiltOfRun DEF Write
<1>2. /\ units \in Collections \cup {<<>>}
      /\ built \in [ShardNames -> Texts]
  BY ShardsAreTexts DEF IngestTypeOK
<1> HIDE DEF built
<1>3. IngestTypeOK'
  <2>1. shards' \in [ShardNames -> Texts] /\ manifest' \in [ShardNames -> Texts]
    BY <1>1, <1>2 DEF IngestTypeOK
  <2>2. wrote' \in BOOLEAN  BY <1>1
  <2> QED  BY <1>1, <2>1, <2>2 DEF IngestTypeOK
<1>4. PhasesOfARun'
  <2>1. ASSUME units = <<>>  PROVE ~wrote'
    <3>1. todo = {Manifest}
      BY <1>1, <2>1, NothingBuildsNothing DEF PhasesOfARun
    <3> QED  BY <1>1, <2>1, <3>1, ManifestAlone DEF PhasesOfARun
  <2> QED  BY <1>1, <2>1 DEF PhasesOfARun, built
<1>5. ManifestIsOfTheRun'
  <2>1. Manifest \in NextFiles => manifest' = built  BY <1>1
  <2>2. Manifest \in todo' \/ manifest' = built
    BY <1>1 DEF ManifestIsOfTheRun, built
  <2> QED  BY <1>1, <2>2 DEF ManifestIsOfTheRun, built
<1>6. RowsAreOfTheRun'  BY <1>1 DEF RowsAreOfTheRun
<1>7. LastStands'
  <2>1. todo # {}  BY <1>1 DEF PhasesOfARun
  <2>2. ~(last # <<>> /\ units = last)  BY <2>1 DEF LastStands, Untouched
  <2> QED  BY <1>1, <2>2 DEF LastStands, Untouched
<1> QED  BY <1>3, <1>4, <1>5, <1>6, <1>7

(* A batch of rows.  What the last finished run left is touched by a run   *)
(* that collected something else only.                                     *)
LEMMA UpsertKeepsInv == ASSUME IngestInv, Upsert PROVE IngestInv'
<1> USE DEF IngestInv, storeVars
<1> DEFINE left == UnitsOf(units) \ done
           batch == {u \in left : Cardinality({v \in left : Sooner(v, u)}) < BatchSize}
           touched == {u \in batch : Touched(u)}
<1>1. /\ pc = "upsert"
      /\ rows' = [u \in Units |-> IF u \in touched
                                    THEN [text |-> TextOf(units, u), shard |-> Placement(units, u)]
                                    ELSE rows[u]]
      /\ wrote' = (wrote \/ touched # {})
      /\ done' = done \cup batch
      /\ pc' = IF done' = UnitsOf(units) THEN "prune" ELSE "upsert"
      /\ UNCHANGED <<sink, shards, manifest, units, todo, last>>
  BY DEF Upsert
<1>2. batch \subseteq UnitsOf(units) /\ touched \subseteq batch
  OBVIOUS
<1>3. \A u \in batch : u \in touched <=> (rows[u] = NoRow \/ rows[u].text # TextOf(units, u))
  BY DEF Touched
<1> HIDE DEF left, batch, touched
<1>4. /\ units \in Collections \cup {<<>>}
      /\ UnitsOf(units) \subseteq Units
      /\ \A u \in UnitsOf(units) : TextOf(units, u) \in Contents /\ Placement(units, u) \in ShardNames
  BY CollectionsAreTexts, UnitHasPlaces, UnitsHaveShards DEF IngestTypeOK
<1>5. \A u \in touched : rows'[u] \in Row /\ rows'[u].text = TextOf(units, u)
  BY <1>1, <1>2, <1>4 DEF Row
<1>6. IngestTypeOK'
  <2>1. rows' \in [Units -> Row \cup {NoRow}]
    BY <1>1, <1>5 DEF IngestTypeOK
  <2>2. wrote' \in BOOLEAN /\ done' \subseteq UnitsOf(units)  BY <1>1, <1>2 DEF IngestTypeOK
  <2> QED  BY <1>1, <2>1, <2>2 DEF IngestTypeOK
<1>7. PhasesOfARun'
  <2>1. ASSUME units = <<>>  PROVE touched = {}
    <3>1. UnitsOf(units) = {}  BY <2>1 DEF UnitsOf
    <3> QED  BY <1>2, <3>1
  <2> QED  BY <1>1, <2>1 DEF PhasesOfARun
<1>8. ManifestIsOfTheRun'  BY <1>1 DEF ManifestIsOfTheRun
<1>9. RowsAreOfTheRun'
  <2> SUFFICES ASSUME NEW u \in done'
               PROVE  rows'[u] # NoRow /\ rows'[u].text = TextOf(units, u)
    BY <1>1 DEF RowsAreOfTheRun
  <2>1. u \in Units  BY <1>1, <1>2, <1>4 DEF IngestTypeOK
  <2>2. CASE u \in touched  BY <2>2, <1>5, IngestAssumption
  <2>3. CASE u \notin touched
    <3>1. rows'[u] = rows[u]  BY <1>1, <2>1, <2>3
    <3>2. rows[u] # NoRow /\ rows[u].text = TextOf(units, u)
      BY <1>1, <1>3, <2>3 DEF RowsAreOfTheRun
    <3> QED  BY <3>1, <3>2
  <2> QED  BY <2>2, <2>3
<1>10. LastStands'
  <2> SUFFICES ASSUME last # <<>>, units = last
               PROVE  manifest = BuildShards(last) /\ Indexed(last)' /\ Pruned(last)'
                      /\ ~wrote' /\ todo = {}
    BY <1>1 DEF LastStands, Untouched
  <2>1. manifest = BuildShards(last) /\ Indexed(last) /\ Pruned(last) /\ ~wrote /\ todo = {}
    BY DEF LastStands, Untouched
  <2>2. touched = {}  BY <1>2, <1>3, <2>1 DEF Indexed
  <2>3. rows' = rows  BY <1>1, <2>2 DEF IngestTypeOK
  <2>4. Indexed(last)' /\ Pruned(last)'  BY <1>1, <2>1, <2>3 DEF Indexed, Pruned
  <2> QED  BY <1>1, <2>1, <2>2, <2>4
<1> QED  BY <1>6, <1>7, <1>8, <1>9, <1>10

(* Nothing that was collected is pruned.                                   *)
LEMMA PruneKeepsInv == ASSUME IngestInv, Prune PROVE IngestInv'
<1> USE DEF IngestInv, storeVars
<1> DEFINE live == {u \in UnitsOf(units) : KindOf[u] \in COMPLETE_KINDS}
           Gone(u) == live # {} /\ KindOf[u] \in COMPLETE_KINDS /\ u \notin live
<1>1. /\ pc = "prune" /\ pc' = "finish"
      /\ rows' = [u \in Units |-> IF Gone(u) THEN NoRow ELSE rows[u]]
      /\ wrote' = (wrote \/ rows' # rows)
      /\ UNCHANGED <<sink, shards, manifest, units, todo, done, last>>
  BY DEF Prune
<1>2. UnitsOf(units) \subseteq Units  BY CollectionsAreTexts DEF IngestTypeOK
<1>3. \A u \in UnitsOf(units) : ~Gone(u) /\ rows'[u] = rows[u]
  BY <1>1, <1>2
<1>4. IngestTypeOK'
  <2>1. rows' \in [Units -> Row \cup {NoRow}]  BY <1>1 DEF IngestTypeOK
  <2>2. wrote' \in BOOLEAN  BY <1>1
  <2> QED  BY <1>1, <2>1, <2>2 DEF IngestTypeOK
<1>5. Pruned(units)'
  <2> SUFFICES ASSUME NEW v \in UnitsOf(units), KindOf[v] \in COMPLETE_KINDS,
                      NEW u \in Units \ UnitsOf(units), KindOf[u] \in COMPLETE_KINDS
               PROVE  rows'[u] = NoRow
    BY <1>1 DEF Pruned
  <2> QED  BY <1>1
<1>6. ASSUME Pruned(units)  PROVE rows' = rows
  <2>1. \A u \in Units : Gone(u) => rows[u] = NoRow  BY <1>6 DEF Pruned
  <2> QED  BY <1>1, <2>1 DEF IngestTypeOK
<1>7. PhasesOfARun'
  <2>1. ASSUME units = <<>>  PROVE ~wrote'
    <3>1. UnitsOf(units) = {}  BY <2>1 DEF UnitsOf
    <3>2. Pruned(units)  BY <3>1 DEF Pruned
    <3> QED  BY <1>1, <1>6, <2>1, <3>2 DEF PhasesOfARun
  <2> QED  BY <1>1, <2>1 DEF PhasesOfARun
<1>8. ManifestIsOfTheRun'  BY <1>1 DEF ManifestIsOfTheRun
<1>9. RowsAreOfTheRun'
  <2>1. done \subseteq UnitsOf(units)  BY DEF IngestTypeOK
  <2> QED  BY <1>1, <1>3, <1>5, <2>1 DEF RowsAreOfTheRun, Pruned
<1>10. LastStands'
  <2> SUFFICES ASSUME last # <<>>, units = last
               PROVE  manifest = BuildShards(last) /\ Indexed(last)' /\ Pruned(last)'
                      /\ ~wrote' /\ todo = {}
    BY <1>1 DEF LastStands, Untouched
  <2>1. manifest = BuildShards(last) /\ Indexed(last) /\ Pruned(last) /\ ~wrote /\ todo = {}
    BY DEF LastStands, Untouched
  <2>2. rows' = rows  BY <1>6, <2>1
  <2>3. Indexed(last)' /\ Pruned(last)'  BY <1>1, <2>1, <2>2 DEF Indexed, Pruned
  <2> QED  BY <1>1, <2>1, <2>2, <2>3
<1> QED  BY <1>4, <1>7, <1>8, <1>9, <1>10

LEMMA FinishKeepsInv == ASSUME IngestInv, Finish PROVE IngestInv'
<1> USE DEF IngestInv, Finish, Over, storeVars
<1>1. UnitsOf(<<>>) = {}  BY DEF UnitsOf
<1>2. IngestTypeOK'  BY <1>1 DEF IngestTypeOK
<1>3. PhasesOfARun' /\ ManifestIsOfTheRun'
  BY DEF PhasesOfARun, ManifestIsOfTheRun
<1>4. RowsAreOfTheRun'  BY DEF RowsAreOfTheRun
<1>5. LastStands'
  <2>1. manifest = BuildShards(units)  BY DEF ManifestIsOfTheRun
  <2>2. Indexed(units) /\ Pruned(units)
    BY DEF RowsAreOfTheRun, PhasesOfARun, Indexed
  <2> QED  BY <2>1, <2>2 DEF LastStands, Indexed, Pruned
<1> QED  BY <1>2, <1>3, <1>4, <1>5

LEMMA StopKeepsInv == ASSUME IngestInv, Stop PROVE IngestInv'
<1> USE DEF IngestInv, Stop, Over, storeVars
<1>1. UnitsOf(<<>>) = {}  BY DEF UnitsOf
<1>2. IngestTypeOK'  BY <1>1 DEF IngestTypeOK
<1>3. PhasesOfARun' /\ ManifestIsOfTheRun' /\ RowsAreOfTheRun' /\ LastStands'
  BY DEF PhasesOfARun, ManifestIsOfTheRun, RowsAreOfTheRun, LastStands
<1> QED  BY <1>2, <1>3

LEMMA IngestInvNext == ASSUME IngestInv, [IngestNext]_ingestVars PROVE IngestInv'
<1>1. CASE UNCHANGED ingestVars
  BY <1>1 DEF ingestVars, storeVars, runVars, IngestInv, IngestTypeOK, PhasesOfARun,
     ManifestIsOfTheRun, RowsAreOfTheRun, LastStands, Untouched, Indexed, Pruned
<1> QED
  BY <1>1, CollectKeepsInv, BuildKeepsInv, WriteKeepsInv, UpsertKeepsInv, PruneKeepsInv,
     FinishKeepsInv, StopKeepsInv DEF IngestNext

(* A run is known by its phase, the manifest and the rows it has written   *)
(* so far, and the last finished one by what stands of it: the invariant   *)
(* the theorems about both stores rest on.                                 *)
THEOREM IngestInvariant == IngestSpec => []IngestInv
<1>1. IngestInit => IngestInv  BY IngestInvInit
<1>2. IngestInv /\ [IngestNext]_ingestVars => IngestInv'  BY IngestInvNext
<1> QED  BY <1>1, <1>2, PTL DEF IngestSpec

(* Files, manifest and rows hold units, shards and texts there are: every  *)
(* unit is placed in a shard that has a name.                              *)
THEOREM IngestTyped == IngestSpec => []IngestTypeOK
<1>1. IngestInv => IngestTypeOK  BY DEF IngestInv
<1> QED  BY <1>1, IngestInvariant, PTL

(* A run that finds what the finished run before it found writes no shard  *)
(* and no row and deletes none (the Phase 1 gate), whatever runs came and  *)
(* stopped before that one.                                                *)
THEOREM RerunsWriteNothing == IngestSpec => []RerunWritesNothing
<1>1. IngestInv => RerunWritesNothing
  BY DEF IngestInv, RerunWritesNothing, LastStands, Untouched, PhasesOfARun
<1> QED  BY <1>1, IngestInvariant, PTL

(* After a finished run the index holds everything collected, as it was    *)
(* collected, and no source unit the tree has lost.                        *)
THEOREM IndexIsTheTree == IngestSpec => []IndexFollowsTree
<1>1. IngestInv => IndexFollowsTree
  BY DEF IngestInv, IndexFollowsTree, Settled, LastStands, Untouched, Indexed, Pruned
<1> QED  BY <1>1, IngestInvariant, PTL

-----------------------------------------------------------------------------
(***************************************************************************)
(* What holds while a write to the Hub is one commit.  TLC refutes both    *)
(* for a write of two: the manifest then comes before shards it lists, and *)
(* the next run takes those for written.                                   *)
(***************************************************************************)
LEMMA ShardsInvInit == ASSUME IngestInit PROVE ShardsInv
<1>1. IngestInv  BY IngestInvInit
<1>2. Named(manifest) = {}  BY DEF IngestInit, Named
<1> QED
  BY <1>1, <1>2 DEF IngestInit, ShardsInv, ShardsAreThere, HubIsOneCommit, RowsHaveShards

LEMMA BuildKeepsShards ==
  ASSUME ShardsInv, Build PROVE ShardsAreThere' /\ HubIsOneCommit' /\ RowsHaveShards'
<1> USE DEF ShardsInv, Build, storeVars
<1> DEFINE built == BuildShards(units)
<1>0. ShardsOf[units] = built
  BY BuiltOfRun DEF IngestInv
<1> USE <1>0
<1>1. \A s \in Named(built) \ Changed(built) : s \in Named(manifest)
  BY ChangedIsEnough DEF IngestInv, IngestTypeOK
<1>2. ShardsAreThere'  BY <1>1 DEF ShardsAreThere
<1>3. HubIsOneCommit'  BY DEF HubIsOneCommit, Changed
<1>4. RowsHaveShards'  BY DEF RowsHaveShards
<1> QED  BY <1>2, <1>3, <1>4

(* In a directory the shards land before the manifest, on the Hub with it. *)
LEMMA WriteKeepsShards ==
  ASSUME OneCommit, ShardsInv, Write
  PROVE  ShardsAreThere' /\ HubIsOneCommit' /\ RowsHaveShards'
<1> USE DEF ShardsInv
<1> DEFINE built == BuildShards(units)
<1>1. /\ pc = "write"
      /\ shards' = [s \in ShardNames |-> IF s \in NextFiles THEN built[s] ELSE shards[s]]
      /\ manifest' = IF Manifest \in NextFiles THEN built ELSE manifest
      /\ todo' = todo \ NextFiles
      /\ pc' = IF todo' = {} THEN "upsert" ELSE "write"
      /\ UNCHANGED <<sink, rows, units>>
  BY BuiltOfRun DEF Write, IngestInv
<1>2. /\ units \in Collections
      /\ todo \subseteq Named(built) \cup {Manifest}
      /\ todo \subseteq Files
      /\ sink \in {"local", "hub"}
  BY <1>1 DEF IngestInv, IngestTypeOK, PhasesOfARun
<1>3. NextFiles \subseteq todo  BY DEF NextFiles
<1>4. \A s \in NextFiles : s \in ShardNames => s \in Named(built)
  BY <1>2, <1>3, ManifestIsNoShard
<1> HIDE DEF built
<1>5. \A s \in ShardNames : shards[s] # <<>> => shards'[s] # <<>>
  BY <1>1, <1>4 DEF Named, built
<1>6. \A s \in Named(built) \ todo' : shards'[s] # <<>>
  BY <1>1, <1>4, <1>5 DEF ShardsAreThere, Named, built
<1>7. Manifest \in NextFiles => todo' = {}
  <2>1. CASE sink = "local"  BY <2>1, <1>1, <1>2, ManifestComesLast
  <2>2. CASE sink = "hub"  BY <2>2, <1>1, <1>2, OneCommitTakesAll DEF built
  <2> QED  BY <1>2, <2>1, <2>2
<1>8. ShardsAreThere'
  <2>1. \A s \in Named(manifest') : shards'[s] # <<>>
    <3>1. CASE Manifest \in NextFiles  BY <3>1, <1>1, <1>6, <1>7
    <3>2. CASE Manifest \notin NextFiles  BY <3>2, <1>1, <1>5 DEF ShardsAreThere, Named
    <3> QED  BY <3>1, <3>2
  <2> QED  BY <2>1, <1>1, <1>6 DEF ShardsAreThere, Named, built
<1>9. HubIsOneCommit'
  <2> SUFFICES ASSUME sink = "hub"
               PROVE  /\ \A s \in Named(manifest') : shards'[s] = manifest'[s]
                      /\ pc' # "write"
    BY <1>1 DEF HubIsOneCommit, Named
  <2>1. NextFiles = todo /\ todo = Changed(built)
    BY <1>1, <1>2, OneCommitTakesAll DEF HubIsOneCommit, built
  <2>2. Manifest \in todo
    BY <1>1, <1>2, <2>1, ChangedIsEnough DEF IngestInv, IngestTypeOK, PhasesOfARun, built
  <2>3. manifest' = built  BY <1>1, <2>1, <2>2
  <2>4. ASSUME NEW s \in Named(built)  PROVE shards'[s] = built[s]
    <3>1. CASE s \in todo  BY <1>1, <2>1, <3>1 DEF Named
    <3>2. CASE s \notin todo
      <4>1. s \in Named(manifest) /\ manifest[s] = built[s]
        BY <1>2, <2>1, <3>2, ChangedIsEnough DEF IngestInv, IngestTypeOK, built
      <4>2. shards[s] = manifest[s]  BY <4>1 DEF HubIsOneCommit
      <4> QED  BY <1>1, <2>1, <3>2, <4>1, <4>2 DEF Named
    <3> QED  BY <3>1, <3>2
  <2> QED  BY <1>1, <2>1, <2>3, <2>4
<1>10. RowsHaveShards'
  BY <1>1, <1>5 DEF RowsHaveShards, IngestInv, IngestTypeOK, Row
<1> QED  BY <1>8, <1>9, <1>10

LEMMA UpsertKeepsShards ==
  ASSUME ShardsInv, Upsert PROVE ShardsAreThere' /\ HubIsOneCommit' /\ RowsHaveShards'
<1> USE DEF ShardsInv, storeVars
<1>1. /\ pc = "upsert" /\ pc' # "write"
      /\ UNCHANGED <<sink, shards, manifest, units, todo>>
  BY DEF Upsert, storeVars
<1>2. ShardsAreThere' /\ HubIsOneCommit'
  BY <1>1 DEF ShardsAreThere, HubIsOneCommit, Named
<1>3. ASSUME NEW u \in Units, rows'[u] # NoRow  PROVE shards[rows'[u].shard] # <<>>
  <2>1. CASE rows'[u] = rows[u]  BY <1>3, <2>1 DEF RowsHaveShards
  <2>2. CASE rows'[u] # rows[u]
    <3>1. u \in UnitsOf(units) /\ rows'[u] = [text |-> TextOf(units, u), shard |-> Placement(units, u)]
      BY <2>2 DEF Upsert
    <3>2. manifest = BuildShards(units)  BY <1>1 DEF IngestInv, ManifestIsOfTheRun
    <3>3. Placement(units, u) \in Named(manifest)
      BY <3>1, <3>2, UnitsHaveShards DEF IngestInv, IngestTypeOK
    <3> QED  BY <3>1, <3>3 DEF ShardsAreThere
  <2> QED  BY <2>1, <2>2
<1> QED  BY <1>1, <1>2, <1>3 DEF RowsHaveShards

LEMMA ShardsInvNext ==
  ASSUME OneCommit, ShardsInv, [IngestNext]_ingestVars  PROVE ShardsInv'
<1>1. IngestInv'  BY IngestInvNext DEF ShardsInv
<1>2. CASE Build  BY <1>1, <1>2, BuildKeepsShards DEF ShardsInv
<1>3. CASE Write  BY <1>1, <1>3, WriteKeepsShards DEF ShardsInv
<1>4. CASE Upsert  BY <1>1, <1>4, UpsertKeepsShards DEF ShardsInv
<1>5. CASE Prune
  <2>1. \A u \in Units : rows'[u] # NoRow => rows'[u] = rows[u]  BY <1>5 DEF Prune
  <2> QED
    BY <1>1, <1>5, <2>1 DEF Prune, storeVars, ShardsInv, ShardsAreThere, HubIsOneCommit, RowsHaveShards, Named
<1>6. CASE Collect \/ Finish \/ Stop \/ UNCHANGED ingestVars
  BY <1>1, <1>6 DEF Collect, Finish, Stop, Over, ingestVars, storeVars, runVars,
     ShardsInv, ShardsAreThere, HubIsOneCommit, RowsHaveShards, Named, Changed
<1> QED  BY <1>2, <1>3, <1>4, <1>5, <1>6 DEF IngestNext

(* On the Hub a moment has no half of a write, and in a directory no       *)
(* manifest before its shards.                                             *)
THEOREM ShardsInvariant == ASSUME OneCommit PROVE IngestSpec => []ShardsInv
<1>1. IngestInit => ShardsInv  BY ShardsInvInit
<1>2. ShardsInv /\ [IngestNext]_ingestVars => ShardsInv'  BY ShardsInvNext
<1> QED  BY <1>1, <1>2, PTL DEF IngestSpec

(* No row ever cites a shard that does not exist, in either store.         *)
THEOREM RowsAlwaysHaveShards == ASSUME OneCommit PROVE IngestSpec => []RowsHaveShards
<1>1. ShardsInv => RowsHaveShards  BY DEF ShardsInv
<1> QED  BY <1>1, ShardsInvariant, PTL

-----------------------------------------------------------------------------
(***************************************************************************)
(* What a reader sees.                                                     *)
(***************************************************************************)

(* A reader of the shards of a manifest gets each place of the list in one *)
(* line, so a document as often as the list has it.                        *)
LEMMA DocumentsAre ==
  ASSUME NEW c \in Collections \cup {<<>>}, NEW texts,
         \A s \in Named(BuildShards(c)) : texts[s] = BuildShards(c)[s]
  PROVE  Documents(BuildShards(c), texts) = Readers!DocumentsOf(c)
<1> DEFINE names == Named(BuildShards(c))
           lines == UNION {{s} \X DOMAIN texts[s] : s \in names}
           DocumentAt(l) == texts[l[1]][l[2]]
           PlaceAt(l) == SortedAt(c, PlacesIn(c, l[1]), l[2])
<1>1. ASSUME NEW s \in names
      PROVE  /\ PlacesIn(c, s) \in SUBSET DOMAIN c
             /\ DOMAIN texts[s] = 1 .. Cardinality(PlacesIn(c, s))
             /\ \A m \in DOMAIN texts[s] : /\ SortedAt(c, PlacesIn(c, s), m) \in PlacesIn(c, s)
                                          /\ texts[s][m] = c[SortedAt(c, PlacesIn(c, s), m)]
  <2>1. s \in ShardNames /\ texts[s] = BuildShards(c)[s]
    BY DEF Named
  <2> QED  BY <2>1, ShardsHoldThePlaces DEF PlacesIn
<1>2. \A i \in DOMAIN c : ShardAt(c, i) \in names
  BY PlacesHaveShards
<1> HIDE DEF names
<1>3. \A l : l \in lines <=> l = <<l[1], l[2]>> /\ l[1] \in names /\ l[2] \in DOMAIN texts[l[1]]
  OBVIOUS
<1>4. \A s \in names : \A m \in DOMAIN texts[s] : <<s, m>> \in lines
  OBVIOUS
<1> HIDE DEF lines
<1>5. ASSUME NEW l \in lines
      PROVE  /\ PlaceAt(l) \in DOMAIN c
             /\ ShardAt(c, PlaceAt(l)) = l[1]
             /\ DocumentAt(l) = c[PlaceAt(l)]
  <2>1. l[1] \in names /\ l[2] \in DOMAIN texts[l[1]]
    BY <1>3
  <2>2. PlaceAt(l) \in PlacesIn(c, l[1])
    BY <1>1, <2>1
  <2> QED  BY <1>1, <2>1, <2>2 DEF PlacesIn
<1>6. ASSUME NEW l \in lines, NEW k \in lines, PlaceAt(l) = PlaceAt(k)
      PROVE  l = k
  <2>1. l[1] = k[1]
    BY <1>5, <1>6
  <2>2. /\ l[1] \in names /\ l[2] \in DOMAIN texts[l[1]] /\ k[2] \in DOMAIN texts[l[1]]
        /\ l = <<l[1], l[2]>> /\ k = <<k[1], k[2]>>
    BY <1>3, <2>1
  <2>3. /\ PlacesIn(c, l[1]) \in SUBSET DOMAIN c
        /\ l[2] \in 1 .. Cardinality(PlacesIn(c, l[1])) /\ k[2] \in 1 .. Cardinality(PlacesIn(c, l[1]))
    BY <1>1, <2>2
  <2>4. l[2] = k[2]
    BY <1>6, <2>1, <2>3, SortingKeepsAll
  <2> QED  BY <2>1, <2>2, <2>4
<1>7. ASSUME NEW i \in DOMAIN c
      PROVE  \E l \in lines : PlaceAt(l) = i
  <2> DEFINE s == ShardAt(c, i)
  <2>1. s \in names /\ i \in PlacesIn(c, s)
    BY <1>2 DEF PlacesIn
  <2> HIDE DEF s
  <2>2. PICK m \in 1 .. Cardinality(PlacesIn(c, s)) : SortedAt(c, PlacesIn(c, s), m) = i
    BY <1>1, <2>1, SortingKeepsAll
  <2>3. <<s, m>> \in lines
    BY <1>1, <1>4, <2>1
  <2>4. PlaceAt(<<s, m>>) = i
    BY <2>2
  <2> QED  BY <2>3, <2>4
<1> HIDE DEF DocumentAt, PlaceAt
<1>8. {DocumentAt(l) : l \in lines} = {c[i] : i \in DOMAIN c}
  BY <1>5, <1>7
<1>9. ASSUME NEW d
      PROVE  Cardinality({l \in lines : DocumentAt(l) = d}) = Cardinality({i \in DOMAIN c : c[i] = d})
  <2> DEFINE S == {l \in lines : DocumentAt(l) = d}
             T == {i \in DOMAIN c : c[i] = d}
             f == [l \in S |-> PlaceAt(l)]
  <2>1. f \in [S -> T]
    BY <1>5
  <2>2. \A l, k \in S : f[l] = f[k] => l = k
    BY <1>6
  <2>3. \A i \in T : \E l \in S : f[l] = i
    <3>1. SUFFICES ASSUME NEW i \in T  PROVE \E l \in S : f[l] = i
      OBVIOUS
    <3>2. PICK l \in lines : PlaceAt(l) = i
      BY <1>7
    <3>3. l \in S
      BY <1>5, <3>2
    <3> QED  BY <3>2, <3>3
  <2>4. f \in Bijection(S, T)
    BY <2>1, <2>2, <2>3, Fun_IsBij
  <2>5. IsFiniteSet(T)
    <3>1. T \subseteq 1 .. Len(c)
      BY CollectionsAreTexts
    <3> QED  BY <3>1, PlacesAreFinite, FS_Subset
  <2> HIDE DEF S, T, f
  <2>6. ExistsBijection(T, S)
    BY <2>4, Fun_ExistsBijSymmetric DEF ExistsBijection
  <2>7. Cardinality(S) = Cardinality(T)
    BY <2>5, <2>6, FS_Bijection
  <2> QED  BY <2>7 DEF S, T
<1>10. Documents(BuildShards(c), texts)
         = [d \in {DocumentAt(l) : l \in lines} |-> Cardinality({l \in lines : DocumentAt(l) = d})]
  BY DEF Documents, names, lines, DocumentAt
<1>11. Readers!DocumentsOf(c)
         = [d \in {c[i] : i \in DOMAIN c} |-> Cardinality({i \in DOMAIN c : c[i] = d})]
  BY DEF Readers!DocumentsOf, Readers!Cardinality, Cardinality
<1> QED  BY <1>8, <1>9, <1>10, <1>11

(* The dataset repository, when the manifest is the one of a collection.   *)
LEMMA DatasetIs ==
  ASSUME ShardsInv, sink = "hub", NEW c \in Collections \cup {<<>>}, manifest = BuildShards(c)
  PROVE  Readers!Shows(c)
<1>1. \A s \in Named(BuildShards(c)) : shards[s] = BuildShards(c)[s]
  BY DEF ShardsInv, HubIsOneCommit
<1>2. Documents(manifest, shards) = Readers!DocumentsOf(c)
  BY <1>1, DocumentsAre
<1> QED  BY <1>2 DEF Readers!Shows, OnHub, ShardsOf

LEMMA NoDocuments == Readers!DocumentsOf(<<>>) = <<>>
<1>1. {<<>>[i] : i \in DOMAIN <<>>} = {}
  OBVIOUS
<1>2. \A f : [d \in {} |-> f[d]] = <<>>
  OBVIOUS
<1> QED  BY <1>1, <1>2 DEF Readers!DocumentsOf

LEMMA ReadersBegin == ASSUME IngestInit PROVE Readers!Init
<1>1. manifest = BuildShards(<<>>) /\ pc = "idle" /\ last = <<>>
  BY NothingBuildsNothing DEF IngestInit
<1>2. CASE sink = "hub"
  <2>1. Readers!Shows(<<>>)
    BY <1>1, <1>2, ShardsInvInit, DatasetIs
  <2> QED  BY <1>1, <1>2, <2>1 DEF Readers!Init, OnHub, Mining
<1>3. CASE sink # "hub"
  BY <1>1, <1>3, NoDocuments DEF Readers!Init, Readers!Shows, OnHub, Mining, ShardsOf
<1> QED  BY <1>2, <1>3

(* A directory is not read.                                                *)
LEMMA DirectoryRests ==
  ASSUME sink # "hub", sink' = sink
  PROVE  UNCHANGED Readers!corpusVars
BY DEF Readers!corpusVars, OnHub

LEMMA DatasetRests ==
  ASSUME UNCHANGED <<sink, shards, manifest, last>>, Mining' = Mining
  PROVE  UNCHANGED Readers!corpusVars
BY DEF Readers!corpusVars, OnHub

LEMMA ReplacesOrRests ==
  ASSUME ShardsInv, ShardsInv', sink = "hub", sink' = sink, last' = last,
         pc \in {"build", "write"}, pc' = "upsert", units' = units
  PROVE  Readers!Replace
<1>1. units \in Collections /\ manifest' = BuildShards(units)
  BY DEF ShardsInv, IngestInv, PhasesOfARun, ManifestIsOfTheRun
<1>2. \A s \in Named(BuildShards(units)) : shards'[s] = BuildShards(units)[s]
  BY <1>1 DEF ShardsInv, HubIsOneCommit
<1>3. Documents(manifest', shards') = Readers!DocumentsOf(units)
  BY <1>1, <1>2, DocumentsAre
<1>4. Mining = "begun" /\ Mining' = "replaced"
  BY DEF Mining
<1> QED  BY <1>1, <1>3, <1>4 DEF Readers!Replace, OnHub, ShardsOf

LEMMA ReadersNext ==
  ASSUME OneCommit, ShardsInv, [IngestNext]_ingestVars
  PROVE  [Readers!Next]_(Readers!corpusVars)
<1>1. ShardsInv' /\ sink' = sink
  BY ShardsInvNext DEF IngestNext, ingestVars, Collect, Build, Write, Upsert, Prune, Finish, Stop, Over
<1>2. CASE sink # "hub"
  BY <1>1, <1>2, DirectoryRests
<1>3. CASE sink = "hub"
  <2>1. CASE Collect
    <3>1. Mining = "no" /\ Mining' = "begun" /\ UNCHANGED <<shards, manifest, last>>
      BY <2>1 DEF Collect, Mining, storeVars
    <3> QED  BY <1>1, <1>3, <3>1 DEF Readers!Begin, Readers!Next, OnHub
  <2>2. CASE Build \/ Write
    <3>1. pc \in {"build", "write"} /\ pc' \in {"upsert", "write"} /\ last' = last /\ units' = units
      BY <2>2 DEF Build, Write
    <3>2. CASE pc' = "upsert"
      BY <1>1, <1>3, <3>1, <3>2, ReplacesOrRests DEF Readers!Next
    <3>3. CASE pc' = "write"
      <4>1. Build
        <5>1. Write => pc' = "upsert"
          BY <1>3, OneCommitTakesAll DEF Write, ShardsInv, IngestInv, PhasesOfARun
        <5> QED  BY <2>2, <3>3, <5>1
      <4>2. Mining' = Mining /\ UNCHANGED <<shards, manifest>>
        BY <3>1, <3>3, <4>1 DEF Build, Mining, storeVars
      <4> QED  BY <1>1, <3>1, <4>2, DatasetRests
    <3> QED  BY <3>1, <3>2, <3>3
  <2>3. CASE Upsert \/ Prune
    <3>1. Mining' = Mining /\ UNCHANGED <<shards, manifest, last>>
      BY <2>3 DEF Upsert, Prune, Mining, storeVars
    <3> QED  BY <1>1, <3>1, DatasetRests
  <2>4. CASE Finish
    <3>1. /\ Mining = "replaced" /\ Mining' = "no" /\ UNCHANGED <<shards, manifest>>
          /\ last' = units /\ units \in Collections /\ manifest = BuildShards(units)
      BY <2>4 DEF Finish, Over, Mining, storeVars, ShardsInv, IngestInv, PhasesOfARun, ManifestIsOfTheRun
    <3>2. Readers!Shows(units)
      BY <1>3, <3>1, DatasetIs
    <3> QED  BY <1>1, <1>3, <3>1, <3>2 DEF Readers!Finish, Readers!Next, Readers!Shows, OnHub
  <2>5. CASE Stop
    <3>1. Mining # "no" /\ Mining' = "no" /\ UNCHANGED <<shards, manifest>> /\ last' = <<>>
      BY <2>5 DEF Stop, Over, Mining, storeVars, ShardsInv, IngestInv, IngestTypeOK
    <3> QED  BY <1>1, <1>3, <3>1 DEF Readers!Fail, Readers!Next, OnHub
  <2>6. CASE UNCHANGED ingestVars
    <3>1. Mining' = Mining /\ UNCHANGED <<shards, manifest, last>>
      BY <2>6 DEF ingestVars, Mining, storeVars
    <3> QED  BY <1>1, <3>1, DatasetRests
  <2> QED  BY <2>1, <2>2, <2>3, <2>4, <2>5, <2>6 DEF IngestNext
<1> QED  BY <1>2, <1>3

(* What a reader of the dataset repository gets is, at every moment, what  *)
(* one run collected, each document as often as the run listed it and      *)
(* under the fingerprint of exactly that, and after a finished run what    *)
(* that run collected.                                                     *)
THEOREM CorpusIsPromised == ASSUME OneCommit PROVE IngestSpec => CorpusKeepsPromise
<1>1. IngestInit => Readers!Init
  BY ReadersBegin
<1>2. ShardsInv /\ [IngestNext]_ingestVars => [Readers!Next]_(Readers!corpusVars)
  BY ReadersNext
<1> QED  BY <1>1, <1>2, ShardsInvariant, PTL DEF IngestSpec, CorpusKeepsPromise, Readers!Spec

-----------------------------------------------------------------------------
-----------------------------------------------------------------------------
(* Chunks: what a file is cut into.                                        *)
Symbols == Seq(Nat)
SourceLines == [kind : LineKinds, length : Nat, glued : BOOLEAN]
ChunkRecords == [from : Nat, to : Nat, symbol : Symbols, length : Int]

LEMMA AcrossIsIt ==
  ASSUME NEW first \in Nat, NEW tail \in Nat, first <= tail + 1
  PROVE  /\ tail - first + 1 \in Nat
         /\ Across(first, tail) \in [1 .. tail - first + 1 -> first .. tail]
         /\ \A k \in 0 .. tail - first : Across(first, tail)[k + 1] = first + k
BY DEF Across

(* The text of a chunk: one line is as long as it is, and each further     *)
(* one adds its length and a newline.                                      *)
LEMMA TextGrows ==
  ASSUME NEW lines \in Seq(SourceLines), NEW i \in DOMAIN lines, NEW j \in Nat, j <= Len(lines)
  PROVE  /\ TextLength(lines, i, j) \in Int
         /\ TextLength(lines, i, i) = lines[i].length
         /\ i <= j /\ j < Len(lines) =>
              TextLength(lines, i, j + 1) = TextLength(lines, i, j) + lines[j + 1].length + 1
<1>. DEFINE f == [k \in DOMAIN lines |-> lines[k].length]
<1>1. PICK n \in Nat : n = Len(lines) /\ DOMAIN lines = 1 .. n
  OBVIOUS
<1>2. \A k \in 1 .. n : f[k] = lines[k].length /\ f[k] \in Int
  <2>1. \A k \in 1 .. n : lines[k] \in SourceLines
    BY <1>1
  <2>2. \A line \in SourceLines : line.length \in Int
    BY DEF SourceLines
  <2> QED  BY <1>1, <2>1, <2>2
<1>3. i \in 1 .. n /\ i \in Nat /\ j <= n
  BY <1>1
<1>4. \A m \in Nat : TextLength(lines, i, m) = SumFunctionOnSet(f, i .. m) + (m - i)
  BY DEF TextLength
<1>. HIDE DEF f
<1>5. ASSUME NEW m \in Nat, m <= n
      PROVE  IsFiniteSet(i .. m) /\ (\A k \in i .. m : f[k] \in Int) /\ SumFunctionOnSet(f, i .. m) \in Int
  <2>1. IsFiniteSet(i .. m)
    BY <1>3, FS_Interval
  <2>2. \A k \in i .. m : f[k] \in Int
    BY <1>2, <1>3, <1>5
  <2> QED  BY <2>1, <2>2, SumOfSome
<1>6. TextLength(lines, i, j) \in Int
  BY <1>3, <1>4, <1>5
<1>7. TextLength(lines, i, i) = lines[i].length
  <2>1. i .. i = {i} /\ (i .. i) \ {i} = {} /\ i <= n
    BY <1>3
  <2>2. IsFiniteSet(i .. i) /\ \A k \in i .. i : f[k] \in Int
    BY <1>3, <1>5, <2>1
  <2>3. SumFunctionOnSet(f, i .. i) = f[i] + SumFunctionOnSet(f, {})
    BY <2>1, <2>2, SumOfAny
  <2>4. SumFunctionOnSet(f, {}) = 0
    <3>1. IsFiniteSet({}) /\ \A x \in {} : f[x] \in Int
      BY FS_EmptySet
    <3> QED  BY <3>1, SumOfSome
  <2>5. TextLength(lines, i, i) = SumFunctionOnSet(f, i .. i) + (i - i)
    BY <1>3, <1>4, Zenon
  <2>6. f[i] = lines[i].length /\ f[i] \in Int
    BY <1>2, <1>3
  <2> QED  BY ONLY <1>3, <2>3, <2>4, <2>5, <2>6
<1>8. ASSUME i <= j, j < n
      PROVE  TextLength(lines, i, j + 1) = TextLength(lines, i, j) + lines[j + 1].length + 1
  <2>1. j + 1 \in Nat /\ j + 1 <= n /\ j + 1 \in i .. j + 1 /\ (i .. j + 1) \ {j + 1} = i .. j /\ j + 1 \in 1 .. n
    BY <1>3, <1>8
  <2>2. IsFiniteSet(i .. j + 1) /\ \A k \in i .. j + 1 : f[k] \in Int
    BY <1>5, <2>1
  <2>3. SumFunctionOnSet(f, i .. j + 1) = f[j + 1] + SumFunctionOnSet(f, i .. j)
    BY <2>1, <2>2, SumOfAny
  <2>4. SumFunctionOnSet(f, i .. j) \in Int /\ f[j + 1] = lines[j + 1].length /\ f[j + 1] \in Int
    BY <1>2, <1>3, <1>5, <2>1
  <2>5. /\ TextLength(lines, i, j + 1) = SumFunctionOnSet(f, i .. j + 1) + (j + 1 - i)
        /\ TextLength(lines, i, j) = SumFunctionOnSet(f, i .. j) + (j - i)
    <3>1. j + 1 \in Nat /\ j \in Nat
      OBVIOUS
    <3>2. TextLength(lines, i, j) = SumFunctionOnSet(f, i .. j) + (j - i)
      BY ONLY <1>4, <3>1, Zenon
    <3>3. PICK m \in Nat : m = j + 1
      BY <3>1
    <3>4. TextLength(lines, i, m) = SumFunctionOnSet(f, i .. m) + (m - i)
      BY ONLY <1>4, Zenon
    <3> QED  BY ONLY <3>2, <3>3, <3>4
  <2> QED  BY ONLY <1>3, <2>3, <2>4, <2>5, j \in Nat
<1> QED  BY <1>1, <1>6, <1>7, <1>8
-----------------------------------------------------------------------------
(* Chunks in order, of lines from i to j, in which every line of them is   *)
(* that is not blank.                                                      *)
Tiles(lines, c, i, j) ==
  /\ c \in Seq(ChunkRecords)
  /\ \A n \in 1 .. Len(c) : i <= c[n].from /\ c[n].from <= c[n].to /\ c[n].to <= j
  /\ \A n \in 1 .. Len(c) - 1 : c[n].to < c[n + 1].from
  /\ \A k \in i .. j : lines[k].kind # "blank" => \E n \in 1 .. Len(c) : k \in c[n].from .. c[n].to
  /\ \A n \in 1 .. Len(c) : c[n].length <= MAX_CHARS \/ c[n].from = c[n].to

LEMMA RecordTypes ==
  ASSUME NEW c \in Seq(ChunkRecords)
  PROVE  \A n \in 1 .. Len(c) : /\ c[n] \in ChunkRecords /\ c[n].from \in Nat /\ c[n].to \in Nat
                                /\ c[n].symbol \in Symbols /\ c[n].length \in Int
<1>1. \A n \in 1 .. Len(c) : c[n] \in ChunkRecords
  OBVIOUS
<1>2. \A x \in ChunkRecords : x.from \in Nat /\ x.to \in Nat /\ x.symbol \in Symbols /\ x.length \in Int
  BY DEF ChunkRecords
<1> QED  BY <1>1, <1>2

LEMMA NoTiles ==
  ASSUME NEW lines, NEW i \in Nat, NEW j \in Nat, i > j \/ Blank(lines, i, j)
  PROVE  Tiles(lines, <<>>, i, j)
<1>1. <<>> \in Seq(ChunkRecords) /\ Len(<<>>) = 0
  BY EmptySeq
<1>2. \A k \in i .. j : lines[k].kind = "blank"
  BY DEF Blank
<1> QED  BY <1>1, <1>2 DEF Tiles

LEMMA OneTile ==
  ASSUME NEW lines, NEW i \in Nat, NEW j \in Nat, i <= j,
         NEW x \in ChunkRecords, x.from = i, x.to = j, x.length <= MAX_CHARS \/ i = j
  PROVE  Tiles(lines, <<x>>, i, j)
<1>1. <<x>> \in Seq(ChunkRecords) /\ Len(<<x>>) = 1 /\ <<x>>[1] = x
  OBVIOUS
<1>2. PICK c : c = <<x>>
  OBVIOUS
<1>3. c \in Seq(ChunkRecords) /\ Len(c) = 1 /\ c[1] = x
  BY <1>1, <1>2
<1>4. \A n \in 1 .. 1 : n = 1
  OBVIOUS
<1>5. Tiles(lines, c, i, j)
  BY <1>3, <1>4 DEF Tiles
<1> QED  BY <1>2, <1>5

(* Blank lines behind the last chunk change nothing.                       *)
LEMMA TilesWiden ==
  ASSUME NEW lines, NEW c, NEW i \in Nat, NEW j \in Nat, NEW m \in Nat, Tiles(lines, c, i, m),
         m <= j, \A k \in i .. j : k > m => lines[k].kind = "blank"
  PROVE  Tiles(lines, c, i, j)
<1>1. /\ c \in Seq(ChunkRecords)
      /\ \A n \in 1 .. Len(c) : i <= c[n].from /\ c[n].from <= c[n].to /\ c[n].to <= m
      /\ \A n \in 1 .. Len(c) - 1 : c[n].to < c[n + 1].from
      /\ \A k \in i .. m : lines[k].kind # "blank" => \E n \in 1 .. Len(c) : k \in c[n].from .. c[n].to
      /\ \A n \in 1 .. Len(c) : c[n].length <= MAX_CHARS \/ c[n].from = c[n].to
  BY DEF Tiles
<1>2. \A n \in 1 .. Len(c) : c[n].to \in Nat
  BY <1>1, RecordTypes
<1>3. \A n \in 1 .. Len(c) : c[n].to <= j
  BY <1>1, <1>2
<1>4. \A k \in i .. j : lines[k].kind # "blank" => k \in i .. m
  OBVIOUS
<1> QED  BY <1>1, <1>3, <1>4 DEF Tiles

(* Chunks of neighbouring lines, one after the other.                      *)
LEMMA TilesJoin ==
  ASSUME NEW lines, NEW a, NEW b, NEW i \in Nat, NEW m \in Nat, NEW j \in Nat,
         Tiles(lines, a, i, m), Tiles(lines, b, m + 1, j), i <= m + 1, m <= j
  PROVE  Tiles(lines, a \o b, i, j)
<1>1. /\ a \in Seq(ChunkRecords)
      /\ \A n \in 1 .. Len(a) : i <= a[n].from /\ a[n].from <= a[n].to /\ a[n].to <= m
      /\ \A n \in 1 .. Len(a) - 1 : a[n].to < a[n + 1].from
      /\ \A k \in i .. m : lines[k].kind # "blank" => \E n \in 1 .. Len(a) : k \in a[n].from .. a[n].to
      /\ \A n \in 1 .. Len(a) : a[n].length <= MAX_CHARS \/ a[n].from = a[n].to
  BY DEF Tiles
<1>2. /\ b \in Seq(ChunkRecords)
      /\ \A n \in 1 .. Len(b) : m + 1 <= b[n].from /\ b[n].from <= b[n].to /\ b[n].to <= j
      /\ \A n \in 1 .. Len(b) - 1 : b[n].to < b[n + 1].from
      /\ \A k \in m + 1 .. j : lines[k].kind # "blank" => \E n \in 1 .. Len(b) : k \in b[n].from .. b[n].to
      /\ \A n \in 1 .. Len(b) : b[n].length <= MAX_CHARS \/ b[n].from = b[n].to
  BY DEF Tiles
<1>3. PICK p \in Nat, q \in Nat, c \in Seq(ChunkRecords) :
        /\ p = Len(a) /\ q = Len(b) /\ c = a \o b /\ Len(c) = p + q
        /\ \A n \in 1 .. p : c[n] = a[n]
        /\ \A n \in 1 .. q : c[p + n] = b[n]
  <2>1. /\ a \o b \in Seq(ChunkRecords) /\ Len(a \o b) = Len(a) + Len(b)
        /\ Len(a) \in Nat /\ Len(b) \in Nat
        /\ \A n \in 1 .. Len(a) : (a \o b)[n] = a[n]
        /\ \A n \in 1 .. Len(b) : (a \o b)[Len(a) + n] = b[n]
    BY <1>1, <1>2
  <2> QED  BY <2>1
<1>4. /\ \A n \in 1 .. p : a[n].from \in Nat /\ a[n].to \in Nat
      /\ \A n \in 1 .. q : b[n].from \in Nat /\ b[n].to \in Nat
  BY <1>1, <1>2, <1>3, RecordTypes
<1>5. \A n \in 1 .. p + q : n \in 1 .. p \/ \E x \in 1 .. q : n = p + x
  <2>1. \A n \in 1 .. p + q : n \notin 1 .. p => n - p \in 1 .. q /\ n = p + (n - p)
    OBVIOUS
  <2> QED  BY <2>1
<1>6. \A n \in 1 .. p + q : i <= c[n].from /\ c[n].from <= c[n].to /\ c[n].to <= j
  <2>1. \A n \in 1 .. p : i <= c[n].from /\ c[n].from <= c[n].to /\ c[n].to <= j
    <3>1. SUFFICES ASSUME NEW n \in 1 .. p
                   PROVE  i <= c[n].from /\ c[n].from <= c[n].to /\ c[n].to <= j
      OBVIOUS
    <3>2. i <= a[n].from /\ a[n].from <= a[n].to /\ a[n].to <= m
      BY <1>1, <1>3
    <3>3. a[n].to \in Nat /\ c[n] = a[n]
      BY <1>3, <1>4
    <3>4. a[n].to <= j
      BY <3>2, <3>3
    <3> QED  BY <3>2, <3>3, <3>4
  <2>2. \A x \in 1 .. q : i <= c[p + x].from /\ c[p + x].from <= c[p + x].to /\ c[p + x].to <= j
    <3>1. SUFFICES ASSUME NEW x \in 1 .. q
                   PROVE  i <= c[p + x].from /\ c[p + x].from <= c[p + x].to /\ c[p + x].to <= j
      OBVIOUS
    <3>2. m + 1 <= b[x].from /\ b[x].from <= b[x].to /\ b[x].to <= j
      BY <1>2, <1>3
    <3>3. b[x].from \in Nat /\ c[p + x] = b[x]
      BY <1>3, <1>4
    <3>4. i <= b[x].from
      BY <3>2, <3>3
    <3> QED  BY <3>2, <3>3, <3>4
  <2> QED  BY <1>5, <2>1, <2>2
<1>7. \A n \in 1 .. p + q - 1 : c[n].to < c[n + 1].from
  <2>1. SUFFICES ASSUME NEW n \in 1 .. p + q - 1
                 PROVE  c[n].to < c[n + 1].from
    OBVIOUS
  <2>2. CASE n < p
    <3>1. n \in 1 .. Len(a) - 1 /\ n \in 1 .. p /\ n + 1 \in 1 .. p
      BY <1>3, <2>2
    <3> QED  BY <1>1, <1>3, <3>1
  <2>3. CASE n = p
    <3>1. p \in 1 .. p /\ 1 \in 1 .. q
      BY <2>3
    <3>2. c[p] = a[p] /\ c[p + 1] = b[1]
      BY <1>3, <3>1
    <3>3. a[p].to <= m /\ a[p].to \in Nat /\ m + 1 <= b[1].from /\ b[1].from \in Nat
      BY <1>1, <1>2, <1>3, <1>4, <3>1
    <3> QED  BY <2>3, <3>2, <3>3
  <2>4. CASE n > p
    <3>1. PICK x \in 1 .. q - 1 : n = p + x /\ x + 1 \in 1 .. q /\ x \in 1 .. q /\ n + 1 = p + (x + 1)
      <4>1. n - p \in 1 .. q - 1 /\ n = p + (n - p) /\ n - p + 1 \in 1 .. q /\ n - p \in 1 .. q
            /\ n + 1 = p + (n - p + 1)
        BY <2>4
      <4> QED  BY <4>1
    <3>2. c[n] = b[x] /\ c[n + 1] = b[x + 1]
      BY <1>3, <3>1
    <3> QED  BY <1>2, <1>3, <3>1, <3>2
  <2> QED  BY <2>2, <2>3, <2>4
<1>8. \A k \in i .. j : lines[k].kind # "blank" => \E n \in 1 .. p + q : k \in c[n].from .. c[n].to
  <2>1. SUFFICES ASSUME NEW k \in i .. j, lines[k].kind # "blank"
                 PROVE  \E n \in 1 .. p + q : k \in c[n].from .. c[n].to
    OBVIOUS
  <2>2. CASE k <= m
    <3>1. k \in i .. m
      BY <2>2
    <3>2. PICK n \in 1 .. p : k \in a[n].from .. a[n].to
      BY <1>1, <1>3, <2>1, <3>1
    <3>3. n \in 1 .. p + q /\ c[n] = a[n]
      BY <1>3
    <3> QED  BY <3>2, <3>3
  <2>3. CASE k > m
    <3>1. k \in m + 1 .. j
      BY <2>3
    <3>2. PICK n \in 1 .. q : k \in b[n].from .. b[n].to
      BY <1>2, <1>3, <2>1, <3>1
    <3>3. p + n \in 1 .. p + q /\ c[p + n] = b[n]
      BY <1>3
    <3> QED  BY <3>2, <3>3
  <2> QED  BY <2>2, <2>3
<1>9. \A n \in 1 .. p + q : c[n].length <= MAX_CHARS \/ c[n].from = c[n].to
  <2>1. \A n \in 1 .. p : c[n].length <= MAX_CHARS \/ c[n].from = c[n].to
    BY <1>1, <1>3
  <2>2. \A x \in 1 .. q : c[p + x].length <= MAX_CHARS \/ c[p + x].from = c[p + x].to
    BY <1>2, <1>3
  <2> QED  BY <1>5, <2>1, <2>2
<1>10. Tiles(lines, c, i, j)
  BY <1>3, <1>6, <1>7, <1>8, <1>9 DEF Tiles
<1> QED  BY <1>3, <1>10
-----------------------------------------------------------------------------
LEMMA ChunkIsRecord ==
  ASSUME NEW lines \in Seq(SourceLines), NEW i \in DOMAIN lines, NEW j \in Nat, j <= Len(lines),
         NEW symbol \in Symbols
  PROVE  /\ Chunk(lines, i, j, symbol) \in ChunkRecords
         /\ Chunk(lines, i, j, symbol).from = i /\ Chunk(lines, i, j, symbol).to = j
         /\ Chunk(lines, i, j, symbol).symbol = symbol
         /\ Chunk(lines, i, j, symbol).length = TextLength(lines, i, j)
<1>1. TextLength(lines, i, j) \in Int
  BY TextGrows
<1>2. i \in Nat
  OBVIOUS
<1> QED  BY <1>1, <1>2 DEF Chunk, ChunkRecords

(* One more chunk, or none where there is nothing but blank lines.         *)
LEMMA WithChunkTiles ==
  ASSUME NEW lines \in Seq(SourceLines), NEW c, NEW i \in Nat, NEW m \in Nat, NEW j \in Nat,
         NEW symbol \in Symbols, Tiles(lines, c, i, m), i <= m + 1, m + 1 <= j, j <= Len(lines),
         TextLength(lines, m + 1, j) <= MAX_CHARS \/ m + 1 = j
  PROVE  Tiles(lines, WithChunk(c, lines, m + 1, j, symbol), i, j)
<1>1. m + 1 \in Nat /\ m + 1 \in DOMAIN lines
  OBVIOUS
<1>2. CASE Blank(lines, m + 1, j)
  <2>1. \A k \in i .. j : k > m => lines[k].kind = "blank"
    BY <1>2 DEF Blank
  <2>2. Tiles(lines, c, i, j)
    BY <2>1, TilesWiden
  <2> QED  BY <1>2, <2>2 DEF WithChunk
<1>3. CASE ~Blank(lines, m + 1, j)
  <2>1. PICK x \in ChunkRecords : /\ x = Chunk(lines, m + 1, j, symbol) /\ x.from = m + 1 /\ x.to = j
                                  /\ x.length = TextLength(lines, m + 1, j)
    BY <1>1, ChunkIsRecord
  <2>2. Tiles(lines, <<x>>, m + 1, j)
    BY <1>1, <2>1, OneTile
  <2>3. Tiles(lines, c \o <<x>>, i, j)
    BY <2>2, TilesJoin
  <2>4. c \in Seq(ChunkRecords)
    BY DEF Tiles
  <2>5. Append(c, x) = c \o <<x>>
    BY <2>1, <2>4, AppendIsConcat
  <2> QED  BY <1>3, <2>1, <2>3, <2>5 DEF WithChunk
<1> QED  BY <1>2, <1>3

-----------------------------------------------------------------------------
(* chunk_lines.                                                            *)
PackStates(lines) == [chunks : Seq(ChunkRecords), from : DOMAIN lines, size : Nat]

(* With the lines up to k looked at, what is not cut yet begins at from.   *)
PackInv(lines, first, acc, k) ==
  /\ acc \in PackStates(lines) /\ first <= acc.from
  /\ Tiles(lines, acc.chunks, first, acc.from - 1)
  /\ k < first => acc.size = 0 /\ acc.from = first
  /\ k >= first => /\ acc.from <= k /\ 0 < acc.size /\ acc.size = TextLength(lines, acc.from, k) + 1
                   /\ acc.from = k \/ acc.size <= MAX_CHARS

LEMMA PackTyped ==
  ASSUME NEW lines \in Seq(SourceLines), NEW symbol \in Symbols,
         NEW acc \in PackStates(lines), NEW k \in DOMAIN lines
  PROVE  PackLine(lines, symbol, acc, k) \in PackStates(lines)
<1>1. acc.chunks \in Seq(ChunkRecords) /\ acc.from \in DOMAIN lines /\ acc.size \in Nat
  BY DEF PackStates
<1>2. lines[k] \in SourceLines
  OBVIOUS
<1>3. lines[k].length + 1 \in Nat
  BY <1>2 DEF SourceLines
<1>4. k - 1 \in Nat /\ k - 1 <= Len(lines)
  OBVIOUS
<1>5. WithChunk(acc.chunks, lines, acc.from, k - 1, symbol) \in Seq(ChunkRecords)
  <2>1. Chunk(lines, acc.from, k - 1, symbol) \in ChunkRecords
    BY <1>1, <1>4, ChunkIsRecord
  <2> QED  BY <1>1, <2>1 DEF WithChunk
<1>6. PICK cost \in Nat : cost = lines[k].length + 1
  BY <1>3
<1>7. acc.size + cost \in Nat
  BY <1>1
<1>8. [acc EXCEPT !.size = @ + cost] \in PackStates(lines)
  BY <1>7 DEF PackStates
<1>9. [chunks |-> WithChunk(acc.chunks, lines, acc.from, k - 1, symbol), from |-> k, size |-> cost] \in PackStates(lines)
  BY <1>5 DEF PackStates
<1> QED  BY <1>6, <1>8, <1>9 DEF PackLine

(* A line more is looked at: it is packed with the ones before it, or      *)
(* these are cut off.                                                      *)
LEMMA PackStep ==
  ASSUME NEW lines \in Seq(SourceLines), NEW symbol \in Symbols, NEW first \in DOMAIN lines,
         NEW k \in Nat, k + 1 <= Len(lines), first <= k + 1,
         NEW acc, PackInv(lines, first, acc, k)
  PROVE  PackInv(lines, first, PackLine(lines, symbol, acc, k + 1), k + 1)
<1>1. /\ acc \in PackStates(lines) /\ acc.chunks \in Seq(ChunkRecords)
      /\ acc.from \in DOMAIN lines /\ acc.from \in Nat /\ acc.size \in Nat
  BY DEF PackInv, PackStates
<1>2. PICK cost \in Nat : cost = lines[k + 1].length + 1 /\ cost > 0 /\ lines[k + 1].length \in Nat
  <2>1. lines[k + 1] \in SourceLines
    OBVIOUS
  <2>2. lines[k + 1].length \in Nat
    BY <2>1 DEF SourceLines
  <2>3. PICK l \in Nat : l = lines[k + 1].length
    BY <2>2
  <2>4. l + 1 \in Nat /\ l + 1 > 0
    OBVIOUS
  <2>5. PICK cost \in Nat : cost = l + 1 /\ cost > 0
    BY <2>4
  <2> QED  BY <2>3, <2>5
<1>3. PICK new \in PackStates(lines) : new = PackLine(lines, symbol, acc, k + 1)
  BY <1>1, PackTyped
<1>4. MAX_CHARS \in Nat
  BY ChunksAssumption
<1>5. k + 1 \in DOMAIN lines /\ k + 1 \in Nat /\ k <= Len(lines) /\ k < Len(lines)
  OBVIOUS
<1>6. TextLength(lines, k + 1, k + 1) + 1 = cost
  BY <1>2, <1>5, TextGrows
<1>7. CASE acc.size > 0 /\ acc.size + cost > MAX_CHARS
  <2>1. /\ k >= first /\ acc.from <= k /\ acc.size = TextLength(lines, acc.from, k) + 1
        /\ acc.from = k \/ acc.size <= MAX_CHARS
    BY <1>7 DEF PackInv
  <2>2. new = [chunks |-> WithChunk(acc.chunks, lines, acc.from, k, symbol), from |-> k + 1, size |-> cost]
    <3>1. k + 1 - 1 = k
      OBVIOUS
    <3> QED  BY <1>2, <1>3, <1>7, <3>1 DEF PackLine
  <2>3. new.chunks = WithChunk(acc.chunks, lines, acc.from, k, symbol) /\ new.from = k + 1 /\ new.size = cost
    BY <2>2
  <2>4. TextLength(lines, acc.from, k) \in Int
    BY <1>1, <1>5, TextGrows
  <2>5. TextLength(lines, acc.from, k) <= MAX_CHARS \/ acc.from = k
    BY <1>1, <1>4, <2>1, <2>4
  <2>6. PICK m \in Nat : m = acc.from - 1 /\ m + 1 = acc.from
    BY <1>1
  <2>7. Tiles(lines, new.chunks, first, k)
    <3>1. Tiles(lines, acc.chunks, first, m) /\ first <= m + 1 /\ m + 1 <= k /\ k <= Len(lines)
      BY <2>1, <2>6 DEF PackInv
    <3>2. TextLength(lines, m + 1, k) <= MAX_CHARS \/ m + 1 = k
      BY <2>5, <2>6
    <3>3. Tiles(lines, WithChunk(acc.chunks, lines, m + 1, k, symbol), first, k)
      BY <3>1, <3>2, WithChunkTiles
    <3> QED  BY <2>3, <2>6, <3>3
  <2>8. new.from - 1 = k
    BY <2>3
  <2>9. Tiles(lines, new.chunks, first, new.from - 1)
    BY <2>7, <2>8
  <2>10. /\ first <= new.from /\ new.from <= k + 1 /\ new.from = k + 1 /\ 0 < new.size
         /\ new.size = TextLength(lines, new.from, k + 1) + 1 /\ ~(k + 1 < first)
    BY <1>2, <1>6, <2>3
  <2> QED  BY <1>3, <2>9, <2>10 DEF PackInv
<1>8. CASE ~(acc.size > 0 /\ acc.size + cost > MAX_CHARS)
  <2>1. new = [acc EXCEPT !.size = @ + cost]
    BY <1>2, <1>3, <1>8 DEF PackLine
  <2>2. new.chunks = acc.chunks /\ new.from = acc.from /\ new.size = acc.size + cost
    BY <1>1, <2>1 DEF PackStates
  <2>3. CASE k < first
    <3>1. acc.size = 0 /\ acc.from = k + 1
      BY <2>3 DEF PackInv
    <3>2. new.from = k + 1 /\ new.size = TextLength(lines, new.from, k + 1) + 1
      BY <1>2, <1>6, <2>2, <3>1
    <3>3. Tiles(lines, new.chunks, first, new.from - 1) /\ first <= new.from
      BY <2>2 DEF PackInv
    <3>4. new.from <= k + 1 /\ 0 < new.size /\ ~(k + 1 < first)
      BY <1>1, <1>2, <2>2, <3>2
    <3> QED  BY <1>3, <3>2, <3>3, <3>4 DEF PackInv
  <2>4. CASE k >= first
    <3>1. acc.from <= k /\ acc.size = TextLength(lines, acc.from, k) + 1
      BY <2>4 DEF PackInv
    <3>2. /\ TextLength(lines, acc.from, k) \in Int
          /\ TextLength(lines, acc.from, k + 1) = TextLength(lines, acc.from, k) + lines[k + 1].length + 1
      BY <1>1, <1>5, <3>1, TextGrows
    <3>3. acc.size > 0
      BY <2>4 DEF PackInv
    <3>4. new.size = TextLength(lines, new.from, k + 1) + 1
      <4>1. new.size = TextLength(lines, acc.from, k + 1) + 1
        <5>1. PICK t \in Int, l \in Nat : t = TextLength(lines, acc.from, k) /\ l = lines[k + 1].length
          BY <1>2, <3>2
        <5>2. new.size = t + 1 + (l + 1)
          BY <1>2, <2>2, <3>1, <5>1
        <5>3. TextLength(lines, acc.from, k + 1) = t + l + 1
          BY <3>2, <5>1
        <5>4. t + 1 + (l + 1) = t + l + 1 + 1
          OBVIOUS
        <5> QED  BY ONLY <5>2, <5>3, <5>4
      <4> QED  BY <2>2, <4>1
    <3>5. new.size <= MAX_CHARS
      BY <1>1, <1>2, <1>4, <1>8, <2>2, <3>3
    <3>6. new.from <= k + 1
      BY <1>1, <2>2, <3>1
    <3>7. Tiles(lines, new.chunks, first, new.from - 1) /\ first <= new.from
      BY <2>2 DEF PackInv
    <3>8. 0 < new.size /\ ~(k + 1 < first)
      BY <1>1, <1>2, <2>2, <3>3
    <3> QED  BY <1>3, <3>4, <3>5, <3>6, <3>7, <3>8 DEF PackInv
  <2> QED  BY <1>1, <2>3, <2>4
<1> QED  BY <1>3, <1>7, <1>8

(* chunk_lines cuts every line it is given once, and nothing too long but  *)
(* a line.                                                                 *)
LEMMA PackedTiles ==
  ASSUME NEW lines \in Seq(SourceLines), NEW symbol \in Symbols,
         NEW first \in DOMAIN lines, NEW tail \in DOMAIN lines, first <= tail
  PROVE  Tiles(lines, Packed(lines, first, tail, symbol), first, tail)
<1>. DEFINE s == Across(first, tail)
            n == tail - first + 1
            X == DOMAIN lines
            A == PackStates(lines)
            base == [chunks |-> <<>>, from |-> first, size |-> 0]
            Op(acc, k) == PackLine(lines, symbol, acc, k)
            step == [p \in A \X X |-> Op(p[1], p[2])]
            g == CHOOSE iter : iter = [t \in SUBSET DOMAIN s |->
                   IF t = {} THEN base ELSE Op(iter[t \ {Max(t)}], s[Max(t)])]
            Good == {p \in (0 .. n) \X A : PackInv(lines, first, p[2], first - 1 + p[1])}
<1>1. FoldLeft(LAMBDA acc, k : PackLine(lines, symbol, acc, k), base, s) = g[DOMAIN s]
  BY DEF FoldLeft, MapThenFoldSet
<1>2. first \in Nat /\ tail \in Nat /\ first >= 1 /\ tail <= Len(lines) /\ Len(lines) \in Nat
  OBVIOUS
<1>3. /\ n \in Nat /\ s \in [1 .. n -> X] /\ DOMAIN s = 1 .. n
      /\ \A k \in 0 .. n - 1 : s[k + 1] = first + k
  <2>1. /\ n \in Nat /\ s \in [1 .. n -> first .. tail]
        /\ \A k \in 0 .. tail - first : s[k + 1] = first + k
    <3>1. first <= tail + 1
      BY <1>2
    <3> QED  BY <1>2, <3>1, AcrossIsIt
  <2>2. first .. tail \subseteq DOMAIN lines /\ n - 1 = tail - first
    BY <1>2
  <2>. HIDE DEF s
  <2> QED  BY <2>1, <2>2
<1>4. \A a \in A, k \in X : Op(a, k) \in A /\ step[<<a, k>>] = Op(a, k)
  BY PackTyped
<1>5. base \in A /\ step \in [A \X X -> A]
  <2>1. base \in A
    BY DEF PackStates
  <2> QED  BY <1>4, <2>1
<1>6. Foldable(A, X, base, step, n, s)
  BY <1>3, <1>5 DEF Foldable
<1>. HIDE DEF s, n, A, X, base, Op, step
<1>7. PICK h : FoldTable(h, A, base, step, n, s)
  <2>. HIDE DEF g
  <2> QED  BY <1>6, FoldsExist
<1>8. h \in [SUBSET (1 .. n) -> A] /\ \A t \in SUBSET (1 .. n) : Folds(h, base, step, s, t)
  BY <1>7 DEF FoldTable
<1>9. \A t \in SUBSET (1 .. n) : t # {} => s[Max(t)] \in X /\ h[t \ {Max(t)}] \in A
  BY <1>3, <1>8, MaxOfPart
<1>10. h = [t \in SUBSET (1 .. n) |-> IF t = {} THEN base ELSE Op(h[t \ {Max(t)}], s[Max(t)])]
  BY <1>4, <1>8, <1>9 DEF Folds
<1>11. g = [t \in SUBSET (1 .. n) |-> IF t = {} THEN base ELSE Op(g[t \ {Max(t)}], s[Max(t)])]
  BY <1>3, <1>10
<1>. HIDE DEF g
<1>12. Computes(g, A, base, step, n, s)
  BY <1>4, <1>9, <1>11 DEF Computes
<1>13. <<0, base>> \in Good
  <2>1. base.chunks = <<>> /\ base.from = first /\ base.size = 0
    BY DEF base
  <2>2. PICK m \in Nat : m = first - 1 /\ m < first /\ first - 1 + 0 = m
    BY <1>2
  <2>3. Tiles(lines, <<>>, first, m)
    BY <1>2, <2>2, NoTiles
  <2>4. PackInv(lines, first, base, m)
    BY <1>2, <1>5, <2>1, <2>2, <2>3 DEF PackInv, A
  <2> QED  BY <1>3, <1>5, <2>2, <2>4
<1>14. \A k \in 0 .. n - 1, a \in A : <<k, a>> \in Good => <<k + 1, step[<<a, s[k + 1]>>]>> \in Good
  <2>1. SUFFICES ASSUME NEW k \in 0 .. n - 1, NEW a \in A, PackInv(lines, first, a, first - 1 + k)
                 PROVE  <<k + 1, step[<<a, s[k + 1]>>]>> \in Good
    OBVIOUS
  <2>2. PICK m \in Nat : m = first - 1 + k /\ m + 1 = first + k /\ first - 1 + (k + 1) = m + 1
                         /\ m + 1 <= Len(lines) /\ first <= m + 1 /\ m + 1 \in DOMAIN lines
    <3>1. k \in Nat /\ k <= tail - first
      BY <1>2, <1>3 DEF n
    <3>2. PICK m \in Nat : m = first - 1 + k
      BY <1>2, <3>1
    <3>3. m + 1 = first + k /\ first - 1 + (k + 1) = m + 1 /\ m + 1 <= Len(lines) /\ first <= m + 1
      BY <1>2, <3>1, <3>2
    <3>4. m + 1 \in DOMAIN lines
      BY <1>2, <3>3
    <3> QED  BY <3>2, <3>3, <3>4
  <2>3. PackInv(lines, first, PackLine(lines, symbol, a, m + 1), m + 1)
    BY <2>1, <2>2, PackStep
  <2>4. step[<<a, s[k + 1]>>] = PackLine(lines, symbol, a, m + 1) /\ step[<<a, s[k + 1]>>] \in A
    <3>1. s[k + 1] = m + 1
      BY <1>3, <2>2
    <3>2. m + 1 \in X
      BY <2>2 DEF X
    <3>3. Op(a, m + 1) \in A /\ step[<<a, m + 1>>] = Op(a, m + 1)
      BY <1>4, <2>1, <3>2
    <3> QED  BY <3>1, <3>3 DEF Op
  <2>5. k + 1 \in 0 .. n
    BY <1>3
  <2> QED  BY <2>2, <2>3, <2>4, <2>5
<1>15. g[1 .. n] \in A /\ <<n, g[1 .. n]>> \in Good
  <2>. HIDE DEF Good
  <2> QED  BY <1>6, <1>12, <1>13, <1>14, FoldKeeps
<1>16. PICK end : end = g[1 .. n]
  OBVIOUS
<1>17. end \in A /\ PackInv(lines, first, end, tail)
  <2>1. first - 1 + n = tail
    BY <1>2 DEF n
  <2> QED  BY <1>15, <1>16, <2>1
<1>18. /\ end.from <= tail /\ end.from \in Nat /\ end.from >= 1 /\ first <= end.from
       /\ Tiles(lines, end.chunks, first, end.from - 1)
       /\ end.size = TextLength(lines, end.from, tail) + 1
       /\ end.from = tail \/ end.size <= MAX_CHARS
  BY <1>2, <1>17 DEF PackInv, A, PackStates
<1>19. Packed(lines, first, tail, symbol) = WithChunk(end.chunks, lines, end.from, tail, symbol)
  <2>1. Packed(lines, first, tail, symbol) =
          IF end.from <= tail THEN WithChunk(end.chunks, lines, end.from, tail, symbol) ELSE end.chunks
    BY <1>1, <1>3, <1>16 DEF Packed, base, s
  <2> QED  BY <1>18, <2>1
<1>20. TextLength(lines, end.from, tail) <= MAX_CHARS \/ end.from = tail
  <2>1. end.from \in DOMAIN lines
    BY <1>2, <1>18
  <2>2. TextLength(lines, end.from, tail) \in Int
    BY <1>2, <2>1, TextGrows
  <2>3. PICK t \in Int : t = TextLength(lines, end.from, tail)
    BY <2>2
  <2>4. MAX_CHARS \in Nat
    BY ChunksAssumption
  <2> QED  BY <1>18, <2>3, <2>4
<1>21. PICK m \in Nat : m = end.from - 1 /\ m + 1 = end.from
  BY <1>18
<1>22. Tiles(lines, WithChunk(end.chunks, lines, m + 1, tail, symbol), first, tail)
  <2>1. Tiles(lines, end.chunks, first, m) /\ first <= m + 1 /\ m + 1 <= tail
    BY <1>18, <1>21
  <2>2. TextLength(lines, m + 1, tail) <= MAX_CHARS \/ m + 1 = tail
    BY <1>20, <1>21
  <2> QED  BY <1>2, <2>1, <2>2, WithChunkTiles
<1> QED  BY <1>19, <1>21, <1>22

-----------------------------------------------------------------------------
(* _sized does so too, and more than one chunk of it means a text that     *)
(* was too long.                                                           *)
LEMMA SizedTiles ==
  ASSUME NEW lines \in Seq(SourceLines), NEW symbol \in Symbols,
         NEW i \in Nat, i >= 1, NEW j \in Nat, j <= Len(lines)
  PROVE  /\ Tiles(lines, Sized(lines, i, j, symbol), i, j)
         /\ \A n \in 1 .. Len(Sized(lines, i, j, symbol)) :
              Sized(lines, i, j, symbol)[n].from = i \/ (i <= j /\ TextLength(lines, i, j) > MAX_CHARS)
<1>1. PICK c : c = Sized(lines, i, j, symbol)
  OBVIOUS
<1>2. CASE i > j \/ Blank(lines, i, j)
  <2>1. c = <<>>
    BY <1>1, <1>2 DEF Sized
  <2>2. Tiles(lines, <<>>, i, j) /\ Len(<<>>) = 0
    BY <1>2, NoTiles
  <2> QED  BY <1>1, <2>1, <2>2
<1>3. CASE ~(i > j \/ Blank(lines, i, j))
  <2>1. i \in DOMAIN lines /\ j \in DOMAIN lines /\ i <= j
    BY <1>3
  <2>2. TextLength(lines, i, j) \in Int
    BY <2>1, TextGrows
  <2>3. MAX_CHARS \in Nat
    BY ChunksAssumption
  <2>4. CASE TextLength(lines, i, j) <= MAX_CHARS
    <3>1. PICK x \in ChunkRecords : /\ x = Chunk(lines, i, j, symbol) /\ x.from = i /\ x.to = j
                                    /\ x.length = TextLength(lines, i, j)
      BY <2>1, ChunkIsRecord
    <3>2. c = <<x>>
      BY <1>1, <1>3, <2>4, <3>1 DEF Sized
    <3>3. Tiles(lines, <<x>>, i, j)
      BY <2>1, <2>4, <3>1, OneTile
    <3>4. Len(<<x>>) = 1 /\ <<x>>[1] = x /\ \A n \in 1 .. 1 : n = 1
      OBVIOUS
    <3> QED  BY <1>1, <3>1, <3>2, <3>3, <3>4
  <2>5. CASE ~(TextLength(lines, i, j) <= MAX_CHARS)
    <3>1. TextLength(lines, i, j) > MAX_CHARS
      BY <2>2, <2>3, <2>5
    <3>2. c = Packed(lines, i, IF lines[j].kind = "blank" THEN j - 1 ELSE j, symbol)
      BY <1>1, <1>3, <2>5 DEF Sized
    <3>3. Tiles(lines, c, i, j)
      <4>1. CASE lines[j].kind = "blank"
        <5>1. i # j
          <6>1. i = j => Blank(lines, i, j)
            BY <2>1, <4>1 DEF Blank
          <6> QED  BY <1>3, <6>1
        <5>2. j - 1 \in DOMAIN lines /\ i <= j - 1 /\ j - 1 \in Nat /\ j - 1 <= j
          BY <2>1, <5>1
        <5>3. Tiles(lines, Packed(lines, i, j - 1, symbol), i, j - 1)
          BY <2>1, <5>2, PackedTiles
        <5>4. \A k \in i .. j : k > j - 1 => lines[k].kind = "blank"
          <6>1. \A k \in i .. j : k > j - 1 => k = j
            OBVIOUS
          <6> QED  BY <4>1, <6>1
        <5> QED  BY <3>2, <4>1, <5>2, <5>3, <5>4, TilesWiden
      <4>2. CASE lines[j].kind # "blank"
        BY <2>1, <3>2, <4>2, PackedTiles
      <4> QED  BY <4>1, <4>2
    <3> QED  BY <1>1, <2>1, <3>1, <3>3
  <2> QED  BY <2>4, <2>5
<1> QED  BY <1>2, <1>3

-----------------------------------------------------------------------------
(* _merge_runts.                                                           *)
MergeInv(c, kept, k) ==
  /\ kept \in Seq(ChunkRecords)
  /\ k = 0 => kept = <<>>
  /\ k > 0 => Len(kept) > 0 /\ kept[Len(kept)].to = c[k].to
  /\ \A n \in 1 .. Len(kept) : /\ \E m \in 1 .. k : kept[n].from = c[m].from
                               /\ \E m \in 1 .. k : kept[n].to = c[m].to
                               /\ kept[n].from <= kept[n].to
                               /\ kept[n].length <= MAX_CHARS \/ kept[n].from = kept[n].to
  /\ \A n \in 1 .. Len(kept) - 1 : kept[n].to < kept[n + 1].from
  /\ \A m \in 1 .. k : \E n \in 1 .. Len(kept) : kept[n].from <= c[m].from /\ c[m].to <= kept[n].to

(* A chunk is put behind what is done, or into the last of it.             *)
LEMMA MergeTyped ==
  ASSUME NEW kept \in Seq(ChunkRecords), NEW x \in ChunkRecords
  PROVE  /\ Merge(kept, x) \in Seq(ChunkRecords)
         /\ \/ Merge(kept, x) = Append(kept, x)
            \/ \E y \in ChunkRecords :
                 /\ Len(kept) > 0 /\ Merge(kept, x) = Append(Front(kept), y)
                 /\ y.from = kept[Len(kept)].from /\ y.to = x.to /\ y.length <= MAX_CHARS
<1>1. CASE kept # <<>> /\ Last(kept).length < MIN_CHARS /\ Last(kept).length + 1 + x.length <= MAX_CHARS
  <2>1. Len(kept) \in Nat /\ Len(kept) > 0 /\ Len(kept) \in 1 .. Len(kept)
    BY <1>1, EmptySeq
  <2>2. PICK b \in ChunkRecords : b = Last(kept) /\ b = kept[Len(kept)]
    BY <2>1, RecordTypes DEF Last
  <2>3. b.from \in Nat /\ b.length \in Int /\ x.to \in Nat /\ x.length \in Int /\ b.symbol \in Symbols
    BY <2>2 DEF ChunkRecords
  <2>4. PICK y : y = [b EXCEPT !.to = x.to, !.length = b.length + 1 + x.length]
    OBVIOUS
  <2>5. y \in ChunkRecords /\ y.from = b.from /\ y.to = x.to /\ y.length = b.length + 1 + x.length
    <3>1. b.length + 1 + x.length \in Int
      BY <2>3
    <3>2. b = [from |-> b.from, to |-> b.to, symbol |-> b.symbol, length |-> b.length]
      BY DEF ChunkRecords
    <3>3. y = [from |-> b.from, to |-> x.to, symbol |-> b.symbol, length |-> b.length + 1 + x.length]
      BY <2>4, <3>2
    <3> QED  BY <2>3, <3>1, <3>3 DEF ChunkRecords
  <2>6. Merge(kept, x) = Append(Front(kept), y)
    BY <1>1, <2>2, <2>4 DEF Merge
  <2>7. Front(kept) \in Seq(ChunkRecords)
    BY <2>1, SubSeqProperties DEF Front
  <2> QED  BY <1>1, <2>1, <2>2, <2>5, <2>6, <2>7
<1>2. CASE ~(kept # <<>> /\ Last(kept).length < MIN_CHARS /\ Last(kept).length + 1 + x.length <= MAX_CHARS)
  BY <1>2 DEF Merge
<1> QED  BY <1>1, <1>2

(* What is merged still ends where the last chunk ends, and covers each    *)
(* of them.                                                                *)
LEMMA MergeStep ==
  ASSUME NEW c \in Seq(ChunkRecords), NEW k \in Nat, k + 1 <= Len(c),
         \A n \in 1 .. Len(c) : c[n].from <= c[n].to /\ (c[n].length <= MAX_CHARS \/ c[n].from = c[n].to),
         \A n \in 1 .. Len(c) - 1 : c[n].to < c[n + 1].from,
         NEW kept, MergeInv(c, kept, k)
  PROVE  MergeInv(c, Merge(kept, c[k + 1]), k + 1)
<1>1. PICK l \in Nat : l = Len(kept) /\ kept \in Seq(ChunkRecords)
  BY DEF MergeInv
<1>2. (k = 0 => l = 0) /\ (k > 0 => l > 0 /\ kept[l].to = c[k].to)
  <2>1. Len(<<>>) = 0
    BY EmptySeq
  <2> QED  BY <1>1, <2>1 DEF MergeInv
<1>20. \A n \in 1 .. l : /\ \E m \in 1 .. k : kept[n].from = c[m].from
                         /\ \E m \in 1 .. k : kept[n].to = c[m].to
                         /\ kept[n].from <= kept[n].to
                         /\ kept[n].length <= MAX_CHARS \/ kept[n].from = kept[n].to
  BY <1>1 DEF MergeInv
<1>21. \A n \in 1 .. l - 1 : kept[n].to < kept[n + 1].from
  BY <1>1 DEF MergeInv
<1>22. \A m \in 1 .. k : \E n \in 1 .. l : kept[n].from <= c[m].from /\ c[m].to <= kept[n].to
  BY <1>1 DEF MergeInv
<1>3. PICK x \in ChunkRecords : x = c[k + 1] /\ x.from <= x.to /\ (x.length <= MAX_CHARS \/ x.from = x.to)
  OBVIOUS
<1>4. x.from \in Nat /\ x.to \in Nat
  BY DEF ChunkRecords
<1>5. \A n \in 1 .. l : kept[n].from \in Nat /\ kept[n].to \in Nat
  BY <1>1, RecordTypes
<1>6. \A n \in 1 .. k + 1 : c[n].from \in Nat /\ c[n].to \in Nat
  BY RecordTypes
<1>7. k > 0 => c[k].to < x.from
  BY <1>3
<1>8. PICK new \in Seq(ChunkRecords) : new = Merge(kept, x)
  BY <1>1, MergeTyped
<1>9. ASSUME new = Append(kept, x)
      PROVE  MergeInv(c, new, k + 1)
  <2>1. Len(new) = l + 1 /\ new[l + 1] = x /\ \A n \in 1 .. l : new[n] = kept[n]
    BY <1>1, <1>9
  <2>2. \A n \in 1 .. l + 1 : n \in 1 .. l \/ n = l + 1
    OBVIOUS
  <2>3. \A n \in 1 .. l + 1 : /\ \E m \in 1 .. k + 1 : new[n].from = c[m].from
                              /\ \E m \in 1 .. k + 1 : new[n].to = c[m].to
                              /\ new[n].from <= new[n].to
                              /\ new[n].length <= MAX_CHARS \/ new[n].from = new[n].to
    <3>1. SUFFICES ASSUME NEW n \in 1 .. l + 1
                   PROVE  /\ \E m \in 1 .. k + 1 : new[n].from = c[m].from
                          /\ \E m \in 1 .. k + 1 : new[n].to = c[m].to
                          /\ new[n].from <= new[n].to
                          /\ new[n].length <= MAX_CHARS \/ new[n].from = new[n].to
      OBVIOUS
    <3>2. CASE n \in 1 .. l
      <4>1. \A m \in 1 .. k : m \in 1 .. k + 1
        OBVIOUS
      <4>2. /\ new[n] = kept[n] /\ kept[n].from <= kept[n].to
            /\ kept[n].length <= MAX_CHARS \/ kept[n].from = kept[n].to
        BY <1>20, <2>1, <3>2
      <4>3. /\ \E m \in 1 .. k : kept[n].from = c[m].from
            /\ \E m \in 1 .. k : kept[n].to = c[m].to
        BY <1>20, <3>2
      <4> QED  BY ONLY <4>1, <4>2, <4>3, Zenon
    <3>3. CASE n = l + 1
      <4>1. k + 1 \in 1 .. k + 1
        OBVIOUS
      <4> QED  BY <1>3, <2>1, <3>3, <4>1
    <3> QED  BY <2>2, <3>2, <3>3
  <2>4. \A n \in 1 .. l : new[n].to < new[n + 1].from
    <3>1. SUFFICES ASSUME NEW n \in 1 .. l
                   PROVE  new[n].to < new[n + 1].from
      OBVIOUS
    <3>2. CASE n < l
      <4>1. n \in 1 .. l - 1 /\ n + 1 \in 1 .. l
        BY <3>2
      <4> QED  BY <1>21, <2>1, <4>1
    <3>3. CASE n = l
      <4>1. k > 0
        BY <1>2, <3>3
      <4> QED  BY <1>2, <1>7, <2>1, <3>3, <4>1
    <3> QED  BY <3>2, <3>3
  <2>5. \A m \in 1 .. k + 1 : \E n \in 1 .. l + 1 : new[n].from <= c[m].from /\ c[m].to <= new[n].to
    <3>1. SUFFICES ASSUME NEW m \in 1 .. k + 1
                   PROVE  \E n \in 1 .. l + 1 : new[n].from <= c[m].from /\ c[m].to <= new[n].to
      OBVIOUS
    <3>2. CASE m \in 1 .. k
      <4>1. PICK n \in 1 .. l : kept[n].from <= c[m].from /\ c[m].to <= kept[n].to
        BY <1>22, <3>2
      <4>2. n \in 1 .. l + 1 /\ new[n] = kept[n]
        BY <2>1
      <4> QED  BY <4>1, <4>2
    <3>3. CASE m = k + 1
      <4>1. l + 1 \in 1 .. l + 1 /\ new[l + 1] = c[m]
        BY <1>3, <2>1, <3>3
      <4>2. new[l + 1].from <= c[m].from /\ c[m].to <= new[l + 1].to
        BY <1>6, <4>1
      <4> QED  BY <4>1, <4>2
    <3> QED  BY <3>2, <3>3
  <2> QED  BY <1>3, <2>1, <2>3, <2>4, <2>5 DEF MergeInv
<1>10. ASSUME NEW y \in ChunkRecords, l > 0, new = Append(Front(kept), y),
              y.from = kept[l].from, y.to = x.to, y.length <= MAX_CHARS
       PROVE  MergeInv(c, new, k + 1)
  <2>1. Len(new) = l /\ new[l] = y /\ \A n \in 1 .. l - 1 : new[n] = kept[n]
    <3>1. PICK f \in Seq(ChunkRecords) : f = Front(kept) /\ Len(f) = l - 1 /\ \A n \in 1 .. l - 1 : f[n] = kept[n]
      <4>1. 1 \in 1 .. l + 1 /\ l - 1 \in 0 .. l
        BY <1>10
      <4>2. /\ SubSeq(kept, 1, l - 1) \in Seq(ChunkRecords)
            /\ Len(SubSeq(kept, 1, l - 1)) = IF 1 <= l - 1 THEN l - 1 - 1 + 1 ELSE 0
            /\ \A n \in 1 .. l - 1 - 1 + 1 : SubSeq(kept, 1, l - 1)[n] = kept[1 + n - 1]
        BY <1>1, <4>1, SubSeqProperties
      <4>3. Front(kept) = SubSeq(kept, 1, l - 1)
        BY <1>1 DEF Front
      <4>4. l - 1 - 1 + 1 = l - 1 /\ \A n \in 1 .. l - 1 : 1 + n - 1 = n
        BY <1>10
      <4>5. Len(Front(kept)) = l - 1
        BY <1>10, <4>2, <4>3
      <4> QED  BY <4>2, <4>3, <4>4, <4>5
    <3>2. Append(f, y) = new
      BY <1>10, <3>1
    <3>3. /\ Len(Append(f, y)) = Len(f) + 1 /\ Append(f, y)[Len(f) + 1] = y
          /\ \A n \in 1 .. Len(f) : Append(f, y)[n] = f[n]
      BY AppendProperties
    <3>4. l - 1 + 1 = l
      OBVIOUS
    <3> QED  BY <3>1, <3>2, <3>3, <3>4
  <2>2. \A n \in 1 .. l : n \in 1 .. l - 1 \/ n = l
    OBVIOUS
  <2>3. k > 0 /\ kept[l].to = c[k].to /\ l \in 1 .. l
    BY <1>2, <1>10
  <2>4. kept[l].from <= kept[l].to /\ kept[l].to < x.from /\ y.from < x.from /\ y.from <= y.to
    <3>1. kept[l].from <= kept[l].to /\ kept[l].to < x.from /\ x.from <= x.to
      BY <1>3, <1>7, <1>20, <2>3
    <3>2. kept[l].from \in Nat /\ kept[l].to \in Nat
      BY <1>5, <2>3
    <3> QED  BY <1>4, <1>10, <3>1, <3>2
  <2>5. \A n \in 1 .. l : /\ \E m \in 1 .. k + 1 : new[n].from = c[m].from
                          /\ \E m \in 1 .. k + 1 : new[n].to = c[m].to
                          /\ new[n].from <= new[n].to
                          /\ new[n].length <= MAX_CHARS \/ new[n].from = new[n].to
    <3>1. SUFFICES ASSUME NEW n \in 1 .. l
                   PROVE  /\ \E m \in 1 .. k + 1 : new[n].from = c[m].from
                          /\ \E m \in 1 .. k + 1 : new[n].to = c[m].to
                          /\ new[n].from <= new[n].to
                          /\ new[n].length <= MAX_CHARS \/ new[n].from = new[n].to
      OBVIOUS
    <3>2. (\A m \in 1 .. k : m \in 1 .. k + 1) /\ k + 1 \in 1 .. k + 1
      OBVIOUS
    <3>3. CASE n \in 1 .. l - 1
      <4>1. /\ new[n] = kept[n] /\ kept[n].from <= kept[n].to
            /\ kept[n].length <= MAX_CHARS \/ kept[n].from = kept[n].to
        BY <1>20, <2>1, <3>3
      <4>2. /\ \E m \in 1 .. k : kept[n].from = c[m].from
            /\ \E m \in 1 .. k : kept[n].to = c[m].to
        BY <1>20
      <4> QED  BY ONLY <3>2, <4>1, <4>2, Zenon
    <3>4. CASE n = l
      <4>1. \E m \in 1 .. k : kept[l].from = c[m].from
        BY <1>20, <2>3
      <4>2. new[n].from = kept[l].from /\ new[n].to = c[k + 1].to /\ new[n].from <= new[n].to
            /\ new[n].length <= MAX_CHARS
        BY <1>3, <1>10, <2>1, <2>4, <3>4
      <4> QED  BY ONLY <3>2, <4>1, <4>2, Zenon
    <3> QED  BY <2>2, <3>3, <3>4
  <2>6. \A n \in 1 .. l - 1 : new[n].to < new[n + 1].from
    <3>1. SUFFICES ASSUME NEW n \in 1 .. l - 1
                   PROVE  new[n].to < new[n + 1].from
      OBVIOUS
    <3>2. kept[n].to < kept[n + 1].from /\ n + 1 \in 1 .. l
      BY <1>21
    <3>3. new[n] = kept[n] /\ new[n + 1].from = kept[n + 1].from
      BY <1>10, <2>1, <2>2, <3>2
    <3> QED  BY <3>2, <3>3
  <2>7. \A m \in 1 .. k + 1 : \E n \in 1 .. l : new[n].from <= c[m].from /\ c[m].to <= new[n].to
    <3>1. SUFFICES ASSUME NEW m \in 1 .. k + 1
                   PROVE  \E n \in 1 .. l : new[n].from <= c[m].from /\ c[m].to <= new[n].to
      OBVIOUS
    <3>2. CASE m \in 1 .. k
      <4>1. PICK n \in 1 .. l : kept[n].from <= c[m].from /\ c[m].to <= kept[n].to
        BY <1>22, <3>2
      <4>2. CASE n \in 1 .. l - 1
        BY <2>1, <4>1, <4>2
      <4>3. CASE n = l
        <5>1. c[m].to <= kept[l].to /\ kept[l].to < x.from /\ x.from <= x.to
          BY <1>3, <2>4, <4>1, <4>3
        <5>2. c[m].to <= y.to /\ y.from <= c[m].from
          BY <1>4, <1>5, <1>6, <1>10, <2>3, <3>1, <4>1, <4>3, <5>1
        <5> QED  BY <2>1, <2>3, <5>2
      <4> QED  BY <2>2, <4>2, <4>3
    <3>3. CASE m = k + 1
      <4>1. y.from <= c[m].from /\ c[m].to <= y.to
        BY <1>3, <1>4, <1>5, <1>10, <2>3, <2>4, <3>3
      <4> QED  BY <2>1, <2>3, <4>1
    <3> QED  BY <3>2, <3>3
  <2>8. k + 1 > 0 /\ k + 1 # 0 /\ new[l].to = c[k + 1].to
    BY <1>3, <1>10, <2>1
  <2> QED  BY <1>10, <2>1, <2>5, <2>6, <2>7, <2>8 DEF MergeInv
<1> QED  BY <1>1, <1>3, <1>8, <1>9, <1>10, MergeTyped

(* _merge_runts loses no line, and begins no chunk where none began.       *)
LEMMA MergedTiles ==
  ASSUME NEW lines, NEW i \in Nat, NEW j \in Nat, NEW c, Tiles(lines, c, i, j)
  PROVE  /\ Tiles(lines, Merged(c), i, j)
         /\ \A n \in 1 .. Len(Merged(c)) : \E m \in 1 .. Len(c) : Merged(c)[n].from = c[m].from
<1>. DEFINE n == Len(c)
            X == ChunkRecords
            A == Seq(X)
            base == <<>>
            step == [p \in A \X X |-> Merge(p[1], p[2])]
            g == CHOOSE iter : iter = [t \in SUBSET DOMAIN c |->
                   IF t = {} THEN base ELSE Merge(iter[t \ {Max(t)}], c[Max(t)])]
            Good == {p \in (0 .. n) \X A : MergeInv(c, p[2], p[1])}
<1>1. Merged(c) = g[DOMAIN c]
  BY DEF Merged, FoldLeft, MapThenFoldSet
<1>2. /\ c \in Seq(ChunkRecords)
      /\ \A m \in 1 .. Len(c) : i <= c[m].from /\ c[m].from <= c[m].to /\ c[m].to <= j
      /\ \A m \in 1 .. Len(c) - 1 : c[m].to < c[m + 1].from
      /\ \A m \in 1 .. Len(c) : c[m].length <= MAX_CHARS \/ c[m].from = c[m].to
  BY DEF Tiles
<1>3. /\ n \in Nat /\ c \in [1 .. n -> X] /\ DOMAIN c = 1 .. n
  BY <1>2, SeqDef
<1>4. \A a \in A, x \in X : Merge(a, x) \in A /\ step[<<a, x>>] = Merge(a, x)
  BY MergeTyped
<1>5. base \in A /\ step \in [A \X X -> A]
  BY <1>4, EmptySeq
<1>6. Foldable(A, X, base, step, n, c)
  BY <1>3, <1>5 DEF Foldable
<1>. HIDE DEF n, A, X, base, step
<1>7. PICK h : FoldTable(h, A, base, step, n, c)
  <2>. HIDE DEF g
  <2> QED  BY <1>6, FoldsExist
<1>8. h \in [SUBSET (1 .. n) -> A] /\ \A t \in SUBSET (1 .. n) : Folds(h, base, step, c, t)
  BY <1>7 DEF FoldTable
<1>9. \A t \in SUBSET (1 .. n) : t # {} => c[Max(t)] \in X /\ h[t \ {Max(t)}] \in A
  BY <1>3, <1>8, MaxOfPart
<1>10. h = [t \in SUBSET (1 .. n) |-> IF t = {} THEN base ELSE Merge(h[t \ {Max(t)}], c[Max(t)])]
  BY <1>4, <1>8, <1>9 DEF Folds
<1>11. g = [t \in SUBSET (1 .. n) |-> IF t = {} THEN base ELSE Merge(g[t \ {Max(t)}], c[Max(t)])]
  BY <1>3, <1>10
<1>. HIDE DEF g
<1>12. Computes(g, A, base, step, n, c)
  BY <1>4, <1>9, <1>11 DEF Computes
<1>13. <<0, base>> \in Good
  <2>1. base = <<>> /\ Len(<<>>) = 0
    BY EmptySeq DEF base
  <2>2. MergeInv(c, base, 0)
    BY <1>5, <2>1 DEF MergeInv, A, X
  <2> QED  BY <1>3, <1>5, <2>2
<1>14. \A k \in 0 .. n - 1, a \in A : <<k, a>> \in Good => <<k + 1, step[<<a, c[k + 1]>>]>> \in Good
  <2>1. SUFFICES ASSUME NEW k \in 0 .. n - 1, NEW a \in A, MergeInv(c, a, k)
                 PROVE  <<k + 1, step[<<a, c[k + 1]>>]>> \in Good
    OBVIOUS
  <2>2. k \in Nat /\ k + 1 <= Len(c) /\ k + 1 \in 0 .. n /\ k + 1 \in 1 .. n
    BY <1>3 DEF n
  <2>3. MergeInv(c, Merge(a, c[k + 1]), k + 1)
    BY <1>2, <2>1, <2>2, MergeStep
  <2>4. step[<<a, c[k + 1]>>] = Merge(a, c[k + 1]) /\ step[<<a, c[k + 1]>>] \in A
    BY <1>3, <1>4, <2>2
  <2> QED  BY <2>2, <2>3, <2>4
<1>15. g[1 .. n] \in A /\ <<n, g[1 .. n]>> \in Good
  <2>. HIDE DEF Good
  <2> QED  BY <1>6, <1>12, <1>13, <1>14, FoldKeeps
<1>16. PICK kept : kept = Merged(c) /\ kept \in Seq(ChunkRecords) /\ MergeInv(c, kept, Len(c))
  BY <1>1, <1>3, <1>15 DEF n, A, X
<1>17. /\ \A m \in 1 .. Len(kept) : /\ \E r \in 1 .. Len(c) : kept[m].from = c[r].from
                                    /\ \E r \in 1 .. Len(c) : kept[m].to = c[r].to
                                    /\ kept[m].from <= kept[m].to
                                    /\ kept[m].length <= MAX_CHARS \/ kept[m].from = kept[m].to
       /\ \A m \in 1 .. Len(kept) - 1 : kept[m].to < kept[m + 1].from
  BY <1>16 DEF MergeInv
<1>18. \A r \in 1 .. Len(c) : \E m \in 1 .. Len(kept) : kept[m].from <= c[r].from /\ c[r].to <= kept[m].to
  BY <1>16 DEF MergeInv
<1>19. /\ \A r \in 1 .. Len(c) : c[r].from \in Nat /\ c[r].to \in Nat
       /\ \A m \in 1 .. Len(kept) : kept[m].from \in Nat /\ kept[m].to \in Nat
  BY <1>2, <1>16, RecordTypes
<1>20. \A m \in 1 .. Len(kept) : i <= kept[m].from /\ kept[m].to <= j
  <2>1. SUFFICES ASSUME NEW m \in 1 .. Len(kept)
                 PROVE  i <= kept[m].from /\ kept[m].to <= j
    OBVIOUS
  <2>2. PICK r \in 1 .. Len(c) : kept[m].from = c[r].from
    BY <1>17
  <2>3. PICK q \in 1 .. Len(c) : kept[m].to = c[q].to
    BY <1>17
  <2>4. i <= c[r].from /\ c[q].to <= j
    BY <1>2
  <2> QED  BY <2>2, <2>3, <2>4
<1>21. \A k \in i .. j : lines[k].kind # "blank" => \E m \in 1 .. Len(kept) : k \in kept[m].from .. kept[m].to
  <2>1. SUFFICES ASSUME NEW k \in i .. j, lines[k].kind # "blank"
                 PROVE  \E m \in 1 .. Len(kept) : k \in kept[m].from .. kept[m].to
    OBVIOUS
  <2>2. PICK r \in 1 .. Len(c) : k \in c[r].from .. c[r].to
    BY <2>1 DEF Tiles
  <2>3. PICK m \in 1 .. Len(kept) : kept[m].from <= c[r].from /\ c[r].to <= kept[m].to
    BY <1>18
  <2>4. k \in kept[m].from .. kept[m].to
    BY <1>19, <2>2, <2>3
  <2> QED  BY <2>4
<1>22. Tiles(lines, kept, i, j)
  BY <1>16, <1>17, <1>20, <1>21 DEF Tiles
<1> QED  BY <1>16, <1>17, <1>22

-----------------------------------------------------------------------------
(* Sections, one after the other.                                          *)
StartRecords == [at : Nat, symbol : Symbols]

LEMMA StartTypes ==
  ASSUME NEW starts \in Seq(StartRecords)
  PROVE  \A n \in 1 .. Len(starts) : starts[n].at \in Nat
<1>1. \A n \in 1 .. Len(starts) : starts[n] \in StartRecords
  OBVIOUS
<1>2. \A x \in StartRecords : x.at \in Nat
  BY DEF StartRecords
<1> QED  BY <1>1, <1>2

Rising(starts) == \A n \in 1 .. Len(starts) - 1 : starts[n].at < starts[n + 1].at
StartsIn(lines, starts) ==
  /\ starts \in Seq(StartRecords) /\ Rising(starts)
  /\ \A n \in 1 .. Len(starts) : starts[n].at \in DOMAIN lines

WithFirst(starts) ==
  IF starts = <<>> \/ Head(starts).at > 1
    THEN <<[at |-> 1, symbol |-> NoSymbol]>> \o starts ELSE starts
EndOfSection(lines, all, n) == IF n < Len(all) THEN all[n + 1].at - 1 ELSE Len(lines)

(* Where a chunk of a section may begin.                                   *)
BeginsWell(lines, all, q, x) ==
  /\ all[q].at <= x /\ x <= EndOfSection(lines, all, q)
  /\ x = all[q].at \/ TextLength(lines, all[q].at, EndOfSection(lines, all, q)) > MAX_CHARS

(* _sections: the lines above the first heading are a section of their     *)
(* own.                                                                    *)
LEMMA FirstIsThere ==
  ASSUME NEW lines \in Seq(SourceLines), lines # <<>>, NEW starts, StartsIn(lines, starts)
  PROVE  /\ StartsIn(lines, WithFirst(starts))
         /\ Len(WithFirst(starts)) > 0 /\ WithFirst(starts)[1].at = 1
         /\ \A n \in 1 .. Len(WithFirst(starts)) :
              WithFirst(starts)[n].at = 1 \/ \E m \in 1 .. Len(starts) : WithFirst(starts)[n].at = starts[m].at
         /\ \A m \in 1 .. Len(starts) : \E n \in 1 .. Len(WithFirst(starts)) : WithFirst(starts)[n].at = starts[m].at
<1>1. /\ starts \in Seq(StartRecords) /\ \A n \in 1 .. Len(starts) : starts[n].at \in DOMAIN lines
      /\ \A n \in 1 .. Len(starts) - 1 : starts[n].at < starts[n + 1].at
  BY DEF StartsIn, Rising
<1>2. PICK l \in Nat : l = Len(starts)
  BY <1>1
<1>3. 1 \in DOMAIN lines /\ \A k \in DOMAIN lines : k \in Nat /\ k >= 1
  BY EmptySeq
<1>4. PICK all : all = WithFirst(starts)
  OBVIOUS
<1>5. CASE starts = <<>> \/ Head(starts).at > 1
  <2>1. PICK x \in StartRecords : x = [at |-> 1, symbol |-> NoSymbol] /\ x.at = 1
    <3>1. NoSymbol \in Symbols
      BY EmptySeq DEF NoSymbol, Symbols
    <3>2. [at |-> 1, symbol |-> NoSymbol] \in StartRecords
      BY <3>1 DEF StartRecords
    <3>3. [at |-> 1, symbol |-> NoSymbol].at = 1
      OBVIOUS
    <3> QED  BY <3>2, <3>3
  <2>2. all = <<x>> \o starts
    BY <1>4, <1>5, <2>1 DEF WithFirst
  <2>3. all \in Seq(StartRecords) /\ Len(all) = l + 1 /\ all[1] = x /\ \A n \in 1 .. l : all[n + 1] = starts[n]
    <3>1. <<x>> \in Seq(StartRecords) /\ Len(<<x>>) = 1 /\ <<x>>[1] = x /\ 1 \in 1 .. 1
      OBVIOUS
    <3> QED  BY <1>1, <1>2, <2>2, <3>1
  <2>4. \A n \in 1 .. l + 1 : n = 1 \/ \E m \in 1 .. l : n = m + 1
    <3>1. \A n \in 1 .. l + 1 : n # 1 => n - 1 \in 1 .. l /\ n = n - 1 + 1
      OBVIOUS
    <3> QED  BY <3>1
  <2>5. l > 0 => starts[1].at > 1
    <3>1. l > 0 => starts # <<>> /\ Head(starts) = starts[1]
      BY <1>1, <1>2, EmptySeq
    <3> QED  BY <1>5, <3>1
  <2>6. \A n \in 1 .. l : all[n].at < all[n + 1].at
    <3>1. SUFFICES ASSUME NEW n \in 1 .. l
                   PROVE  all[n].at < all[n + 1].at
      OBVIOUS
    <3>2. CASE n = 1
      BY <2>1, <2>3, <2>5, <3>2
    <3>3. CASE n # 1
      <4>1. PICK m \in 1 .. l - 1 : n = m + 1 /\ m \in 1 .. l
        <5>1. n - 1 \in 1 .. l - 1 /\ n = n - 1 + 1 /\ n - 1 \in 1 .. l
          BY <3>3
        <5> QED  BY <5>1
      <4>2. all[n] = starts[m] /\ all[n + 1] = starts[m + 1]
        BY <2>3, <4>1
      <4>3. starts[m].at < starts[m + 1].at
        BY <1>1, <1>2
      <4> QED  BY <4>2, <4>3
    <3> QED  BY <3>2, <3>3
  <2>7. \A n \in 1 .. l + 1 : all[n].at \in DOMAIN lines /\ (all[n].at = 1 \/ \E m \in 1 .. l : all[n].at = starts[m].at)
    <3>1. SUFFICES ASSUME NEW n \in 1 .. l + 1
                   PROVE  all[n].at \in DOMAIN lines /\ (all[n].at = 1 \/ \E m \in 1 .. l : all[n].at = starts[m].at)
      OBVIOUS
    <3>2. CASE n = 1
      BY <1>3, <2>1, <2>3, <3>2
    <3>3. ASSUME NEW m \in 1 .. l, n = m + 1
          PROVE  all[n].at \in DOMAIN lines /\ (all[n].at = 1 \/ \E r \in 1 .. l : all[n].at = starts[r].at)
      BY <1>1, <1>2, <2>3, <3>3
    <3> QED  BY <2>4, <3>2, <3>3
  <2>8. \A m \in 1 .. l : \E n \in 1 .. l + 1 : all[n].at = starts[m].at
    <3>1. \A m \in 1 .. l : m + 1 \in 1 .. l + 1 /\ all[m + 1] = starts[m]
      BY <2>3
    <3> QED  BY <3>1
  <2>9. l + 1 > 0 /\ l + 1 - 1 = l
    OBVIOUS
  <2>10. StartsIn(lines, all)
    BY <2>3, <2>6, <2>7, <2>9 DEF StartsIn, Rising
  <2> QED  BY <1>2, <1>4, <2>1, <2>3, <2>7, <2>8, <2>9, <2>10
<1>6. CASE ~(starts = <<>> \/ Head(starts).at > 1)
  <2>1. all = starts
    BY <1>4, <1>6 DEF WithFirst
  <2>2. l > 0 /\ Head(starts) = starts[1] /\ 1 \in 1 .. Len(starts)
    BY <1>1, <1>2, <1>6, EmptySeq
  <2>3. starts[1].at = 1
    <3>1. starts[1].at \in DOMAIN lines
      BY <1>1, <2>2
    <3>2. starts[1].at \in Nat /\ starts[1].at >= 1
      BY <1>3, <3>1
    <3> QED  BY <1>6, <2>2, <3>2
  <2> QED  BY <1>2, <1>4, <2>1, <2>2, <2>3
<1> QED  BY <1>5, <1>6

(* The chunks of the sections up to k, put together.                       *)
SectionsInv(lines, all, c, k) ==
  /\ Tiles(lines, c, 1, IF k = 0 THEN 0 ELSE EndOfSection(lines, all, k))
  /\ \A n \in 1 .. Len(c) : \E q \in 1 .. k : BeginsWell(lines, all, q, c[n].from)

(* One more section: it begins where the one before it ended.              *)
LEMMA SectionsStep ==
  ASSUME NEW lines \in Seq(SourceLines), NEW all, StartsIn(lines, all), NEW k \in Nat, k + 1 <= Len(all),
         all[1].at = 1, NEW c, SectionsInv(lines, all, c, k)
  PROVE  SectionsInv(lines, all, c \o Sized(lines, all[k + 1].at, EndOfSection(lines, all, k + 1), all[k + 1].symbol), k + 1)
<1>1. /\ all \in Seq(StartRecords) /\ \A n \in 1 .. Len(all) : all[n].at \in DOMAIN lines
      /\ \A n \in 1 .. Len(all) - 1 : all[n].at < all[n + 1].at
  BY DEF StartsIn, Rising
<1>2. PICK from, end, symbol : from = all[k + 1].at /\ end = EndOfSection(lines, all, k + 1) /\ symbol = all[k + 1].symbol
  OBVIOUS
<1>3. from \in DOMAIN lines /\ from \in Nat /\ from >= 1 /\ symbol \in Symbols /\ from <= Len(lines) /\ Len(lines) \in Nat
  <2>1. k + 1 \in 1 .. Len(all)
    BY <1>1
  <2>2. all[k + 1] \in StartRecords
    BY <1>1, <2>1
  <2> QED  BY <1>1, <1>2, <2>1, <2>2 DEF StartRecords
<1>4. end \in Nat /\ end <= Len(lines) /\ from <= end
  <2>1. CASE k + 1 < Len(all)
    <3>1. k + 1 \in 1 .. Len(all) - 1 /\ k + 2 \in 1 .. Len(all) /\ k + 1 + 1 = k + 2
      BY <1>1, <2>1
    <3>2. all[k + 2].at \in DOMAIN lines /\ from < all[k + 2].at
      BY <1>1, <1>2, <3>1
    <3>3. end = all[k + 2].at - 1
      BY <1>2, <2>1, <3>1 DEF EndOfSection
    <3> QED  BY <1>3, <3>2, <3>3
  <2>2. CASE ~(k + 1 < Len(all))
    BY <1>2, <1>3, <2>2 DEF EndOfSection
  <2> QED  BY <2>1, <2>2
<1>5. PICK m \in Nat : m = (IF k = 0 THEN 0 ELSE EndOfSection(lines, all, k)) /\ m + 1 = from
  <2>1. CASE k = 0
    BY <1>2, <2>1
  <2>2. CASE k # 0
    <3>1. k < Len(all) /\ EndOfSection(lines, all, k) = from - 1
      BY <1>1, <1>2, <2>2 DEF EndOfSection
    <3> QED  BY <1>3, <2>2, <3>1
  <2> QED  BY <2>1, <2>2
<1>6. Tiles(lines, c, 1, m)
  BY <1>5 DEF SectionsInv
<1>7. PICK b : b = Sized(lines, from, end, symbol)
  OBVIOUS
<1>8. Tiles(lines, b, from, end) /\ \A n \in 1 .. Len(b) : b[n].from = from \/ TextLength(lines, from, end) > MAX_CHARS
  BY <1>3, <1>4, <1>7, SizedTiles
<1>9. Tiles(lines, c \o b, 1, end)
  <2>1. 1 <= m + 1 /\ m <= end
    BY <1>4, <1>5
  <2> QED  BY <1>4, <1>5, <1>6, <1>8, <2>1, TilesJoin
<1>10. \A n \in 1 .. Len(c \o b) : \E q \in 1 .. k + 1 : BeginsWell(lines, all, q, (c \o b)[n].from)
  <2>1. c \in Seq(ChunkRecords) /\ b \in Seq(ChunkRecords)
    BY <1>6, <1>8 DEF Tiles
  <2>2. PICK p \in Nat, r \in Nat : p = Len(c) /\ r = Len(b)
    BY <2>1
  <2>3. /\ Len(c \o b) = p + r /\ \A n \in 1 .. p : (c \o b)[n] = c[n]
        /\ \A n \in 1 .. r : (c \o b)[p + n] = b[n]
    BY <2>1, <2>2
  <2>4. ASSUME NEW n \in 1 .. p
        PROVE  \E q \in 1 .. k + 1 : BeginsWell(lines, all, q, (c \o b)[n].from)
    <3>1. PICK q \in 1 .. k : BeginsWell(lines, all, q, c[n].from)
      BY <2>2 DEF SectionsInv
    <3>2. q \in 1 .. k + 1
      OBVIOUS
    <3> QED  BY <2>3, <3>1, <3>2
  <2>5. ASSUME NEW n \in 1 .. r
        PROVE  \E q \in 1 .. k + 1 : BeginsWell(lines, all, q, (c \o b)[p + n].from)
    <3>1. from <= b[n].from /\ b[n].from <= end
      <4>1. from <= b[n].from /\ b[n].from <= b[n].to /\ b[n].to <= end
        BY <1>8, <2>2 DEF Tiles
      <4>2. b[n].from \in Nat /\ b[n].to \in Nat
        BY <2>1, <2>2, RecordTypes
      <4> QED  BY <1>4, <4>1, <4>2
    <3>2. BeginsWell(lines, all, k + 1, b[n].from)
      BY <1>2, <1>8, <2>2, <3>1 DEF BeginsWell
    <3>3. k + 1 \in 1 .. k + 1
      OBVIOUS
    <3> QED  BY <2>3, <3>2, <3>3
  <2>6. \A n \in 1 .. p + r : n \in 1 .. p \/ \E x \in 1 .. r : n = p + x
    <3>1. \A n \in 1 .. p + r : n \notin 1 .. p => n - p \in 1 .. r /\ n = p + (n - p)
      OBVIOUS
    <3> QED  BY <3>1
  <2> QED  BY <2>3, <2>4, <2>5, <2>6
<1>11. k + 1 # 0
  OBVIOUS
<1> QED  BY <1>2, <1>7, <1>9, <1>10, <1>11 DEF SectionsInv

(* Sections loses no line; and where a chunk begins within a section, the  *)
(* section was too long.                                                   *)
LEMMA SectionsTile ==
  ASSUME NEW lines \in Seq(SourceLines), lines # <<>>, NEW starts, StartsIn(lines, starts)
  PROVE  /\ Tiles(lines, Sections(lines, starts), 1, Len(lines))
         /\ \A n \in 1 .. Len(Sections(lines, starts)) : \E q \in 1 .. Len(WithFirst(starts)) :
              BeginsWell(lines, WithFirst(starts), q, Sections(lines, starts)[n].from)
<1>1. PICK all : all = WithFirst(starts)
  OBVIOUS
<1>2. StartsIn(lines, all) /\ Len(all) > 0 /\ all[1].at = 1 /\ all \in Seq(StartRecords)
  BY <1>1, FirstIsThere DEF StartsIn
<1>3. PICK l \in Nat : l = Len(all) /\ l > 0 /\ DOMAIN all = 1 .. l
  BY <1>2
<1>. DEFINE Part(n) == Sized(lines, all[n].at, EndOfSection(lines, all, n), all[n].symbol)
            parts == [n \in 1 .. l |-> Part(n)]
<1>4. Sections(lines, starts) = Merged(FlattenSeq(parts))
  <2>1. \A n \in 1 .. l : (IF n < Len(all) THEN all[n + 1].at - 1 ELSE Len(lines)) = EndOfSection(lines, all, n)
    BY DEF EndOfSection
  <2>2. Sections(lines, starts) =
          Merged(FlattenSeq([n \in 1 .. l |->
            Sized(lines, all[n].at, IF n < Len(all) THEN all[n + 1].at - 1 ELSE Len(lines), all[n].symbol)]))
    BY <1>1, <1>3 DEF Sections, WithFirst
  <2> QED  BY <2>2 DEF EndOfSection
<1>5. \A n \in 1 .. l : Part(n) \in Seq(ChunkRecords)
  <2>1. SUFFICES ASSUME NEW n \in 1 .. l
                 PROVE  Part(n) \in Seq(ChunkRecords)
    OBVIOUS
  <2>2. all[n].at \in DOMAIN lines /\ all[n].symbol \in Symbols
    <3>1. all[n] \in StartRecords
      BY <1>2, <1>3
    <3> QED  BY <1>2, <1>3, <3>1 DEF StartsIn, StartRecords
  <2>3. EndOfSection(lines, all, n) \in Nat /\ EndOfSection(lines, all, n) <= Len(lines)
    <3>1. CASE n < Len(all)
      <4>1. n + 1 \in 1 .. Len(all)
        BY <1>3, <3>1
      <4>2. all[n + 1].at \in DOMAIN lines
        BY <1>2, <4>1 DEF StartsIn
      <4> QED  BY <3>1, <4>2 DEF EndOfSection
    <3>2. CASE ~(n < Len(all))
      BY <3>2 DEF EndOfSection
    <3> QED  BY <3>1, <3>2
  <2>4. all[n].at \in Nat /\ all[n].at >= 1
    BY <2>2
  <2>5. Tiles(lines, Part(n), all[n].at, EndOfSection(lines, all, n))
    BY <2>2, <2>3, <2>4, SizedTiles
  <2> QED  BY <2>5 DEF Tiles
<1>6. parts \in Seq(Seq(ChunkRecords)) /\ Len(parts) = l /\ \A n \in 1 .. l : parts[n] = Part(n)
  BY <1>3, <1>5
<1>. HIDE DEF parts
<1>7. PICK f : FlatRun(f, ChunkRecords, parts)
  BY <1>6, FlatSteps
<1>8. /\ f[0] = <<>> /\ FlattenSeq(parts) = f[l]
      /\ \A k \in 0 .. l - 1 : f[k + 1] = f[k] \o parts[k + 1]
  BY <1>6, <1>7 DEF FlatRun
<1>. DEFINE D == {k \in Nat : k <= l => SectionsInv(lines, all, f[k], k)}
<1>9. 0 \in D
  <2>1. Tiles(lines, <<>>, 1, 0)
    BY NoTiles
  <2>2. Len(f[0]) = 0
    BY <1>8, EmptySeq
  <2>3. SectionsInv(lines, all, f[0], 0)
    BY <1>8, <2>1, <2>2 DEF SectionsInv
  <2> QED  BY <2>3
<1>10. ASSUME NEW k \in D
       PROVE  k + 1 \in D
  <2>. k \in Nat /\ k + 1 \in Nat
    OBVIOUS
  <2>1. SUFFICES ASSUME k + 1 <= l
                 PROVE  SectionsInv(lines, all, f[k + 1], k + 1)
    OBVIOUS
  <2>2. k <= l /\ k \in 0 .. l - 1 /\ k + 1 \in 1 .. l
    BY <1>3, <2>1
  <2>3. SectionsInv(lines, all, f[k], k)
    BY <2>2
  <2>4. SectionsInv(lines, all, f[k] \o Part(k + 1), k + 1)
    BY <1>2, <1>3, <2>1, <2>3, SectionsStep
  <2> QED  BY <1>6, <1>8, <2>2, <2>4
<1>11. D = Nat
  <2> HIDE DEF D
  <2>1. D \in SUBSET Nat
    BY DEF D
  <2> QED  BY <1>9, <1>10, <2>1, SetInduction
<1>12. PICK c : c = f[l] /\ SectionsInv(lines, all, c, l)
  BY <1>11
<1>13. Sections(lines, starts) = Merged(c)
  BY <1>4, <1>8, <1>12
<1>14. Tiles(lines, c, 1, Len(lines))
  <2>1. EndOfSection(lines, all, l) = Len(lines)
    BY <1>3 DEF EndOfSection
  <2> QED  BY <1>3, <1>12, <2>1 DEF SectionsInv
<1>15. PICK merged : merged = Merged(c) /\ Tiles(lines, merged, 1, Len(lines))
                     /\ \A n \in 1 .. Len(merged) : \E m \in 1 .. Len(c) : merged[n].from = c[m].from
  <2>1. 1 \in Nat /\ Len(lines) \in Nat
    OBVIOUS
  <2> QED  BY <1>14, <2>1, MergedTiles
<1>16. \A n \in 1 .. Len(merged) : \E q \in 1 .. l : BeginsWell(lines, all, q, merged[n].from)
  <2>1. SUFFICES ASSUME NEW n \in 1 .. Len(merged)
                 PROVE  \E q \in 1 .. l : BeginsWell(lines, all, q, merged[n].from)
    OBVIOUS
  <2>2. PICK m \in 1 .. Len(c) : merged[n].from = c[m].from
    BY <1>15
  <2>3. PICK q \in 1 .. l : BeginsWell(lines, all, q, c[m].from)
    BY <1>12 DEF SectionsInv
  <2> QED  BY <2>2, <2>3
<1> QED  BY <1>1, <1>3, <1>13, <1>15, <1>16

-----------------------------------------------------------------------------
(* Headings.                                                               *)
(* A start below all others keeps the starts in order.                     *)
LEMMA OneMoreStart ==
  ASSUME NEW lines, NEW starts, StartsIn(lines, starts), NEW k \in Nat, k + 1 \in DOMAIN lines,
         \A n \in 1 .. Len(starts) : starts[n].at <= k,
         NEW x \in StartRecords, x.at = k + 1
  PROVE  /\ StartsIn(lines, Append(starts, x)) /\ Append(starts, x) \in Seq(StartRecords)
         /\ Len(Append(starts, x)) = Len(starts) + 1 /\ Append(starts, x)[Len(starts) + 1] = x
         /\ \A n \in 1 .. Len(starts) : Append(starts, x)[n] = starts[n]
<1>1. /\ starts \in Seq(StartRecords) /\ \A n \in 1 .. Len(starts) : starts[n].at \in DOMAIN lines
      /\ \A n \in 1 .. Len(starts) - 1 : starts[n].at < starts[n + 1].at
  BY DEF StartsIn, Rising
<1>2. PICK l \in Nat, new \in Seq(StartRecords) :
        /\ l = Len(starts) /\ new = Append(starts, x) /\ Len(new) = l + 1 /\ new[l + 1] = x
        /\ \A n \in 1 .. l : new[n] = starts[n]
  <2>1. /\ Append(starts, x) \in Seq(StartRecords) /\ Len(Append(starts, x)) = Len(starts) + 1
        /\ Append(starts, x)[Len(starts) + 1] = x /\ Len(starts) \in Nat
        /\ \A n \in 1 .. Len(starts) : Append(starts, x)[n] = starts[n]
    BY <1>1, AppendProperties
  <2> QED  BY <2>1
<1>3. \A n \in 1 .. l + 1 : new[n].at \in DOMAIN lines
  <2>1. \A n \in 1 .. l + 1 : n \in 1 .. l \/ n = l + 1
    OBVIOUS
  <2> QED  BY <1>1, <1>2, <2>1
<1>4. \A n \in 1 .. l : new[n].at < new[n + 1].at
  <2>1. SUFFICES ASSUME NEW n \in 1 .. l
                 PROVE  new[n].at < new[n + 1].at
    OBVIOUS
  <2>2. CASE n < l
    <3>1. n \in 1 .. l - 1 /\ n + 1 \in 1 .. l
      BY <2>2
    <3> QED  BY <1>1, <1>2, <3>1
  <2>3. CASE n = l
    <3>1. starts[n] \in StartRecords /\ starts[n].at <= k
      BY <1>1, <1>2
    <3>2. starts[n].at \in Nat
      BY <3>1 DEF StartRecords
    <3> QED  BY <1>2, <2>3, <3>1, <3>2
  <2> QED  BY <2>2, <2>3
<1>5. l + 1 - 1 = l
  OBVIOUS
<1>6. StartsIn(lines, new)
  BY <1>2, <1>3, <1>4, <1>5 DEF StartsIn, Rising
<1> QED  BY <1>2, <1>6

IsHead(lines, h) == lines[h].kind \in {"h1", "h2"} /\ ~InFence(lines, h)
HeadStates == [fenced : BOOLEAN, trail : Symbols, starts : Seq(StartRecords)]

HeadInv(lines, acc, k) ==
  /\ acc \in HeadStates /\ StartsIn(lines, acc.starts)
  /\ acc.fenced <=> InFence(lines, k + 1)
  /\ \A n \in 1 .. Len(acc.starts) : acc.starts[n].at <= k /\ IsHead(lines, acc.starts[n].at)
  /\ \A h \in 1 .. k : IsHead(lines, h) => \E n \in 1 .. Len(acc.starts) : acc.starts[n].at = h

(* Below a fence line the other of inside and outside holds.               *)
LEMMA FencesAlternate ==
  ASSUME NEW lines, NEW k \in Nat
  PROVE  /\ ~InFence(lines, 1)
         /\ lines[k + 1].kind = "fence" => (InFence(lines, k + 2) <=> ~InFence(lines, k + 1))
         /\ lines[k + 1].kind # "fence" => (InFence(lines, k + 2) <=> InFence(lines, k + 1))
<1>. DEFINE F(m) == {n \in 1 .. m : lines[n].kind = "fence"}
<1>1. IsFiniteSet(F(k))
  <2>1. IsFiniteSet(1 .. k) /\ F(k) \subseteq 1 .. k
    BY FS_Interval
  <2> QED  BY <2>1, FS_Subset
<1>2. PICK c \in Nat : c = Cardinality(F(k))
  BY <1>1, FS_CardinalityType
<1>3. k + 1 - 1 = k /\ k + 2 - 1 = k + 1
  OBVIOUS
<1>4. (InFence(lines, k + 1) <=> c % 2 = 1) /\ (InFence(lines, k + 2) <=> Cardinality(F(k + 1)) % 2 = 1)
  <2>1. {n \in 1 .. (k + 1) - 1 : lines[n].kind = "fence"} = F(k)
    BY <1>3
  <2>2. {n \in 1 .. (k + 2) - 1 : lines[n].kind = "fence"} = F(k + 1)
    BY <1>3
  <2>3. InFence(lines, k + 1) <=> Cardinality(F(k)) % 2 = 1
    BY <2>1 DEF InFence
  <2>4. InFence(lines, k + 2) <=> Cardinality(F(k + 1)) % 2 = 1
    BY <2>2 DEF InFence
  <2>. HIDE DEF F
  <2> QED  BY <1>2, <2>3, <2>4
<1>5. ~InFence(lines, 1)
  <2>1. {n \in 1 .. 1 - 1 : lines[n].kind = "fence"} = {}
    OBVIOUS
  <2>2. Cardinality({}) = 0 /\ 0 % 2 = 0
    BY FS_EmptySet
  <2> QED  BY <2>1, <2>2 DEF InFence
<1>6. ASSUME lines[k + 1].kind = "fence"
      PROVE  InFence(lines, k + 2) <=> ~InFence(lines, k + 1)
  <2>1. F(k + 1) = F(k) \cup {k + 1} /\ k + 1 \notin F(k)
    BY <1>6
  <2>2. Cardinality(F(k + 1)) = c + 1
    <3> HIDE DEF F
    <3> QED  BY <1>1, <1>2, <2>1, FS_AddElement
  <2>3. (c + 1) % 2 = 1 <=> ~(c % 2 = 1)
    OBVIOUS
  <2> QED  BY <1>4, <2>2, <2>3
<1>7. ASSUME lines[k + 1].kind # "fence"
      PROVE  InFence(lines, k + 2) <=> InFence(lines, k + 1)
  <2>1. F(k + 1) = F(k)
    BY <1>7
  <2> QED  BY <1>2, <1>4, <2>1
<1> QED  BY <1>5, <1>6, <1>7

LEMMA HeadTyped ==
  ASSUME NEW lines, NEW acc \in HeadStates, NEW k \in Nat
  PROVE  AddHeading(lines, acc, k) \in HeadStates
<1>1. acc.fenced \in BOOLEAN /\ acc.trail \in Symbols /\ acc.starts \in Seq(StartRecords)
  BY DEF HeadStates
<1>2. PICK depth : depth = Min({Level(lines[k].kind) - 1, Len(acc.trail)})
  OBVIOUS
<1>3. depth \in 0 .. Len(acc.trail)
  <2>1. PICK a \in Int, b \in Nat : a = Level(lines[k].kind) - 1 /\ b = Len(acc.trail) /\ a >= 0
    BY <1>1 DEF Level, Symbols
  <2>2. Min({a, b}) = IF a <= b THEN a ELSE b
    <3>1. \A x \in {a, b} : x \in Int
      OBVIOUS
    <3> QED  BY <3>1 DEF Min
  <2> QED  BY <1>2, <2>1, <2>2
<1>4. PICK trail \in Symbols : trail = Append(SubSeq(acc.trail, 1, depth), k)
  <2>1. SubSeq(acc.trail, 1, depth) \in Seq(Nat)
    BY <1>1, <1>3 DEF Symbols
  <2>2. Append(SubSeq(acc.trail, 1, depth), k) \in Seq(Nat)
    BY <2>1, AppendProperties
  <2> QED  BY <2>2 DEF Symbols
<1>5. PICK x \in StartRecords : x = [at |-> k, symbol |-> trail]
  <2>1. [at |-> k, symbol |-> trail] \in StartRecords
    BY DEF StartRecords
  <2> QED  BY <2>1
<1>6. Append(acc.starts, x) \in Seq(StartRecords)
  BY <1>1
<1>7. [acc EXCEPT !.fenced = ~acc.fenced] \in HeadStates
  BY DEF HeadStates
<1>8. [acc EXCEPT !.trail = trail, !.starts = Append(acc.starts, x)] \in HeadStates
  BY <1>6 DEF HeadStates
<1> QED  BY <1>2, <1>4, <1>5, <1>7, <1>8 DEF AddHeading

(* chunk_markdown on one more line: headings outside of fences, and no     *)
(* others.                                                                 *)
LEMMA HeadStep ==
  ASSUME NEW lines \in Seq(SourceLines), NEW k \in Nat, k + 1 \in DOMAIN lines,
         NEW acc, HeadInv(lines, acc, k)
  PROVE  HeadInv(lines, AddHeading(lines, acc, k + 1), k + 1)
<1>1. /\ acc \in HeadStates /\ StartsIn(lines, acc.starts) /\ acc.starts \in Seq(StartRecords)
      /\ acc.fenced \in BOOLEAN /\ acc.trail \in Symbols
      /\ acc.fenced <=> InFence(lines, k + 1)
  BY DEF HeadInv, HeadStates
<1>2. \A n \in 1 .. Len(acc.starts) : acc.starts[n].at <= k /\ IsHead(lines, acc.starts[n].at)
  BY DEF HeadInv
<1>3. \A h \in 1 .. k : IsHead(lines, h) => \E n \in 1 .. Len(acc.starts) : acc.starts[n].at = h
  BY DEF HeadInv
<1>4. PICK new \in HeadStates : new = AddHeading(lines, acc, k + 1)
  BY <1>1, HeadTyped
<1>5. k + 1 + 1 = k + 2 /\ \A h \in 1 .. k + 1 : h \in 1 .. k \/ h = k + 1
  OBVIOUS
<1>6. ASSUME new.starts = acc.starts, new.fenced <=> InFence(lines, k + 2), ~IsHead(lines, k + 1)
      PROVE  HeadInv(lines, new, k + 1)
  <2>1. \A n \in 1 .. Len(acc.starts) : acc.starts[n].at <= k + 1
    <3>1. \A n \in 1 .. Len(acc.starts) : acc.starts[n].at \in Nat
      BY <1>1, StartTypes
    <3> QED  BY <1>2, <3>1
  <2>2. \A h \in 1 .. k + 1 : IsHead(lines, h) => \E n \in 1 .. Len(acc.starts) : acc.starts[n].at = h
    BY <1>3, <1>5, <1>6
  <2> QED  BY <1>1, <1>2, <1>4, <1>5, <1>6, <2>1, <2>2 DEF HeadInv
<1>7. CASE lines[k + 1].kind = "fence"
  <2>1. new = [acc EXCEPT !.fenced = ~acc.fenced]
    BY <1>4, <1>7 DEF AddHeading
  <2>2. new.starts = acc.starts /\ new.fenced = ~acc.fenced
    BY <1>1, <2>1 DEF HeadStates
  <2>3. ~IsHead(lines, k + 1)
    BY <1>7 DEF IsHead
  <2> QED  BY <1>1, <1>4, <1>6, <1>7, <2>2, <2>3, FencesAlternate
<1>8. CASE lines[k + 1].kind # "fence" /\ (acc.fenced \/ lines[k + 1].kind \notin {"h1", "h2"})
  <2>1. new = acc
    BY <1>4, <1>8 DEF AddHeading
  <2>2. ~IsHead(lines, k + 1)
    BY <1>1, <1>8 DEF IsHead
  <2> QED  BY <1>1, <1>4, <1>6, <1>8, <2>1, <2>2, FencesAlternate
<1>9. CASE lines[k + 1].kind # "fence" /\ ~acc.fenced /\ lines[k + 1].kind \in {"h1", "h2"}
  <2>1. PICK trail : trail = Append(SubSeq(acc.trail, 1, Min({Level(lines[k + 1].kind) - 1, Len(acc.trail)})), k + 1)
    OBVIOUS
  <2>2. PICK x : x = [at |-> k + 1, symbol |-> trail]
    OBVIOUS
  <2>3. new = [acc EXCEPT !.trail = trail, !.starts = Append(acc.starts, x)]
    BY <1>4, <1>9, <2>1, <2>2 DEF AddHeading
  <2>4. new.starts = Append(acc.starts, x) /\ new.fenced = acc.fenced /\ new.trail = trail
    BY <1>1, <2>3 DEF HeadStates
  <2>5. x \in StartRecords /\ x.at = k + 1
    <3>1. trail \in Symbols
      BY <1>4, <2>4 DEF HeadStates
    <3> QED  BY <2>2, <3>1 DEF StartRecords
  <2>6. \A n \in 1 .. Len(acc.starts) : acc.starts[n].at <= k
    BY <1>2
  <2>7. /\ StartsIn(lines, new.starts) /\ Len(new.starts) = Len(acc.starts) + 1
        /\ new.starts[Len(acc.starts) + 1] = x
        /\ \A n \in 1 .. Len(acc.starts) : new.starts[n] = acc.starts[n]
    BY <1>1, <2>4, <2>5, <2>6, OneMoreStart
  <2>14. PICK starts : starts = new.starts
    OBVIOUS
  <2>8. PICK l \in Nat : l = Len(acc.starts) /\ starts = new.starts
    BY <1>1, <2>14
  <2>9. Len(starts) = l + 1 /\ starts[l + 1].at = k + 1 /\ \A n \in 1 .. l : starts[n] = acc.starts[n]
    BY <2>5, <2>7, <2>8
  <2>10. IsHead(lines, k + 1)
    BY <1>1, <1>9 DEF IsHead
  <2>11. \A n \in 1 .. l + 1 : starts[n].at <= k + 1 /\ IsHead(lines, starts[n].at)
    <3>1. \A n \in 1 .. l : starts[n].at <= k + 1 /\ IsHead(lines, starts[n].at)
      <4>1. \A n \in 1 .. l : acc.starts[n].at \in Nat
        BY <1>1, <2>8, StartTypes
      <4>2. SUFFICES ASSUME NEW n \in 1 .. l
                     PROVE  starts[n].at <= k + 1 /\ IsHead(lines, starts[n].at)
        OBVIOUS
      <4>3. PICK at \in Nat : at = acc.starts[n].at /\ at = starts[n].at
        BY <2>9, <4>1
      <4>4. at <= k /\ IsHead(lines, at)
        BY <1>2, <2>8, <4>3
      <4> QED  BY <4>3, <4>4
    <3>2. \A n \in 1 .. l + 1 : n \in 1 .. l \/ n = l + 1
      OBVIOUS
    <3> QED  BY <2>9, <2>10, <3>1, <3>2
  <2>12. \A h \in 1 .. k + 1 : IsHead(lines, h) => \E n \in 1 .. l + 1 : starts[n].at = h
    <3>1. SUFFICES ASSUME NEW h \in 1 .. k + 1, IsHead(lines, h)
                   PROVE  \E n \in 1 .. l + 1 : starts[n].at = h
      OBVIOUS
    <3>2. CASE h \in 1 .. k
      <4>1. PICK n \in 1 .. l : acc.starts[n].at = h
        BY <1>3, <2>8, <3>1, <3>2
      <4>2. n \in 1 .. l + 1 /\ starts[n].at = h
        BY <2>9, <4>1
      <4> QED  BY <4>2
    <3>3. CASE h = k + 1
      BY <2>9, <3>3
    <3> QED  BY <1>5, <3>2, <3>3
  <2>13. new.fenced <=> InFence(lines, k + 2)
    BY <1>1, <1>9, <2>4, FencesAlternate
  <2> QED  BY <1>4, <1>5, <2>7, <2>8, <2>9, <2>11, <2>12, <2>13 DEF HeadInv
<1> QED  BY <1>1, <1>4, <1>7, <1>8, <1>9

(* The headings it found are all those outside of fences.                  *)
LEMMA HeadingsAreHeads ==
  ASSUME NEW lines \in Seq(SourceLines)
  PROVE  /\ StartsIn(lines, Headings(lines))
         /\ \A n \in 1 .. Len(Headings(lines)) : IsHead(lines, Headings(lines)[n].at)
         /\ \A h \in DOMAIN lines : IsHead(lines, h) => \E n \in 1 .. Len(Headings(lines)) : Headings(lines)[n].at = h
<1>. DEFINE s == Across(1, Len(lines))
            n == Len(lines)
            A == HeadStates
            base == [fenced |-> FALSE, trail |-> <<>>, starts |-> <<>>]
            Op(acc, k) == AddHeading(lines, acc, k)
            step == [p \in A \X (1 .. n) |-> Op(p[1], p[2])]
            g == CHOOSE iter : iter = [t \in SUBSET DOMAIN s |->
                   IF t = {} THEN base ELSE Op(iter[t \ {Max(t)}], s[Max(t)])]
            Good == {p \in (0 .. n) \X A : HeadInv(lines, p[2], p[1])}
<1>1. Headings(lines) = g[DOMAIN s].starts
  BY DEF Headings, FoldLeft, MapThenFoldSet
<1>2. /\ n \in Nat /\ s \in [1 .. n -> 1 .. n] /\ DOMAIN s = 1 .. n
      /\ \A k \in 0 .. n - 1 : s[k + 1] = k + 1
  <2>1. n \in Nat /\ 1 <= n + 1 /\ n - 1 + 1 = n
    OBVIOUS
  <2> QED  BY <2>1 DEF Across
<1>3. \A a \in A, k \in 1 .. n : Op(a, k) \in A /\ step[<<a, k>>] = Op(a, k)
  BY HeadTyped
<1>4. base \in A /\ step \in [A \X (1 .. n) -> A]
  <2>1. base \in A
    BY EmptySeq DEF HeadStates, Symbols
  <2> QED  BY <1>3, <2>1
<1>5. Foldable(A, 1 .. n, base, step, n, s)
  BY <1>2, <1>4 DEF Foldable
<1>. HIDE DEF s, n, A, base, Op, step
<1>6. PICK h : FoldTable(h, A, base, step, n, s)
  <2>. HIDE DEF g
  <2> QED  BY <1>5, FoldsExist
<1>7. h \in [SUBSET (1 .. n) -> A] /\ \A t \in SUBSET (1 .. n) : Folds(h, base, step, s, t)
  BY <1>6 DEF FoldTable
<1>8. \A t \in SUBSET (1 .. n) : t # {} => s[Max(t)] \in 1 .. n /\ h[t \ {Max(t)}] \in A
  BY <1>2, <1>7, MaxOfPart
<1>9. h = [t \in SUBSET (1 .. n) |-> IF t = {} THEN base ELSE Op(h[t \ {Max(t)}], s[Max(t)])]
  BY <1>3, <1>7, <1>8 DEF Folds
<1>10. g = [t \in SUBSET (1 .. n) |-> IF t = {} THEN base ELSE Op(g[t \ {Max(t)}], s[Max(t)])]
  BY <1>2, <1>9
<1>. HIDE DEF g
<1>11. Computes(g, A, base, step, n, s)
  BY <1>3, <1>8, <1>10 DEF Computes
<1>12. <<0, base>> \in Good
  <2>1. base.fenced = FALSE /\ base.starts = <<>>
    BY DEF base
  <2>2. Len(<<>>) = 0 /\ <<>> \in Seq(StartRecords)
    BY EmptySeq
  <2>3. StartsIn(lines, <<>>)
    BY <2>2 DEF StartsIn, Rising
  <2>4. ~InFence(lines, 0 + 1)
    BY FencesAlternate
  <2>5. HeadInv(lines, base, 0)
    BY <1>4, <2>1, <2>2, <2>3, <2>4 DEF HeadInv, A
  <2> QED  BY <1>2, <1>4, <2>5
<1>13. \A k \in 0 .. n - 1, a \in A : <<k, a>> \in Good => <<k + 1, step[<<a, s[k + 1]>>]>> \in Good
  <2>1. SUFFICES ASSUME NEW k \in 0 .. n - 1, NEW a \in A, HeadInv(lines, a, k)
                 PROVE  <<k + 1, step[<<a, s[k + 1]>>]>> \in Good
    OBVIOUS
  <2>2. k \in Nat /\ k + 1 \in 1 .. n /\ k + 1 \in 0 .. n
    BY <1>2
  <2>3. k + 1 \in DOMAIN lines
    BY <2>2 DEF n
  <2>4. HeadInv(lines, AddHeading(lines, a, k + 1), k + 1)
    BY <2>1, <2>2, <2>3, HeadStep
  <2>5. step[<<a, s[k + 1]>>] = AddHeading(lines, a, k + 1) /\ step[<<a, s[k + 1]>>] \in A
    BY <1>2, <1>3, <2>2 DEF Op
  <2> QED  BY <2>2, <2>4, <2>5
<1>14. g[1 .. n] \in A /\ <<n, g[1 .. n]>> \in Good
  <2>. HIDE DEF Good
  <2> QED  BY <1>5, <1>11, <1>12, <1>13, FoldKeeps
<1>15. PICK end : end = g[1 .. n] /\ HeadInv(lines, end, Len(lines)) /\ Headings(lines) = end.starts
  BY <1>1, <1>2, <1>14 DEF n
<1>16. DOMAIN lines = 1 .. Len(lines)
  OBVIOUS
<1> QED  BY <1>15, <1>16 DEF HeadInv

-----------------------------------------------------------------------------
(* Titles with a line under them.                                          *)
TitleInv(lines, starts, k) ==
  StartsIn(lines, starts) /\ \A n \in 1 .. Len(starts) : starts[n].at <= k

LEMMA TitleTyped ==
  ASSUME NEW lines, NEW starts \in Seq(StartRecords), NEW k \in Nat
  PROVE  AddTitle(lines, starts, k) \in Seq(StartRecords)
<1>1. <<k>> \in Symbols
  BY DEF Symbols
<1>2. PICK x \in StartRecords : x = [at |-> k, symbol |-> <<k>>]
  <2>1. [at |-> k, symbol |-> <<k>>] \in StartRecords
    BY <1>1 DEF StartRecords
  <2> QED  BY <2>1
<1>3. Append(starts, x) \in Seq(StartRecords)
  OBVIOUS
<1> QED  BY <1>2, <1>3 DEF AddTitle

LEMMA TitleStep ==
  ASSUME NEW lines \in Seq(SourceLines), NEW k \in Nat, k + 1 \in DOMAIN lines,
         NEW starts, TitleInv(lines, starts, k)
  PROVE  TitleInv(lines, AddTitle(lines, starts, k + 1), k + 1)
<1>1. StartsIn(lines, starts) /\ starts \in Seq(StartRecords) /\ \A n \in 1 .. Len(starts) : starts[n].at <= k
  BY DEF TitleInv, StartsIn
<1>2. \A n \in 1 .. Len(starts) : starts[n].at \in Nat /\ starts[n].at <= k + 1
  <2>1. \A n \in 1 .. Len(starts) : starts[n].at \in Nat
    BY <1>1, StartTypes
  <2> QED  BY <1>1, <2>1
<1>3. PICK x \in StartRecords : x = [at |-> k + 1, symbol |-> <<k + 1>>] /\ x.at = k + 1
  <2>1. <<k + 1>> \in Symbols
    BY DEF Symbols
  <2>2. [at |-> k + 1, symbol |-> <<k + 1>>] \in StartRecords
    BY <2>1 DEF StartRecords
  <2> QED  BY <2>2
<1>4. PICK l \in Nat : l = Len(starts)
  BY <1>1
<1>9. PICK new : new = Append(starts, x)
  OBVIOUS
<1>5. /\ StartsIn(lines, new) /\ Len(new) = l + 1 /\ new[l + 1] = x
      /\ \A n \in 1 .. l : new[n] = starts[n]
  BY <1>1, <1>3, <1>4, <1>9, OneMoreStart
<1>6. \A n \in 1 .. l + 1 : new[n].at <= k + 1
  <2>1. \A n \in 1 .. l + 1 : n \in 1 .. l \/ n = l + 1
    OBVIOUS
  <2>2. \A n \in 1 .. l : new[n].at <= k + 1
    BY <1>2, <1>4, <1>5
  <2>3. new[l + 1].at <= k + 1
    BY <1>3, <1>5
  <2> QED  BY <2>1, <2>2, <2>3
<1>7. TitleInv(lines, new, k + 1) /\ TitleInv(lines, starts, k + 1)
  BY <1>1, <1>2, <1>4, <1>5, <1>6 DEF TitleInv
<1> QED  BY <1>3, <1>7, <1>9 DEF AddTitle

(* chunk_rst finds its titles in order.                                    *)
LEMMA UnderlinedStarts ==
  ASSUME NEW lines \in Seq(SourceLines)
  PROVE  StartsIn(lines, Underlined(lines))
<1>. DEFINE s == Across(1, Len(lines))
            n == Len(lines)
            A == Seq(StartRecords)
            base == <<>>
            Op(starts, k) == AddTitle(lines, starts, k)
            step == [p \in A \X (1 .. n) |-> Op(p[1], p[2])]
            g == CHOOSE iter : iter = [t \in SUBSET DOMAIN s |->
                   IF t = {} THEN base ELSE Op(iter[t \ {Max(t)}], s[Max(t)])]
            Good == {p \in (0 .. n) \X A : TitleInv(lines, p[2], p[1])}
<1>1. Underlined(lines) = g[DOMAIN s]
  BY DEF Underlined, FoldLeft, MapThenFoldSet
<1>2. /\ n \in Nat /\ s \in [1 .. n -> 1 .. n] /\ DOMAIN s = 1 .. n
      /\ \A k \in 0 .. n - 1 : s[k + 1] = k + 1
  <2>1. n \in Nat /\ 1 <= n + 1 /\ n - 1 + 1 = n
    OBVIOUS
  <2> QED  BY <2>1 DEF Across
<1>3. \A a \in A, k \in 1 .. n : Op(a, k) \in A /\ step[<<a, k>>] = Op(a, k)
  BY TitleTyped
<1>4. base \in A /\ step \in [A \X (1 .. n) -> A]
  <2>1. base \in A
    BY EmptySeq
  <2> QED  BY <1>3, <2>1
<1>5. Foldable(A, 1 .. n, base, step, n, s)
  BY <1>2, <1>4 DEF Foldable
<1>. HIDE DEF s, n, A, base, Op, step
<1>6. PICK h : FoldTable(h, A, base, step, n, s)
  <2>. HIDE DEF g
  <2> QED  BY <1>5, FoldsExist
<1>7. h \in [SUBSET (1 .. n) -> A] /\ \A t \in SUBSET (1 .. n) : Folds(h, base, step, s, t)
  BY <1>6 DEF FoldTable
<1>8. \A t \in SUBSET (1 .. n) : t # {} => s[Max(t)] \in 1 .. n /\ h[t \ {Max(t)}] \in A
  BY <1>2, <1>7, MaxOfPart
<1>9. h = [t \in SUBSET (1 .. n) |-> IF t = {} THEN base ELSE Op(h[t \ {Max(t)}], s[Max(t)])]
  BY <1>3, <1>7, <1>8 DEF Folds
<1>10. g = [t \in SUBSET (1 .. n) |-> IF t = {} THEN base ELSE Op(g[t \ {Max(t)}], s[Max(t)])]
  BY <1>2, <1>9
<1>. HIDE DEF g
<1>11. Computes(g, A, base, step, n, s)
  BY <1>3, <1>8, <1>10 DEF Computes
<1>12. <<0, base>> \in Good
  <2>1. base = <<>> /\ Len(<<>>) = 0 /\ <<>> \in Seq(StartRecords)
    BY EmptySeq DEF base
  <2>2. TitleInv(lines, base, 0)
    BY <2>1 DEF TitleInv, StartsIn, Rising
  <2> QED  BY <1>2, <1>4, <2>2
<1>13. \A k \in 0 .. n - 1, a \in A : <<k, a>> \in Good => <<k + 1, step[<<a, s[k + 1]>>]>> \in Good
  <2>1. SUFFICES ASSUME NEW k \in 0 .. n - 1, NEW a \in A, TitleInv(lines, a, k)
                 PROVE  <<k + 1, step[<<a, s[k + 1]>>]>> \in Good
    OBVIOUS
  <2>2. k \in Nat /\ k + 1 \in 1 .. n /\ k + 1 \in 0 .. n
    BY <1>2
  <2>3. k + 1 \in DOMAIN lines
    BY <2>2 DEF n
  <2>4. TitleInv(lines, AddTitle(lines, a, k + 1), k + 1)
    BY <2>1, <2>2, <2>3, TitleStep
  <2>5. step[<<a, s[k + 1]>>] = AddTitle(lines, a, k + 1) /\ step[<<a, s[k + 1]>>] \in A
    BY <1>2, <1>3, <2>2 DEF Op
  <2> QED  BY <2>2, <2>4, <2>5
<1>14. g[1 .. n] \in A /\ <<n, g[1 .. n]>> \in Good
  <2>. HIDE DEF Good
  <2> QED  BY <1>5, <1>11, <1>12, <1>13, FoldKeeps
<1> QED  BY <1>1, <1>2, <1>14 DEF TitleInv

-----------------------------------------------------------------------------
(* A Markdown chunk that begins inside of an example.                      *)
(* In order each to the next means in order each to all.                   *)
LEMMA RisingAll ==
  ASSUME NEW starts \in Seq(StartRecords), Rising(starts)
  PROVE  \A r \in 1 .. Len(starts), q \in 1 .. Len(starts) : r < q => starts[r].at < starts[q].at
<1>1. PICK l \in Nat : l = Len(starts)
  OBVIOUS
<1>2. \A n \in 1 .. l : starts[n].at \in Nat
  BY <1>1, StartTypes
<1>3. \A n \in 1 .. l - 1 : starts[n].at < starts[n + 1].at
  BY <1>1 DEF Rising
<1>. DEFINE D == {q \in Nat : q \in 1 .. l => \A r \in 1 .. l : r < q => starts[r].at < starts[q].at}
<1>4. 0 \in D
  OBVIOUS
<1>5. ASSUME NEW q \in D
      PROVE  q + 1 \in D
  <2>. q \in Nat /\ q + 1 \in Nat
    OBVIOUS
  <2>1. SUFFICES ASSUME q + 1 \in 1 .. l, NEW r \in 1 .. l, r < q + 1
                 PROVE  starts[r].at < starts[q + 1].at
    OBVIOUS
  <2>2. q \in 1 .. l /\ q \in 1 .. l - 1 /\ (r < q \/ r = q)
    BY <2>1
  <2>3. r < q => starts[r].at < starts[q].at
    BY <2>2
  <2>4. starts[q].at < starts[q + 1].at
    BY <1>3, <2>2
  <2>5. PICK a \in Nat, b \in Nat, c \in Nat : a = starts[r].at /\ b = starts[q].at /\ c = starts[q + 1].at
    BY <1>2, <2>1, <2>2
  <2> QED  BY ONLY <2>2, <2>3, <2>4, <2>5, a \in Nat, b \in Nat, c \in Nat
<1>6. D = Nat
  <2> HIDE DEF D
  <2>1. D \in SUBSET Nat
    BY DEF D
  <2> QED  BY <1>4, <1>5, <2>1, SetInduction
<1>7. \A q \in 1 .. l : q \in D
  BY <1>6
<1> QED  BY <1>1, <1>7

LEMMA ExamplesAreCutWhereTooLong ==
  ASSUME NEW lines \in Seq(SourceLines), lines # <<>>,
         NEW n \in 1 .. Len(Sections(lines, Headings(lines))),
         InFence(lines, Sections(lines, Headings(lines))[n].from)
  PROVE  SectionTooLong(lines, Sections(lines, Headings(lines))[n].from)
<1>1. PICK starts : starts = Headings(lines)
  OBVIOUS
<1>2. /\ StartsIn(lines, starts)
      /\ \A m \in 1 .. Len(starts) : IsHead(lines, starts[m].at)
      /\ \A h \in DOMAIN lines : IsHead(lines, h) => \E m \in 1 .. Len(starts) : starts[m].at = h
  BY <1>1, HeadingsAreHeads
<1>22. StartsIn(lines, starts)
  BY <1>2
<1>23. \A m \in 1 .. Len(WithFirst(starts)) :
         WithFirst(starts)[m].at = 1 \/ \E r \in 1 .. Len(starts) : WithFirst(starts)[m].at = starts[r].at
  BY <1>22, FirstIsThere
<1>24. \A r \in 1 .. Len(starts) : \E m \in 1 .. Len(WithFirst(starts)) : WithFirst(starts)[m].at = starts[r].at
  BY <1>22, FirstIsThere
<1>3. PICK all : all = WithFirst(starts)
  OBVIOUS
<1>4. PICK l \in Nat : l = Len(all) /\ l > 0 /\ all[1].at = 1 /\ all \in Seq(StartRecords) /\ StartsIn(lines, all)
  <2>1. StartsIn(lines, all) /\ Len(all) > 0 /\ all[1].at = 1
    BY <1>22, <1>3, FirstIsThere
  <2>2. all \in Seq(StartRecords)
    BY <2>1 DEF StartsIn
  <2> QED  BY <2>1, <2>2
<1>5. \A m \in 1 .. l : all[m].at = 1 \/ IsHead(lines, all[m].at)
  <2>1. \A m \in 1 .. l : all[m].at = 1 \/ \E r \in 1 .. Len(starts) : all[m].at = starts[r].at
    BY <1>3, <1>4, <1>23
  <2> QED  BY <1>2, <2>1
<1>6. \A h \in DOMAIN lines : IsHead(lines, h) => \E m \in 1 .. l : all[m].at = h
  <2>1. \A r \in 1 .. Len(starts) : \E m \in 1 .. l : all[m].at = starts[r].at
    BY <1>3, <1>4, <1>24
  <2> QED  BY <1>2, <2>1
<1>7. /\ \A m \in 1 .. l : all[m].at \in DOMAIN lines /\ all[m].at \in Nat /\ all[m].at >= 1
      /\ \A r \in 1 .. l, m \in 1 .. l : r < m => all[r].at < all[m].at
  <2>1. \A m \in 1 .. l : all[m].at \in DOMAIN lines
    BY <1>4 DEF StartsIn
  <2>2. \A r \in 1 .. l, m \in 1 .. l : r < m => all[r].at < all[m].at
    BY <1>4, RisingAll DEF StartsIn
  <2>3. \A h \in DOMAIN lines : h \in Nat /\ h >= 1
    OBVIOUS
  <2> QED  BY <2>1, <2>2, <2>3
<1>8. PICK x : x = Sections(lines, starts)[n].from
  OBVIOUS
<1>9. PICK q \in 1 .. l : BeginsWell(lines, all, q, x)
  BY <1>1, <1>2, <1>3, <1>4, <1>8, SectionsTile
<1>21. PICK tail : tail = EndOfSection(lines, all, q)
  OBVIOUS
<1>10. PICK first \in Nat : first = all[q].at /\ tail = EndOfSection(lines, all, q)
  BY <1>7, <1>21
<1>11. first <= x /\ x <= tail /\ (x = first \/ TextLength(lines, first, tail) > MAX_CHARS)
  BY <1>9, <1>10 DEF BeginsWell
<1>12. ~InFence(lines, first)
  <2>1. ~InFence(lines, 1)
    <3>1. 0 \in Nat
      OBVIOUS
    <3> QED  BY <3>1, FencesAlternate
  <2> QED  BY <1>5, <1>10, <2>1 DEF IsHead
<1>13. TextLength(lines, first, tail) > MAX_CHARS
  BY <1>1, <1>8, <1>11, <1>12
<1>14. x \in Nat
  <2>1. Tiles(lines, Sections(lines, starts), 1, Len(lines))
    BY <1>2, SectionsTile
  <2>2. Sections(lines, starts) \in Seq(ChunkRecords)
    BY <2>1 DEF Tiles
  <2> QED  BY <1>1, <1>8, <2>2, RecordTypes
<1>. DEFINE heads == {h \in DOMAIN lines : lines[h].kind \in {"h1", "h2"} /\ ~InFence(lines, h)}
            above == {1} \cup {h \in heads : h <= x}
            below == {Len(lines)} \cup {h - 1 : h \in {m \in heads : m > x}}
<1>15. \A h \in DOMAIN lines : h \in Nat /\ h >= 1 /\ h <= Len(lines) /\ (h \in heads <=> IsHead(lines, h))
  BY DEF IsHead
<1>16. heads \subseteq DOMAIN lines
  OBVIOUS
<1>. HIDE DEF heads
<1>17. \A h \in heads : \E m \in 1 .. l : all[m].at = h
  BY <1>6, <1>15, <1>16
<1>18. Max(above) = first
  <2>1. above \in SUBSET Nat
    BY <1>15, <1>16
  <2>2. first \in above
    <3>1. first = 1 \/ IsHead(lines, first)
      BY <1>5, <1>10
    <3>2. first \in DOMAIN lines
      BY <1>7, <1>10
    <3> QED  BY <1>11, <1>15, <3>1, <3>2
  <2>3. ASSUME NEW h \in heads, h <= x
        PROVE  h <= first
    <3>1. PICK m \in 1 .. l : all[m].at = h
      BY <1>17
    <3>2. CASE m < q
      BY <1>7, <1>10, <3>1, <3>2
    <3>3. CASE m = q
      BY <1>10, <3>1, <3>3
    <3>4. CASE m > q
      <4>1. q + 1 \in 1 .. l /\ q < l /\ (m = q + 1 \/ q + 1 < m)
        BY <3>4
      <4>2. all[q + 1].at <= h
        BY <1>7, <3>1, <4>1
      <4>3. tail = all[q + 1].at - 1
        BY <1>4, <1>10, <4>1 DEF EndOfSection
      <4>4. all[q + 1].at \in Nat /\ h \in Nat
        BY <1>7, <1>15, <1>16, <4>1
      <4> QED  BY <1>11, <1>14, <2>3, <4>2, <4>3, <4>4
    <3> QED  BY <3>2, <3>3, <3>4
  <2>4. \A h \in above : h <= first
    <3>1. 1 <= first
      BY <1>7, <1>10
    <3> QED  BY <2>3, <3>1
  <2>. HIDE DEF above
  <2> QED  BY <2>1, <2>2, <2>4, GreatestIsMax
<1>19. Min(below) = tail
  <2>1. below \in SUBSET Nat
    <3>1. \A h \in heads : h - 1 \in Nat
      BY <1>15, <1>16
    <3> QED  BY <3>1
  <2>2. ASSUME NEW h \in heads, h > x
        PROVE  q < l /\ all[q + 1].at <= h
    <3>1. PICK m \in 1 .. l : all[m].at = h
      BY <1>17
    <3>2. h \in Nat /\ x \in Nat
      BY <1>14, <1>15, <1>16
    <3>3. ~(m < q) /\ m # q
      BY <1>7, <1>10, <1>11, <2>2, <3>1, <3>2
    <3>4. q + 1 \in 1 .. l /\ q < l /\ (m = q + 1 \/ q + 1 < m)
      BY <3>3
    <3> QED  BY <1>7, <3>1, <3>4
  <2>3. CASE q < l
    <3>1. q + 1 \in 1 .. l
      BY <2>3
    <3>2. PICK next \in Nat : next = all[q + 1].at /\ next \in DOMAIN lines /\ next <= Len(lines)
      BY <1>7, <1>15, <3>1
    <3>3. tail = next - 1
      BY <1>4, <1>10, <2>3, <3>2 DEF EndOfSection
    <3>4. next > x
      BY <1>11, <1>14, <3>3
    <3>5. next \in heads
      <4>1. all[q].at < all[q + 1].at /\ all[q].at >= 1 /\ all[q].at \in Nat
        BY <1>7, <3>1
      <4>2. next # 1
        BY <3>2, <4>1
      <4> QED  BY <1>5, <1>15, <3>1, <3>2, <4>2
    <3>6. tail \in below
      BY <3>3, <3>4, <3>5
    <3>7. \A m \in below : tail <= m
      <4>1. \A h \in heads : h > x => tail <= h - 1
        BY <1>15, <1>16, <2>2, <3>2, <3>3
      <4>2. tail <= Len(lines)
        BY <3>2, <3>3
      <4> QED  BY <4>1, <4>2
    <3>. HIDE DEF below
    <3> QED  BY <2>1, <3>6, <3>7, LeastIsMin
  <2>4. CASE ~(q < l)
    <3>1. tail = Len(lines)
      BY <1>4, <1>10, <2>4 DEF EndOfSection
    <3>2. below = {tail}
      BY <2>2, <2>4, <3>1
    <3>3. tail \in below /\ \A m \in below : tail <= m
      BY <3>1, <3>2
    <3>. HIDE DEF below
    <3> QED  BY <2>1, <3>3, LeastIsMin
  <2> QED  BY <2>3, <2>4
<1>20. SectionTooLong(lines, x)
  BY <1>13, <1>18, <1>19 DEF SectionTooLong, heads
<1> QED  BY <1>1, <1>8, <1>20

-----------------------------------------------------------------------------
(* Python: where a definition begins and where it ends.                    *)
CommentFloor(lines, d, floor) ==
  {d} \cup {k \in floor .. d - 1 : \A n \in k .. d - 1 : lines[n].kind \in {"note", "blank"}}

(* The comments above line d begin at r.                                   *)
BeginsAt(lines, d, floor, r) ==
  /\ r \in 1 .. d /\ (floor <= d => floor <= r)
  /\ \A n \in r .. d - 1 : lines[n].kind \in {"note", "blank"}
  /\ r = d \/ lines[r].kind # "blank"
  /\ \A k \in floor .. d - 1 :
       lines[k].kind = "note" /\ (\A n \in k .. d - 1 : lines[n].kind \in {"note", "blank"}) => r <= k

(* _leading_comment_start, at its floor or above it.                       *)
LEMMA CommentsStart ==
  ASSUME NEW lines \in Seq(SourceLines), NEW d \in DOMAIN lines, NEW floor \in Nat, floor >= 1,
         NEW r, r = LeadingCommentStart(lines, d, floor)
  PROVE  BeginsAt(lines, d, floor, r)
<1>1. d \in Nat /\ d >= 1
  OBVIOUS
<1>2. PICK back : back = Min(CommentFloor(lines, d, floor))
  OBVIOUS
<1>3. PICK S : S = CommentFloor(lines, d, floor)
  OBVIOUS
<1>4. S \in SUBSET Nat /\ d \in S /\ \A k \in S : k \in 1 .. d /\ (floor <= d => floor <= k)
  BY <1>1, <1>3 DEF CommentFloor
<1>5. back \in S /\ \A k \in S : back <= k
  BY <1>2, <1>3, <1>4, MinIsLeast
<1>6. back \in 1 .. d /\ (floor <= d => floor <= back)
  BY <1>4, <1>5
<1>7. \A n \in back .. d - 1 : lines[n].kind \in {"note", "blank"}
  BY <1>1, <1>3, <1>5 DEF CommentFloor
<1>8. PICK T : T = {k \in back .. d : k = d \/ lines[k].kind # "blank"}
  OBVIOUS
<1>9. r = Min(T)
  BY <1>2, <1>8 DEF LeadingCommentStart, CommentFloor
<1>10. T \in SUBSET Nat /\ d \in T
  BY <1>1, <1>6, <1>8
<1>11. r \in T /\ \A k \in T : r <= k
  BY <1>9, <1>10, MinIsLeast
<1>12. r \in back .. d /\ (r = d \/ lines[r].kind # "blank")
  BY <1>8, <1>11
<1>13. \A k \in floor .. d - 1 :
         lines[k].kind = "note" /\ (\A n \in k .. d - 1 : lines[n].kind \in {"note", "blank"}) => r <= k
  <2>1. SUFFICES ASSUME NEW k \in floor .. d - 1, lines[k].kind = "note",
                        \A n \in k .. d - 1 : lines[n].kind \in {"note", "blank"}
                 PROVE  r <= k
    OBVIOUS
  <2>2. k \in S
    BY <1>3, <2>1 DEF CommentFloor
  <2>3. k \in back .. d
    BY <1>1, <1>5, <1>6, <2>2
  <2>4. k \in T
    BY <1>8, <2>1, <2>3
  <2> QED  BY <1>11, <2>4
<1>14. r \in 1 .. d /\ (floor <= d => floor <= r)
  BY <1>1, <1>6, <1>12
<1>15. \A n \in r .. d - 1 : lines[n].kind \in {"note", "blank"}
  BY <1>1, <1>6, <1>7, <1>12
<1> QED  BY <1>12, <1>13, <1>14, <1>15 DEF BeginsAt

(* The last line of a body is the farthest that is still inside.           *)
LEMMA EndsInside ==
  ASSUME NEW lines \in Seq(SourceLines), NEW i \in DOMAIN lines, lines[i].kind \notin {"note", "blank"},
         NEW e, e = EndsAt(lines, i)
  PROVE  /\ e \in i .. Len(lines) /\ e \in DOMAIN lines /\ lines[e].kind \notin {"note", "blank"}
         /\ \A k \in i + 1 .. e : lines[k].kind \in Inside(lines[i].kind)
         /\ \A j \in i .. Len(lines) :
              (\A k \in i + 1 .. j : lines[k].kind \in Inside(lines[i].kind))
                /\ lines[j].kind \notin {"note", "blank"} => j <= e
<1>1. i \in Nat /\ i >= 1 /\ i <= Len(lines) /\ Len(lines) \in Nat /\ DOMAIN lines = 1 .. Len(lines)
  OBVIOUS
<1>2. PICK S : S = {j \in i .. Len(lines) :
                      /\ \A k \in i + 1 .. j : lines[k].kind \in Inside(lines[i].kind)
                      /\ lines[j].kind \notin {"note", "blank"}}
  OBVIOUS
<1>3. S \in SUBSET Nat /\ S \subseteq i .. Len(lines)
  BY <1>1, <1>2
<1>4. i \in S
  <2>1. \A k \in i + 1 .. i : FALSE
    BY <1>1
  <2> QED  BY <1>1, <1>2, <2>1
<1>5. IsFiniteSet(S)
  <2>1. IsFiniteSet(i .. Len(lines))
    BY <1>1, FS_Interval
  <2> QED  BY <1>3, <2>1, FS_Subset
<1>6. e = Max(S)
  BY <1>2 DEF EndsAt
<1>7. e \in S /\ \A j \in S : j <= e
  BY <1>3, <1>4, <1>5, <1>6, MaxIsGreatest
<1>8. e \in i .. Len(lines) /\ lines[e].kind \notin {"note", "blank"} /\ \A k \in i + 1 .. e : lines[k].kind \in Inside(lines[i].kind)
  BY <1>2, <1>7
<1>9. \A j \in i .. Len(lines) :
        (\A k \in i + 1 .. j : lines[k].kind \in Inside(lines[i].kind)) /\ lines[j].kind \notin {"note", "blank"} => j <= e
  BY <1>2, <1>7
<1> QED  BY <1>1, <1>8, <1>9

(* The first of its decorators, or itself.                                 *)
LEMMA DecoratorsBelong ==
  ASSUME NEW lines \in Seq(SourceLines), NEW i \in DOMAIN lines, NEW d, d = DeclaredAt(lines, i)
  PROVE  d \in 1 .. i /\ d \in DOMAIN lines /\ \A n \in d .. i - 1 : lines[n].kind = "deco"
<1>1. i \in Nat /\ i >= 1 /\ DOMAIN lines = 1 .. Len(lines) /\ i <= Len(lines)
  OBVIOUS
<1>2. PICK S : S = {k \in 1 .. i : \A n \in k .. i - 1 : lines[n].kind = "deco"}
  OBVIOUS
<1>3. S \in SUBSET Nat /\ i \in S
  BY <1>1, <1>2
<1>4. d \in S
  <2>1. d = Min(S)
    BY <1>2 DEF DeclaredAt
  <2> QED  BY <1>3, <2>1, MinIsLeast
<1>5. d \in 1 .. i /\ \A n \in d .. i - 1 : lines[n].kind = "deco"
  BY <1>2, <1>4
<1> QED  BY <1>1, <1>5

-----------------------------------------------------------------------------
(* Python: the numbers of ast.  They grow with the lines, and never run    *)
(* ahead of them.                                                          *)
LEMMA NumbersGrow ==
  ASSUME NEW lines \in Seq(SourceLines), NEW k \in DOMAIN lines
  PROVE  /\ AstLine(lines, k) \in 1 .. k /\ AstLine(lines, k) \in DOMAIN lines
         /\ \A j \in 1 .. k : AstLine(lines, j) <= AstLine(lines, k)
         /\ (\A n \in 1 .. k - 1 : ~lines[n].glued) => AstLine(lines, k) = k
<1>1. k \in Nat /\ k >= 1 /\ k <= Len(lines) /\ Len(lines) \in Nat /\ DOMAIN lines = 1 .. Len(lines)
  OBVIOUS
<1>. DEFINE Ended(j) == {n \in 1 .. j - 1 : ~lines[n].glued}
<1>2. \A j \in 1 .. k : Ended(j) \subseteq 1 .. j - 1 /\ Ended(j) \subseteq Ended(k)
  BY <1>1
<1>3. \A j : AstLine(lines, j) = 1 + Cardinality(Ended(j))
  BY DEF AstLine
<1>4. (\A n \in 1 .. k - 1 : ~lines[n].glued) => Ended(k) = 1 .. k - 1
  OBVIOUS
<1>. HIDE DEF Ended
<1>5. PICK m \in Nat : m = k - 1 /\ m + 1 = k
  BY <1>1
<1>6. IsFiniteSet(1 .. m) /\ Cardinality(1 .. m) = m
  BY <1>5, FS_Interval
<1>7. k \in 1 .. k
  BY <1>1
<1>8. IsFiniteSet(Ended(k)) /\ Cardinality(Ended(k)) <= m
  BY <1>2, <1>5, <1>6, <1>7, FS_Subset
<1>9. Cardinality(Ended(k)) \in Nat
  BY <1>8, FS_CardinalityType
<1>10. \A j \in 1 .. k : Cardinality(Ended(j)) <= Cardinality(Ended(k)) /\ Cardinality(Ended(j)) \in Nat
  BY <1>2, <1>8, FS_Subset, FS_CardinalityType
<1>11. 1 + Cardinality(Ended(k)) \in 1 .. k
  BY <1>5, <1>8, <1>9
<1>12. \A j \in 1 .. k : 1 + Cardinality(Ended(j)) <= 1 + Cardinality(Ended(k))
  BY <1>9, <1>10
<1>13. (\A n \in 1 .. k - 1 : ~lines[n].glued) => 1 + Cardinality(Ended(k)) = k
  BY <1>4, <1>5, <1>6
<1>14. \A x \in 1 .. k : x \in DOMAIN lines
  BY <1>1
<1> QED  BY <1>3, <1>11, <1>12, <1>13, <1>14

(* A line of a body and one that begins something are two lines of ast.    *)
LEMMA NumbersApart ==
  ASSUME NEW lines \in Seq(SourceLines), Readable(lines),
         NEW e \in DOMAIN lines, NEW d \in DOMAIN lines, e < d,
         lines[e].kind \notin {"note", "blank"}, lines[d].kind \in {"def", "class", "meth", "deco"}
  PROVE  AstLine(lines, e) < AstLine(lines, d)
<1>1. ~MayShare(lines[e].kind, lines[d].kind)
  BY DEF MayShare
<1>2. AstLine(lines, e) # AstLine(lines, d)
  BY <1>1 DEF Readable
<1>3. e \in 1 .. d
  OBVIOUS
<1>4. AstLine(lines, e) <= AstLine(lines, d)
  BY <1>3, NumbersGrow
<1>5. AstLine(lines, e) \in 1 .. e /\ AstLine(lines, d) \in 1 .. d
  BY NumbersGrow
<1> QED  BY <1>2, <1>4, <1>5

(* The numbers of a definition.                                            *)
LEMMA DefinitionNumbers ==
  ASSUME NEW lines \in Seq(SourceLines), NEW i \in DOMAIN lines, lines[i].kind \notin {"note", "blank"}
  PROVE  /\ DeclarationLine(lines, i) \in DOMAIN lines /\ DeclarationLine(lines, i) \in 1 .. i
         /\ DeclarationLine(lines, i) <= AstLine(lines, i)
         /\ EndOf(lines, i) \in DOMAIN lines /\ AstLine(lines, i) <= EndOf(lines, i)
<1>1. i \in Nat /\ DOMAIN lines = 1 .. Len(lines) /\ Len(lines) \in Nat
  OBVIOUS
<1>2. PICK d : d = DeclaredAt(lines, i) /\ d \in 1 .. i /\ d \in DOMAIN lines
  BY DecoratorsBelong
<1>3. PICK e : e = EndsAt(lines, i) /\ e \in i .. Len(lines) /\ e \in DOMAIN lines
  BY EndsInside
<1>4. AstLine(lines, d) \in 1 .. d /\ AstLine(lines, d) \in DOMAIN lines
  BY <1>2, NumbersGrow
<1>5. AstLine(lines, d) <= AstLine(lines, i)
  BY <1>2, NumbersGrow
<1>6. i \in 1 .. e
  BY <1>1, <1>3
<1>7. AstLine(lines, e) \in DOMAIN lines /\ AstLine(lines, i) <= AstLine(lines, e)
  BY <1>3, <1>6, NumbersGrow
<1>8. DeclarationLine(lines, i) = AstLine(lines, d) /\ EndOf(lines, i) = AstLine(lines, e)
  BY <1>2, <1>3 DEF DeclarationLine, EndOf
<1>9. AstLine(lines, d) \in 1 .. i
  BY <1>1, <1>2, <1>4
<1> QED  BY <1>4, <1>5, <1>7, <1>8, <1>9

(* Where nothing is glued up to its end they are the lines themselves.     *)
LEMMA UnshiftedNumbers ==
  ASSUME NEW lines \in Seq(SourceLines), NEW i \in DOMAIN lines, lines[i].kind \notin {"note", "blank"},
         Unshifted(lines, i)
  PROVE  /\ DeclarationLine(lines, i) = DeclaredAt(lines, i) /\ EndOf(lines, i) = EndsAt(lines, i)
         /\ \A j \in 1 .. i : AstLine(lines, j) = j
<1>1. i \in Nat /\ DOMAIN lines = 1 .. Len(lines) /\ Len(lines) \in Nat
  OBVIOUS
<1>2. PICK d : d = DeclaredAt(lines, i) /\ d \in 1 .. i /\ d \in DOMAIN lines
  BY DecoratorsBelong
<1>3. PICK e : e = EndsAt(lines, i) /\ e \in i .. Len(lines) /\ e \in DOMAIN lines
  BY EndsInside
<1>4. \A n \in 1 .. e - 1 : ~lines[n].glued
  BY <1>3 DEF Unshifted
<1>5. ASSUME NEW j \in 1 .. e
      PROVE  AstLine(lines, j) = j
  <2>1. j \in DOMAIN lines
    BY <1>1, <1>3
  <2>2. \A n \in 1 .. j - 1 : n \in 1 .. e - 1
    BY <1>1, <1>3
  <2>3. \A n \in 1 .. j - 1 : ~lines[n].glued
    BY <1>4, <2>2
  <2> QED  BY <2>1, <2>3, NumbersGrow
<1>6. d \in 1 .. e /\ e \in 1 .. e /\ \A j \in 1 .. i : j \in 1 .. e
  BY <1>1, <1>2, <1>3
<1> QED  BY <1>2, <1>3, <1>5, <1>6 DEF DeclarationLine, EndOf

CutStates(lines) == [chunks : Seq(ChunkRecords), cursor : 1 .. Len(lines) + 1]

(* What stands between the cursor and the next thing, cut.                 *)
LEMMA UpToTiles ==
  ASSUME NEW lines \in Seq(SourceLines), NEW acc \in CutStates(lines), NEW symbol \in Symbols,
         NEW j \in Nat, j <= Len(lines)
  PROVE  /\ UpTo(lines, acc, j, symbol) \in Seq(ChunkRecords)
         /\ \A i \in Nat : Tiles(lines, acc.chunks, i, acc.cursor - 1) /\ i <= acc.cursor /\ acc.cursor <= j + 1
              => Tiles(lines, UpTo(lines, acc, j, symbol), i, j)
<1>1. acc.chunks \in Seq(ChunkRecords) /\ acc.cursor \in 1 .. Len(lines) + 1
  BY DEF CutStates
<1>2. acc.cursor \in Nat /\ acc.cursor >= 1
  BY <1>1
<1>3. PICK m \in Nat : m = acc.cursor - 1 /\ m + 1 = acc.cursor
  BY <1>2
<1>4. PICK b : b = Sized(lines, acc.cursor, j, symbol)
  OBVIOUS
<1>5. Tiles(lines, b, m + 1, j)
  BY <1>2, <1>3, <1>4, SizedTiles
<1>6. b \in Seq(ChunkRecords) /\ UpTo(lines, acc, j, symbol) = acc.chunks \o b
  BY <1>4, <1>5 DEF Tiles, UpTo
<1>7. acc.chunks \o b \in Seq(ChunkRecords)
  BY <1>1, <1>6
<1>8. ASSUME NEW i \in Nat, Tiles(lines, acc.chunks, i, m), i <= m + 1, m + 1 <= j + 1
      PROVE  Tiles(lines, acc.chunks \o b, i, j)
  <2>1. m <= j
    BY <1>8
  <2> QED  BY <1>5, <1>8, <2>1, TilesJoin
<1> QED  BY <1>3, <1>6, <1>7, <1>8

-----------------------------------------------------------------------------
(* A class cut into its methods.                                           *)
MethodInv(lines, start, end, acc, k) ==
  /\ acc \in CutStates(lines) /\ Tiles(lines, acc.chunks, start, acc.cursor - 1)
  /\ start <= acc.cursor /\ acc.cursor <= end + 1
  /\ acc.cursor = start \/ \E p \in 1 .. k : /\ p \in DOMAIN lines /\ lines[p].kind = "meth"
                                             /\ acc.cursor = EndOf(lines, p) + 1

LEMMA JoinRecords ==
  ASSUME NEW a \in Seq(ChunkRecords), NEW b \in Seq(ChunkRecords)
  PROVE  a \o b \in Seq(ChunkRecords)
OBVIOUS

LEMMA MethodTyped ==
  ASSUME NEW lines \in Seq(SourceLines), NEW i \in DOMAIN lines, NEW m \in DOMAIN lines,
         NEW acc \in CutStates(lines)
  PROVE  AddMethod(lines, i, acc, m) \in CutStates(lines)
<1>1. CASE lines[m].kind # "meth"
  BY <1>1 DEF AddMethod
<1>2. CASE lines[m].kind = "meth"
  <2>1. acc.cursor \in 1 .. Len(lines) + 1 /\ acc.cursor \in Nat /\ acc.cursor >= 1
    BY DEF CutStates
  <2>2. PICK d : d = AstLine(lines, m) /\ d \in DOMAIN lines /\ d \in 1 .. m
    BY NumbersGrow
  <2>0. PICK from : from = LeadingCommentStart(lines, d, acc.cursor)
    OBVIOUS
  <2>3. from \in 1 .. m /\ from \in Nat /\ from >= 1 /\ from - 1 \in Nat /\ from - 1 <= Len(lines)
    <3>1. BeginsAt(lines, d, acc.cursor, from)
      BY <2>0, <2>1, <2>2, CommentsStart
    <3>2. from \in 1 .. d
      BY <3>1 DEF BeginsAt
    <3> QED  BY <2>2, <3>2
  <2>4. PICK to : to = EndOf(lines, m)
    OBVIOUS
  <2>5. to \in DOMAIN lines /\ to \in Nat /\ to <= Len(lines) /\ to + 1 \in 1 .. Len(lines) + 1
    <3>1. to \in DOMAIN lines
      BY <1>2, <2>4, DefinitionNumbers
    <3> QED  BY <3>1
  <2>6. <<i>> \in Symbols /\ <<i, m>> \in Symbols
    BY DEF Symbols
  <2>7. PICK a : a = UpTo(lines, acc, from - 1, <<i>>) /\ a \in Seq(ChunkRecords)
    BY <2>3, <2>6, UpToTiles
  <2>8. PICK b : b = Sized(lines, from, to, <<i, m>>) /\ b \in Seq(ChunkRecords)
    BY <2>3, <2>5, <2>6, SizedTiles DEF Tiles
  <2>9. AddMethod(lines, i, acc, m) = [chunks |-> a \o b, cursor |-> to + 1]
    BY <1>2, <2>0, <2>2, <2>4, <2>7, <2>8 DEF AddMethod
  <2>10. a \o b \in Seq(ChunkRecords)
    BY <2>7, <2>8, JoinRecords
  <2> QED  BY <2>5, <2>9, <2>10 DEF CutStates
<1> QED  BY <1>1, <1>2

(* One more line of a class: a method begins behind the ones before it     *)
(* and ends within the class.                                              *)
LEMMA MethodStep ==
  ASSUME NEW lines \in Seq(SourceLines), Readable(lines), NEW i \in DOMAIN lines, lines[i].kind = "class",
         NEW start \in 1 .. AstLine(lines, i), NEW end, end = EndOf(lines, i),
         NEW k \in Nat, k + 1 \in i .. EndsAt(lines, i), NEW acc, MethodInv(lines, start, end, acc, k)
  PROVE  MethodInv(lines, start, end, AddMethod(lines, i, acc, k + 1), k + 1)
<1>0. PICK tail : /\ tail = EndsAt(lines, i) /\ tail \in i .. Len(lines) /\ tail \in DOMAIN lines
                  /\ \A n \in i + 1 .. tail : lines[n].kind \in Inside("class")
  BY EndsInside
<1>1. PICK m : m = k + 1 /\ m \in i .. tail /\ m \in Nat
  BY <1>0
<1>2. end \in DOMAIN lines /\ end = AstLine(lines, tail) /\ end \in Nat /\ end <= Len(lines)
  BY <1>0, NumbersGrow DEF EndOf
<1>3. m \in DOMAIN lines /\ i \in Nat /\ start \in Nat /\ m >= i /\ start >= 1
  BY <1>0, <1>1
<1>9. PICK d : /\ d = AstLine(lines, m) /\ d \in DOMAIN lines /\ d \in 1 .. m /\ d \in Nat
               /\ start <= d /\ AstLine(lines, i) <= d
  <2>1. i \in 1 .. m
    BY <1>1, <1>3
  <2>2. AstLine(lines, m) \in DOMAIN lines /\ AstLine(lines, m) \in 1 .. m /\ AstLine(lines, i) <= AstLine(lines, m)
    BY <1>3, <2>1, NumbersGrow
  <2>3. AstLine(lines, i) \in 1 .. i
    BY NumbersGrow
  <2>4. start <= AstLine(lines, m)
    BY <1>3, <2>2, <2>3
  <2> QED  BY <2>2, <2>4
<1>4. /\ acc \in CutStates(lines) /\ Tiles(lines, acc.chunks, start, acc.cursor - 1)
      /\ start <= acc.cursor /\ acc.cursor <= end + 1
  BY DEF MethodInv
<1>5. acc.cursor = start \/ \E p \in 1 .. k : p \in DOMAIN lines /\ lines[p].kind = "meth" /\ acc.cursor = EndOf(lines, p) + 1
  BY DEF MethodInv
<1>6. acc.cursor \in Nat /\ acc.cursor >= 1
  BY <1>4 DEF CutStates
<1>7. CASE lines[m].kind # "meth"
  <2>1. AddMethod(lines, i, acc, m) = acc
    BY <1>7 DEF AddMethod
  <2>2. \A p \in 1 .. k : p \in 1 .. k + 1
    OBVIOUS
  <2> QED  BY <1>1, <1>4, <1>5, <2>1, <2>2 DEF MethodInv
<1>8. CASE lines[m].kind = "meth"
  <2>1. PICK new \in CutStates(lines) : new = AddMethod(lines, i, acc, m)
    BY <1>3, <1>4, MethodTyped
  <2>2. PICK from : from = LeadingCommentStart(lines, d, acc.cursor)
    OBVIOUS
  <2>3. PICK to : to = EndOf(lines, m)
    OBVIOUS
  <2>4. acc.cursor <= d
    <3>1. CASE acc.cursor = start
      BY <1>9, <3>1
    <3>2. ASSUME NEW p \in 1 .. k, p \in DOMAIN lines, lines[p].kind = "meth", acc.cursor = EndOf(lines, p) + 1
          PROVE  acc.cursor <= d
      <4>1. PICK e : e = EndsAt(lines, p)
        OBVIOUS
      <4>2. /\ e \in Nat /\ e \in DOMAIN lines /\ lines[e].kind \notin {"note", "blank"}
            /\ \A n \in p + 1 .. e : lines[n].kind \in Inside("meth")
        <5>1. lines[p].kind \notin {"note", "blank"}
          BY <3>2
        <5>2. /\ e \in p .. Len(lines) /\ e \in DOMAIN lines /\ lines[e].kind \notin {"note", "blank"}
              /\ \A n \in p + 1 .. e : lines[n].kind \in Inside(lines[p].kind)
          BY <3>2, <4>1, <5>1, EndsInside
        <5> QED  BY <3>2, <5>2
      <4>3. "meth" \notin Inside("meth")
        BY DEF Inside
      <4>4. m \notin p + 1 .. e
        BY <1>8, <4>2, <4>3
      <4>5. e < m
        BY <1>1, <4>2, <4>4
      <4>6. AstLine(lines, e) < d
        BY <1>3, <1>8, <1>9, <4>2, <4>5, NumbersApart
      <4>7. acc.cursor = AstLine(lines, e) + 1 /\ AstLine(lines, e) \in 1 .. e
        BY <3>2, <4>1, <4>2, NumbersGrow DEF EndOf
      <4> QED  BY <1>9, <4>2, <4>6, <4>7
    <3> QED  BY <1>5, <3>1, <3>2
  <2>5. from \in Nat /\ acc.cursor <= from /\ from <= d /\ from >= 1
    <3>1. BeginsAt(lines, d, acc.cursor, from)
      BY <1>6, <1>9, <2>2, CommentsStart
    <3>2. from \in 1 .. d /\ acc.cursor <= from
      BY <2>4, <3>1 DEF BeginsAt
    <3> QED  BY <1>9, <3>2
  <2>6. to \in d .. end /\ to \in Nat
    <3>1. PICK e : /\ e = EndsAt(lines, m) /\ e \in m .. Len(lines) /\ e \in DOMAIN lines
                   /\ lines[e].kind \notin {"note", "blank"} /\ \A n \in m + 1 .. e : lines[n].kind \in Inside("meth")
      BY <1>3, <1>8, EndsInside
    <3>2. Inside("meth") \subseteq Inside("class")
      BY DEF Inside
    <3>3. \A n \in i + 1 .. e : lines[n].kind \in Inside("class")
      <4>1. \A n \in i + 1 .. e : n \in i + 1 .. tail \/ n \in m + 1 .. e
        BY <1>0, <1>1
      <4> QED  BY <1>0, <3>1, <3>2, <4>1
    <3>4. e \in i .. Len(lines)
      BY <1>3, <3>1
    <3>5. e <= tail
      BY <1>0, <3>1, <3>3, <3>4, EndsInside
    <3>6. e \in 1 .. tail /\ m \in 1 .. e
      BY <1>0, <1>3, <3>1, <3>5
    <3>7. AstLine(lines, e) <= end /\ d <= AstLine(lines, e) /\ AstLine(lines, e) \in 1 .. e
      BY <1>0, <1>2, <1>9, <3>1, <3>6, NumbersGrow
    <3>8. to = AstLine(lines, e)
      BY <2>3, <3>1 DEF EndOf
    <3> QED  BY <1>2, <1>9, <3>1, <3>7, <3>8
  <2>7. <<i>> \in Symbols /\ <<i, m>> \in Symbols
    BY <1>3 DEF Symbols
  <2>8. PICK r \in Nat : r = from - 1 /\ r + 1 = from
    BY <2>5
  <2>9. PICK a : a = UpTo(lines, acc, r, <<i>>)
    OBVIOUS
  <2>10. PICK b : b = Sized(lines, from, to, <<i, m>>)
    OBVIOUS
  <2>11. new = [chunks |-> a \o b, cursor |-> to + 1]
    BY <1>8, <1>9, <2>1, <2>2, <2>3, <2>8, <2>9, <2>10 DEF AddMethod
  <2>12. r <= Len(lines) /\ to <= Len(lines) /\ acc.cursor <= r + 1 /\ start <= r + 1 /\ r <= to
    <3>1. PICK all \in Nat : all = Len(lines)
      OBVIOUS
    <3>2. PICK cursor \in Nat : cursor = acc.cursor
      BY <1>6
    <3>3. end <= all /\ from <= d /\ d <= to /\ to <= end /\ cursor <= from /\ start <= cursor
      BY <1>2, <1>4, <2>5, <2>6, <1>9, <3>1, <3>2
    <3>4. r <= to /\ to <= all
      BY <1>2, <1>9, <2>5, <2>6, <2>8, <3>3
    <3>5. r <= all
      BY <2>6, <2>8, <3>4
    <3>6. cursor <= r + 1 /\ start <= r + 1
      BY <1>3, <2>5, <2>8, <3>3
    <3> QED  BY <3>1, <3>2, <3>4, <3>5, <3>6
  <2>13. Tiles(lines, a, start, r)
    BY <1>3, <1>4, <2>7, <2>9, <2>12, UpToTiles
  <2>14. Tiles(lines, b, r + 1, to)
    BY <1>2, <2>5, <2>6, <2>7, <2>8, <2>10, <2>12, SizedTiles
  <2>15. Tiles(lines, a \o b, start, to)
    BY <1>3, <2>6, <2>12, <2>13, <2>14, TilesJoin
  <2>16. new.chunks = a \o b /\ new.cursor = to + 1 /\ to + 1 - 1 = to
    BY <2>6, <2>11
  <2>17. start <= to + 1 /\ to + 1 <= end + 1
    BY <1>2, <1>3, <1>9, <2>6
  <2>18. m \in 1 .. k + 1
    BY <1>1, <1>3
  <2>19. Tiles(lines, new.chunks, start, new.cursor - 1)
    <3>1. new.cursor - 1 = to
      BY <2>6, <2>16
    <3> QED  BY <2>15, <2>16, <3>1, Zenon
  <2>20. MethodInv(lines, start, end, new, k + 1)
    BY <1>3, <1>8, <2>3, <2>16, <2>17, <2>18, <2>19 DEF MethodInv
  <2> QED  BY <1>1, <2>1, <2>20
<1> QED  BY <1>7, <1>8

(* _split_class loses no line between the class and the end of it.         *)
LEMMA SplitClassTiles ==
  ASSUME NEW lines \in Seq(SourceLines), Readable(lines), NEW i \in DOMAIN lines, lines[i].kind = "class",
         NEW start \in 1 .. AstLine(lines, i), NEW end, end = EndOf(lines, i)
  PROVE  Tiles(lines, SplitClass(lines, i, start, end), start, end)
<1>. DEFINE tail == EndsAt(lines, i)
<1>0. /\ tail \in i .. Len(lines) /\ tail \in Nat /\ i \in Nat /\ start \in Nat /\ start >= 1 /\ i <= tail
      /\ tail <= Len(lines) /\ i >= 1 /\ end \in DOMAIN lines /\ end \in Nat /\ end <= Len(lines) /\ start <= end
  <2>1. tail \in i .. Len(lines)
    BY EndsInside
  <2>2. end \in DOMAIN lines /\ AstLine(lines, i) <= end /\ AstLine(lines, i) \in 1 .. i
    BY DefinitionNumbers, NumbersGrow
  <2>3. start <= end
    BY <2>2
  <2> QED  BY <2>1, <2>2, <2>3
<1>. HIDE DEF tail
<1>. DEFINE s == Across(i, tail)
            n == tail - i + 1
            X == i .. tail
            A == CutStates(lines)
            base == [chunks |-> <<>>, cursor |-> start]
            Op(acc, m) == AddMethod(lines, i, acc, m)
            step == [p \in A \X X |-> Op(p[1], p[2])]
            g == CHOOSE iter : iter = [t \in SUBSET DOMAIN s |->
                   IF t = {} THEN base ELSE Op(iter[t \ {Max(t)}], s[Max(t)])]
            Good == {p \in (0 .. n) \X A : MethodInv(lines, start, end, p[2], i + p[1] - 1)}
<1>1. SplitClass(lines, i, start, end) = Merged(UpTo(lines, g[DOMAIN s], end, <<i>>))
  BY DEF SplitClass, FoldLeft, MapThenFoldSet, tail
<1>2. /\ n \in Nat /\ s \in [1 .. n -> X] /\ DOMAIN s = 1 .. n
      /\ \A k \in 0 .. n - 1 : s[k + 1] = i + k
  <2>1. i <= tail + 1 /\ tail - i + 1 - 1 = tail - i
    BY <1>0
  <2>2. /\ tail - i + 1 \in Nat /\ s \in [1 .. n -> X]
        /\ \A k \in 0 .. tail - i : s[k + 1] = i + k
    BY <1>0, <2>1, AcrossIsIt
  <2>. HIDE DEF s, X
  <2>3. n - 1 = tail - i /\ n = tail - i + 1
    BY <1>0
  <2>. HIDE DEF n
  <2> QED  BY <2>2, <2>3
<1>3. \A a \in A, k \in X : Op(a, k) \in A /\ step[<<a, k>>] = Op(a, k)
  <2>1. \A k \in X : k \in DOMAIN lines
    BY <1>0
  <2> QED  BY <2>1, MethodTyped
<1>4. base \in A /\ step \in [A \X X -> A]
  <2>1. base \in A
    BY <1>0, EmptySeq DEF CutStates
  <2> QED  BY <1>3, <2>1
<1>5. Foldable(A, X, base, step, n, s)
  BY <1>2, <1>4 DEF Foldable
<1>. HIDE DEF s, n, A, X, base, Op, step
<1>6. PICK h : FoldTable(h, A, base, step, n, s)
  <2>. HIDE DEF g
  <2> QED  BY <1>5, FoldsExist
<1>7. h \in [SUBSET (1 .. n) -> A] /\ \A t \in SUBSET (1 .. n) : Folds(h, base, step, s, t)
  BY <1>6 DEF FoldTable
<1>8. \A t \in SUBSET (1 .. n) : t # {} => s[Max(t)] \in X /\ h[t \ {Max(t)}] \in A
  BY <1>2, <1>7, MaxOfPart
<1>9. h = [t \in SUBSET (1 .. n) |-> IF t = {} THEN base ELSE Op(h[t \ {Max(t)}], s[Max(t)])]
  BY <1>3, <1>7, <1>8 DEF Folds
<1>10. g = [t \in SUBSET (1 .. n) |-> IF t = {} THEN base ELSE Op(g[t \ {Max(t)}], s[Max(t)])]
  BY <1>2, <1>9
<1>. HIDE DEF g
<1>11. Computes(g, A, base, step, n, s)
  BY <1>3, <1>8, <1>10 DEF Computes
<1>12. <<0, base>> \in Good
  <2>1. base.chunks = <<>> /\ base.cursor = start /\ start - 1 \in Nat /\ start > start - 1 /\ start <= end + 1
    BY <1>0 DEF base
  <2>2. Tiles(lines, <<>>, start, start - 1)
    BY <1>0, <2>1, NoTiles
  <2>3. MethodInv(lines, start, end, base, i + 0 - 1)
    BY <1>0, <1>4, <2>1, <2>2 DEF MethodInv, A
  <2> QED  BY <1>2, <1>4, <2>3
<1>13. \A k \in 0 .. n - 1, a \in A : <<k, a>> \in Good => <<k + 1, step[<<a, s[k + 1]>>]>> \in Good
  <2>1. SUFFICES ASSUME NEW k \in 0 .. n - 1, NEW a \in A, MethodInv(lines, start, end, a, i + k - 1)
                 PROVE  <<k + 1, step[<<a, s[k + 1]>>]>> \in Good
    OBVIOUS
  <2>2. k \in Nat /\ k + 1 \in 1 .. n /\ k + 1 \in 0 .. n
    BY <1>2
  <2>3. PICK j \in Nat : j = i + k - 1 /\ j + 1 = i + k /\ j + 1 \in i .. tail /\ i + (k + 1) - 1 = j + 1
    <3>1. k <= tail - i
      BY <1>0, <2>2 DEF n
    <3>2. i + k - 1 \in Nat
      BY ONLY <1>0, <2>2
    <3>3. PICK j \in Nat : j = i + k - 1
      BY <3>2
    <3>4. i \in Nat /\ tail \in Nat /\ k \in Nat /\ j \in Nat
      BY <1>0, <2>2, <3>3
    <3>5. j + 1 = i + k /\ i + (k + 1) - 1 = j + 1
      BY ONLY <3>3, <3>4
    <3>6. j + 1 \in i .. tail
      BY ONLY <3>1, <3>3, <3>4
    <3> QED  BY <3>3, <3>5, <3>6
  <2>4. MethodInv(lines, start, end, AddMethod(lines, i, a, j + 1), j + 1)
    BY <2>1, <2>3, MethodStep DEF tail
  <2>5. step[<<a, s[k + 1]>>] = AddMethod(lines, i, a, j + 1) /\ step[<<a, s[k + 1]>>] \in A
    BY <1>2, <1>3, <2>2, <2>3 DEF Op, X
  <2> QED  BY <2>2, <2>3, <2>4, <2>5
<1>14. g[1 .. n] \in A /\ <<n, g[1 .. n]>> \in Good
  <2>. HIDE DEF Good
  <2> QED  BY <1>5, <1>11, <1>12, <1>13, FoldKeeps
<1>15. PICK all : all = g[1 .. n] /\ MethodInv(lines, start, end, all, tail) /\ SplitClass(lines, i, start, end) = Merged(UpTo(lines, all, end, <<i>>))
  <2>1. i + n - 1 = tail
    BY <1>0 DEF n
  <2> QED  BY <1>1, <1>2, <1>14, <2>1
<1>16. /\ all \in CutStates(lines) /\ Tiles(lines, all.chunks, start, all.cursor - 1)
       /\ start <= all.cursor /\ all.cursor <= end + 1
  BY <1>15 DEF MethodInv
<1>17. <<i>> \in Symbols
  BY <1>0 DEF Symbols
<1>18. Tiles(lines, UpTo(lines, all, end, <<i>>), start, end)
  BY <1>0, <1>16, <1>17, UpToTiles
<1> QED  BY <1>0, <1>15, <1>18, MergedTiles

-----------------------------------------------------------------------------
(* A file cut into its definitions.                                        *)
IsDefinition(lines, i) == i \in DOMAIN lines /\ lines[i].kind \in {"def", "class"}
Fits(lines, i) ==
  Unshifted(lines, i) /\ TextLength(lines, WholeFrom(lines, i), EndsAt(lines, i)) <= MAX_CHARS
OwnChunk(lines, c, i) ==
  \E n \in 1 .. Len(c) : /\ c[n].from = WholeFrom(lines, i)
                         /\ c[n].to = EndsAt(lines, i) /\ c[n].symbol = <<i>>

(* What is behind the cursor ends a definition; nothing above the next one *)
(* that belongs to it is behind.                                           *)
Clear(lines, cursor) ==
  cursor = 1 \/ (cursor - 1 \in DOMAIN lines /\ lines[cursor - 1].kind \notin {"note", "blank", "deco"})

DefinitionInv(lines, acc, k) ==
  /\ acc \in CutStates(lines) /\ Tiles(lines, acc.chunks, 1, acc.cursor - 1)
  /\ acc.cursor = 1 \/ \E p \in 1 .. k : IsDefinition(lines, p) /\ acc.cursor = EndOf(lines, p) + 1
  /\ \A i \in 1 .. k : IsDefinition(lines, i) /\ Fits(lines, i) => OwnChunk(lines, acc.chunks, i)

(* A chunk stays one when others are put before or behind.                 *)
LEMMA OwnChunksStay ==
  ASSUME NEW lines, NEW a \in Seq(ChunkRecords), NEW b \in Seq(ChunkRecords), NEW i,
         OwnChunk(lines, a, i) \/ OwnChunk(lines, b, i)
  PROVE  OwnChunk(lines, a \o b, i)
<1>1. PICK p \in Nat, q \in Nat : p = Len(a) /\ q = Len(b)
  OBVIOUS
<1>2. PICK c : c = a \o b
  OBVIOUS
<1>3. Len(c) = p + q /\ (\A n \in 1 .. p : c[n] = a[n]) /\ \A n \in 1 .. q : c[p + n] = b[n]
  BY <1>1, <1>2
<1>4. ASSUME NEW n \in 1 .. p, a[n].from = WholeFrom(lines, i), a[n].to = EndsAt(lines, i), a[n].symbol = <<i>>
      PROVE  OwnChunk(lines, c, i)
  <2>1. n \in 1 .. p + q
    OBVIOUS
  <2> QED  BY <1>3, <1>4, <2>1 DEF OwnChunk
<1>5. ASSUME NEW n \in 1 .. q, b[n].from = WholeFrom(lines, i), b[n].to = EndsAt(lines, i), b[n].symbol = <<i>>
      PROVE  OwnChunk(lines, c, i)
  <2>1. p + n \in 1 .. p + q
    OBVIOUS
  <2> QED  BY <1>3, <1>5, <2>1 DEF OwnChunk
<1> QED  BY <1>1, <1>2, <1>4, <1>5 DEF OwnChunk

(* The cursor is behind the end of a definition and above all that         *)
(* belongs to the next, in the numbers of ast.                             *)
LEMMA BehindTheCursor ==
  ASSUME NEW lines \in Seq(SourceLines), Readable(lines),
         NEW i, IsDefinition(lines, i), NEW cursor \in Nat, NEW k \in Nat, k < i,
         cursor = 1 \/ \E p \in 1 .. k : IsDefinition(lines, p) /\ cursor = EndOf(lines, p) + 1
  PROVE  /\ 1 <= cursor /\ cursor <= DeclarationLine(lines, i)
         /\ Unshifted(lines, i) => Clear(lines, cursor)
<1>1. i \in DOMAIN lines /\ i \in Nat /\ i >= 1 /\ lines[i].kind \in {"def", "class"}
  BY DEF IsDefinition
<1>2. PICK d : d = DeclaredAt(lines, i) /\ d \in 1 .. i /\ d \in DOMAIN lines /\ \A n \in d .. i - 1 : lines[n].kind = "deco"
  BY <1>1, DecoratorsBelong
<1>3. DeclarationLine(lines, i) = AstLine(lines, d) /\ AstLine(lines, d) \in 1 .. d
  BY <1>2, NumbersGrow DEF DeclarationLine
<1>4. CASE cursor = 1
  BY <1>2, <1>3, <1>4 DEF Clear
<1>5. ASSUME NEW p \in 1 .. k, IsDefinition(lines, p), cursor = EndOf(lines, p) + 1
      PROVE  /\ 1 <= cursor /\ cursor <= DeclarationLine(lines, i)
             /\ Unshifted(lines, i) => Clear(lines, cursor)
  <2>1. p \in DOMAIN lines /\ p \in Nat /\ lines[p].kind \in {"def", "class"} /\ lines[p].kind \notin {"note", "blank"}
    BY <1>5 DEF IsDefinition
  <2>2. PICK e : e = EndsAt(lines, p)
    OBVIOUS
  <2>3. /\ e \in p .. Len(lines) /\ e \in DOMAIN lines /\ lines[e].kind \notin {"note", "blank"}
        /\ \A n \in p + 1 .. e : lines[n].kind \in Inside(lines[p].kind)
    BY <2>1, <2>2, EndsInside
  <2>4. "deco" \notin Inside(lines[p].kind) /\ "def" \notin Inside(lines[p].kind) /\ "class" \notin Inside(lines[p].kind)
    BY DEF Inside
  <2>5. lines[e].kind # "deco"
    <3>1. CASE e = p
      BY <2>1, <3>1
    <3>2. CASE e # p
      <4>1. e \in p + 1 .. e
        BY <2>1, <2>3, <3>2
      <4> QED  BY <2>3, <2>4, <4>1
    <3> QED  BY <3>1, <3>2
  <2>6. i \notin p + 1 .. e
    BY <1>1, <2>3, <2>4
  <2>7. e \in Nat /\ e < i
    BY <1>1, <2>1, <2>3, <2>6
  <2>8. e < d
    <3>1. e \notin d .. i - 1
      BY <1>2, <2>5
    <3> QED  BY <1>1, <1>2, <2>7, <3>1
  <2>9. lines[d].kind \in {"def", "class", "deco"}
    <3>1. d = i \/ d \in d .. i - 1
      BY <1>1, <1>2
    <3> QED  BY <1>1, <1>2, <3>1
  <2>10. AstLine(lines, e) < AstLine(lines, d)
    BY <1>2, <2>3, <2>8, <2>9, NumbersApart
  <2>11. cursor = AstLine(lines, e) + 1 /\ AstLine(lines, e) \in 1 .. e
    BY <1>5, <2>2, <2>3, NumbersGrow DEF EndOf
  <2>12. 1 <= cursor /\ cursor <= DeclarationLine(lines, i)
    BY <1>2, <1>3, <2>3, <2>10, <2>11
  <2>13. ASSUME Unshifted(lines, i)
         PROVE  Clear(lines, cursor)
    <3>1. e \in 1 .. i
      BY <1>1, <2>3, <2>7
    <3>2. AstLine(lines, e) = e
      BY <1>1, <2>13, <3>1, UnshiftedNumbers
    <3>3. cursor - 1 = e
      BY <2>7, <2>11, <3>2
    <3> QED  BY <2>3, <2>5, <3>3 DEF Clear
  <2> QED  BY <2>12, <2>13
<1> QED  BY <1>4, <1>5

(* So the floor never cuts a comment from the definition below it, where   *)
(* ast and splitlines number alike.                                        *)
LEMMA StartsWhole ==
  ASSUME NEW lines \in Seq(SourceLines), NEW i \in DOMAIN lines, NEW cursor \in Nat,
         Clear(lines, cursor), 1 <= cursor, cursor <= DeclaredAt(lines, i)
  PROVE  /\ LeadingCommentStart(lines, DeclaredAt(lines, i), cursor) = WholeFrom(lines, i)
         /\ WholeFrom(lines, i) \in cursor .. i
<1>1. PICK d : d = DeclaredAt(lines, i) /\ d \in 1 .. i /\ d \in DOMAIN lines /\ d \in Nat
  <2>1. DeclaredAt(lines, i) \in 1 .. i /\ DeclaredAt(lines, i) \in DOMAIN lines
    BY DecoratorsBelong
  <2>2. \A x \in DOMAIN lines : x \in Nat
    OBVIOUS
  <2> QED  BY <2>1, <2>2
<1>2. PICK r : r = LeadingCommentStart(lines, d, cursor)
  OBVIOUS
<1>11. cursor >= 1 /\ cursor <= d
  BY <1>1
<1>12. BeginsAt(lines, d, cursor, r)
  BY <1>1, <1>2, <1>11, CommentsStart
<1>3. /\ r \in 1 .. d /\ cursor <= r
      /\ \A n \in r .. d - 1 : lines[n].kind \in {"note", "blank"}
      /\ r = d \/ lines[r].kind # "blank"
  BY <1>11, <1>12 DEF BeginsAt
<1>4. \A k \in cursor .. d - 1 :
        lines[k].kind = "note" /\ (\A n \in k .. d - 1 : lines[n].kind \in {"note", "blank"}) => r <= k
  BY <1>12 DEF BeginsAt
<1>5. PICK notes : notes = {k \in 1 .. d - 1 : /\ lines[k].kind = "note"
                                               /\ \A n \in k .. d - 1 : lines[n].kind \in {"note", "blank"}}
  OBVIOUS
<1>6. WholeFrom(lines, i) = Min(notes \cup {d})
  BY <1>1, <1>5 DEF WholeFrom
<1>7. r \in notes \cup {d}
  <2>1. CASE r = d
    BY <2>1
  <2>2. CASE r # d
    <3>1. r \in 1 .. d - 1 /\ r \in r .. d - 1
      BY <1>1, <1>3, <2>2
    <3>2. lines[r].kind \in {"note", "blank"}
      BY <1>3, <3>1
    <3>3. lines[r].kind = "note"
      BY <1>3, <2>2, <3>2
    <3> QED  BY <1>3, <1>5, <3>1, <3>3
  <2> QED  BY <2>1, <2>2
<1>8. \A k \in notes : r <= k
  <2>1. SUFFICES ASSUME NEW k \in notes
                 PROVE  r <= k
    OBVIOUS
  <2>2. k \in 1 .. d - 1 /\ lines[k].kind = "note" /\ \A n \in k .. d - 1 : lines[n].kind \in {"note", "blank"}
    BY <1>5, <2>1
  <2>3. cursor <= k
    <3>1. cursor > k => cursor - 1 \in k .. d - 1 /\ cursor # 1
      BY <1>1, <2>2
    <3>2. cursor > k => lines[cursor - 1].kind \in {"note", "blank"}
      BY <2>2, <3>1
    <3>3. ~(cursor > k)
      BY <3>1, <3>2 DEF Clear
    <3> QED  BY <2>2, <3>3
  <2>4. k \in cursor .. d - 1
    BY <2>2, <2>3
  <2> QED  BY <1>4, <2>2, <2>4
<1>9. Min(notes \cup {d}) = r
  <2>1. notes \cup {d} \in SUBSET Nat
    BY <1>1, <1>5
  <2>2. \A k \in notes \cup {d} : r <= k
    BY <1>1, <1>3, <1>8
  <2> QED  BY <1>7, <2>1, <2>2, LeastIsMin
<1>10. r \in cursor .. i
  BY <1>1, <1>3
<1> QED  BY <1>1, <1>2, <1>6, <1>9, <1>10

LEMMA DefinitionTyped ==
  ASSUME NEW lines \in Seq(SourceLines), Readable(lines), NEW i \in DOMAIN lines, NEW acc \in CutStates(lines)
  PROVE  AddDefinition(lines, acc, i) \in CutStates(lines)
<1>1. CASE lines[i].kind \notin {"def", "class"}
  BY <1>1 DEF AddDefinition
<1>2. CASE lines[i].kind \in {"def", "class"}
  <2>1. acc.cursor \in Nat /\ acc.cursor >= 1
    BY DEF CutStates
  <2>2. PICK d : d = DeclarationLine(lines, i) /\ d \in 1 .. i /\ d \in DOMAIN lines /\ d <= AstLine(lines, i)
    BY <1>2, DefinitionNumbers
  <2>3. PICK start : start = LeadingCommentStart(lines, d, acc.cursor)
    OBVIOUS
  <2>4. start \in 1 .. AstLine(lines, i) /\ start \in Nat /\ start >= 1 /\ start - 1 \in Nat /\ start - 1 <= Len(lines)
    <3>1. BeginsAt(lines, d, acc.cursor, start)
      BY <2>1, <2>2, <2>3, CommentsStart
    <3>2. start \in 1 .. d
      BY <3>1 DEF BeginsAt
    <3>3. i \in Nat /\ i <= Len(lines) /\ Len(lines) \in Nat
      OBVIOUS
    <3>4. AstLine(lines, i) \in 1 .. i
      BY NumbersGrow
    <3> QED  BY <2>2, <3>2, <3>3, <3>4
  <2>5. PICK end : end = EndOf(lines, i)
    OBVIOUS
  <2>6. end \in DOMAIN lines /\ end \in Nat /\ end <= Len(lines) /\ end + 1 \in 1 .. Len(lines) + 1
    <3>1. end \in DOMAIN lines
      BY <1>2, <2>5, DefinitionNumbers
    <3> QED  BY <3>1
  <2>7. NoSymbol \in Symbols /\ <<i>> \in Symbols
    BY EmptySeq DEF Symbols, NoSymbol
  <2>8. PICK a : a = UpTo(lines, acc, start - 1, NoSymbol) /\ a \in Seq(ChunkRecords)
    BY <2>4, <2>7, UpToTiles
  <2>9. PICK split : split = (lines[i].kind = "class" /\ TextLength(lines, start, end) > MAX_CHARS)
    OBVIOUS
  <2>10. PICK b : b = IF split THEN SplitClass(lines, i, start, end) ELSE Sized(lines, start, end, <<i>>)
    OBVIOUS
  <2>11. b \in Seq(ChunkRecords)
    <3>1. CASE split
      <4>1. Tiles(lines, SplitClass(lines, i, start, end), start, end)
        BY <2>4, <2>5, <2>9, <3>1, SplitClassTiles
      <4> QED  BY <2>10, <3>1, <4>1 DEF Tiles
    <3>2. CASE ~split
      <4>1. Tiles(lines, Sized(lines, start, end, <<i>>), start, end)
        BY <2>4, <2>6, <2>7, SizedTiles
      <4> QED  BY <2>10, <3>2, <4>1 DEF Tiles
    <3> QED  BY <3>1, <3>2
  <2>12. AddDefinition(lines, acc, i) = [chunks |-> a \o b, cursor |-> end + 1]
    BY <1>2, <2>2, <2>3, <2>5, <2>8, <2>9, <2>10 DEF AddDefinition
  <2>13. a \o b \in Seq(ChunkRecords)
    BY <2>8, <2>11, JoinRecords
  <2> QED  BY <2>6, <2>12, <2>13 DEF CutStates
<1> QED  BY <1>1, <1>2

(* One more line of a file: a definition is cut whole if it fits, and      *)
(* what is above it is cut too.                                            *)
LEMMA DefinitionStep ==
  ASSUME NEW lines \in Seq(SourceLines), Readable(lines), NEW k \in Nat, k + 1 \in DOMAIN lines,
         NEW acc, DefinitionInv(lines, acc, k)
  PROVE  DefinitionInv(lines, AddDefinition(lines, acc, k + 1), k + 1)
<1>1. PICK i : i = k + 1 /\ i \in DOMAIN lines /\ i \in Nat /\ k < i /\ i >= 1
  OBVIOUS
<1>2. acc \in CutStates(lines) /\ Tiles(lines, acc.chunks, 1, acc.cursor - 1)
  BY DEF DefinitionInv
<1>3. acc.cursor = 1 \/ \E p \in 1 .. k : IsDefinition(lines, p) /\ acc.cursor = EndOf(lines, p) + 1
  BY DEF DefinitionInv
<1>4. \A j \in 1 .. k : IsDefinition(lines, j) /\ Fits(lines, j) => OwnChunk(lines, acc.chunks, j)
  BY DEF DefinitionInv
<1>5. acc.cursor \in Nat /\ acc.cursor >= 1 /\ acc.chunks \in Seq(ChunkRecords)
  BY <1>2 DEF CutStates
<1>6. \A j \in 1 .. k + 1 : j \in 1 .. k \/ j = i
  BY <1>1
<1>7. CASE lines[i].kind \notin {"def", "class"}
  <2>1. AddDefinition(lines, acc, i) = acc
    BY <1>7 DEF AddDefinition
  <2>2. ~IsDefinition(lines, i)
    BY <1>7 DEF IsDefinition
  <2>3. acc.cursor = 1 \/ \E p \in 1 .. k + 1 : IsDefinition(lines, p) /\ acc.cursor = EndOf(lines, p) + 1
    <3>1. \A p \in 1 .. k : p \in 1 .. k + 1
      OBVIOUS
    <3> QED  BY <1>3, <3>1
  <2>4. \A j \in 1 .. k + 1 : IsDefinition(lines, j) /\ Fits(lines, j) => OwnChunk(lines, acc.chunks, j)
    BY <1>4, <1>6, <2>2
  <2> QED  BY <1>1, <1>2, <2>1, <2>3, <2>4 DEF DefinitionInv
<1>8. CASE lines[i].kind \in {"def", "class"}
  <2>1. IsDefinition(lines, i)
    BY <1>1, <1>8 DEF IsDefinition
  <2>2. /\ 1 <= acc.cursor /\ acc.cursor <= DeclarationLine(lines, i)
        /\ Unshifted(lines, i) => Clear(lines, acc.cursor)
    BY <1>1, <1>3, <1>5, <2>1, BehindTheCursor
  <2>0. PICK d : /\ d = DeclarationLine(lines, i) /\ d \in DOMAIN lines /\ d \in 1 .. i /\ d \in Nat
                 /\ d <= AstLine(lines, i) /\ AstLine(lines, i) \in 1 .. i
    <3>1. AstLine(lines, i) \in 1 .. i
      BY <1>1, NumbersGrow
    <3>2. /\ DeclarationLine(lines, i) \in DOMAIN lines /\ DeclarationLine(lines, i) \in 1 .. i
          /\ DeclarationLine(lines, i) <= AstLine(lines, i)
      BY <1>1, <1>8, DefinitionNumbers
    <3>3. \A x \in 1 .. i : x \in Nat
      BY <1>1
    <3> QED  BY <3>1, <3>2, <3>3
  <2>3. PICK start : start = LeadingCommentStart(lines, d, acc.cursor) /\ start \in 1 .. d /\ acc.cursor <= start
    <3>1. PICK start : start = LeadingCommentStart(lines, d, acc.cursor)
      OBVIOUS
    <3>2. BeginsAt(lines, d, acc.cursor, start)
      BY <1>5, <2>0, <3>1, CommentsStart
    <3>3. start \in 1 .. d /\ acc.cursor <= start
      BY <2>0, <2>2, <3>2 DEF BeginsAt
    <3> QED  BY <3>1, <3>3
  <2>4. start \in Nat /\ start >= 1 /\ start <= i /\ acc.cursor <= start /\ start \in 1 .. AstLine(lines, i)
    BY <1>1, <1>5, <2>0, <2>3
  <2>5. PICK end : end = EndOf(lines, i)
    OBVIOUS
  <2>6. end \in DOMAIN lines /\ end \in Nat /\ end <= Len(lines) /\ start <= end /\ end + 1 \in 1 .. Len(lines) + 1
    <3>1. end \in DOMAIN lines /\ AstLine(lines, i) <= end
      BY <1>1, <1>8, <2>5, DefinitionNumbers
    <3> QED  BY <1>1, <2>0, <2>4, <3>1
  <2>26. ASSUME Unshifted(lines, i)
         PROVE  start = WholeFrom(lines, i) /\ end = EndsAt(lines, i) /\ i \in start .. end
    <3>1. d = DeclaredAt(lines, i) /\ end = EndsAt(lines, i)
      BY <1>1, <1>8, <2>0, <2>5, <2>26, UnshiftedNumbers
    <3>2. start = WholeFrom(lines, i)
      BY <1>1, <1>5, <2>0, <2>2, <2>3, <2>26, <3>1, StartsWhole
    <3>3. end \in i .. Len(lines)
      BY <1>1, <1>8, <3>1, EndsInside
    <3> QED  BY <1>1, <2>4, <3>1, <3>2, <3>3
  <2>7. NoSymbol \in Symbols /\ <<i>> \in Symbols
    BY <1>1, EmptySeq DEF Symbols, NoSymbol
  <2>8. PICK r \in Nat : r = start - 1 /\ r + 1 = start /\ r <= Len(lines) /\ acc.cursor <= r + 1 /\ r <= end
    <3>1. start - 1 \in Nat /\ start - 1 + 1 = start /\ start - 1 <= end
      BY <1>1, <2>4, <2>6
    <3>2. PICK r \in Nat : r = start - 1 /\ r + 1 = start /\ r <= end
      BY <3>1
    <3>3. Len(lines) \in Nat
      OBVIOUS
    <3>4. r <= Len(lines) /\ acc.cursor <= r + 1
      BY <1>5, <2>4, <2>6, <3>2, <3>3
    <3> QED  BY <3>2, <3>4
  <2>9. PICK a : a = UpTo(lines, acc, r, NoSymbol)
    OBVIOUS
  <2>10. Tiles(lines, a, 1, r)
    BY <1>2, <1>5, <2>7, <2>8, <2>9, UpToTiles
  <2>11. a \in Seq(ChunkRecords) /\ a = acc.chunks \o Sized(lines, acc.cursor, r, NoSymbol)
    BY <2>9, <2>10 DEF Tiles, UpTo
  <2>12. PICK split : split = (lines[i].kind = "class" /\ TextLength(lines, start, end) > MAX_CHARS)
    OBVIOUS
  <2>13. PICK b : b = IF split THEN SplitClass(lines, i, start, end) ELSE Sized(lines, start, end, <<i>>)
    OBVIOUS
  <2>14. Tiles(lines, b, start, end)
    <3>1. CASE split
      BY <1>1, <2>4, <2>5, <2>12, <2>13, <3>1, SplitClassTiles
    <3>2. CASE ~split
      BY <2>4, <2>6, <2>7, <2>13, <3>2, SizedTiles
    <3> QED  BY <3>1, <3>2
  <2>15. b \in Seq(ChunkRecords)
    BY <2>14 DEF Tiles
  <2>16. PICK c : c = a \o b
    OBVIOUS
  <2>17. Tiles(lines, c, 1, end)
    BY <2>6, <2>8, <2>10, <2>14, <2>16, TilesJoin
  <2>18. PICK new : new = AddDefinition(lines, acc, i) /\ new \in CutStates(lines)
    BY <1>1, <1>2, DefinitionTyped
  <2>19. new = [chunks |-> c, cursor |-> end + 1]
    BY <1>8, <2>0, <2>3, <2>5, <2>8, <2>9, <2>12, <2>13, <2>16, <2>18 DEF AddDefinition
  <2>20. new.chunks = c /\ new.cursor = end + 1
    BY <2>19
  <2>21. Tiles(lines, new.chunks, 1, new.cursor - 1)
    <3>1. new.cursor - 1 = end
      BY <2>6, <2>20
    <3> QED  BY <2>17, <2>20, <3>1, Zenon
  <2>22. \E p \in 1 .. k + 1 : IsDefinition(lines, p) /\ new.cursor = EndOf(lines, p) + 1
    <3>1. i \in 1 .. k + 1
      BY <1>1
    <3> QED  BY <2>1, <2>5, <2>20, <3>1
  <2>23. ASSUME Fits(lines, i)
         PROVE  OwnChunk(lines, b, i)
    <3>1. TextLength(lines, start, end) <= MAX_CHARS
      BY <2>23, <2>26 DEF Fits
    <3>2. ~(TextLength(lines, start, end) > MAX_CHARS)
      <4>1. start \in DOMAIN lines
        BY <1>1, <2>4, <2>6
      <4>2. TextLength(lines, start, end) \in Int
        BY <2>6, <4>1, TextGrows
      <4>3. MAX_CHARS \in Nat
        BY ChunksAssumption
      <4> QED  BY <3>1, <4>2, <4>3
    <3>3. b = Sized(lines, start, end, <<i>>)
      BY <2>12, <2>13, <3>2
    <3>4. ~(start > end \/ Blank(lines, start, end))
      <4>1. i \in start .. end /\ start <= end
        BY <2>6, <2>23, <2>26 DEF Fits
      <4>2. lines[i].kind # "blank"
        BY <1>8
      <4> QED  BY <2>4, <2>6, <4>1, <4>2 DEF Blank
    <3>5. PICK x : x = Chunk(lines, start, end, <<i>>)
      OBVIOUS
    <3>6. b = <<x>>
      BY <3>1, <3>3, <3>4, <3>5 DEF Sized
    <3>7. x.from = start /\ x.to = end /\ x.symbol = <<i>>
      BY <3>5 DEF Chunk
    <3>8. Len(b) = 1 /\ b[1] = x /\ 1 \in 1 .. 1
      BY <3>6
    <3>9. start = WholeFrom(lines, i) /\ end = EndsAt(lines, i)
      BY <2>23, <2>26 DEF Fits
    <3> QED  BY <3>7, <3>8, <3>9 DEF OwnChunk
  <2>24. \A j \in 1 .. k + 1 : IsDefinition(lines, j) /\ Fits(lines, j) => OwnChunk(lines, c, j)
    <3>1. SUFFICES ASSUME NEW j \in 1 .. k + 1, IsDefinition(lines, j), Fits(lines, j)
                   PROVE  OwnChunk(lines, c, j)
      OBVIOUS
    <3>2. CASE j \in 1 .. k
      <4>1. OwnChunk(lines, acc.chunks, j)
        BY <1>4, <3>1, <3>2
      <4>2. Sized(lines, acc.cursor, r, NoSymbol) \in Seq(ChunkRecords)
        <5>1. Tiles(lines, Sized(lines, acc.cursor, r, NoSymbol), acc.cursor, r)
          BY <1>5, <2>7, <2>8, SizedTiles
        <5> QED  BY <5>1 DEF Tiles
      <4>3. OwnChunk(lines, a, j)
        BY <1>5, <2>11, <4>1, <4>2, OwnChunksStay
      <4> QED  BY <2>11, <2>15, <2>16, <4>3, OwnChunksStay
    <3>3. CASE j = i
      <4>1. OwnChunk(lines, b, i)
        BY <2>23, <3>1, <3>3
      <4> QED  BY <2>11, <2>15, <2>16, <3>3, <4>1, OwnChunksStay
    <3> QED  BY <1>6, <3>2, <3>3
  <2>25. DefinitionInv(lines, new, k + 1)
    BY <2>18, <2>20, <2>21, <2>22, <2>24 DEF DefinitionInv
  <2> QED  BY <1>1, <2>18, <2>25
<1> QED  BY <1>7, <1>8

(* chunk_python loses no line and cuts every definition whole that fits.   *)
LEMMA ChunkPythonTiles ==
  ASSUME NEW lines \in Seq(SourceLines), Readable(lines)
  PROVE  /\ Tiles(lines, ChunkPython(lines), 1, Len(lines))
         /\ \A i \in DOMAIN lines :
              IsDefinition(lines, i) /\ Fits(lines, i) => OwnChunk(lines, ChunkPython(lines), i)
<1>. DEFINE s == Across(1, Len(lines))
            n == Len(lines)
            A == CutStates(lines)
            base == [chunks |-> <<>>, cursor |-> 1]
            Op(acc, i) == AddDefinition(lines, acc, i)
            step == [p \in A \X (1 .. n) |-> Op(p[1], p[2])]
            g == CHOOSE iter : iter = [t \in SUBSET DOMAIN s |->
                   IF t = {} THEN base ELSE Op(iter[t \ {Max(t)}], s[Max(t)])]
            Good == {p \in (0 .. n) \X A : DefinitionInv(lines, p[2], p[1])}
<1>1. ChunkPython(lines) = UpTo(lines, g[DOMAIN s], Len(lines), NoSymbol)
  BY DEF ChunkPython, FoldLeft, MapThenFoldSet
<1>2. /\ n \in Nat /\ s \in [1 .. n -> 1 .. n] /\ DOMAIN s = 1 .. n
      /\ \A k \in 0 .. n - 1 : s[k + 1] = k + 1
  <2>1. n \in Nat /\ 1 <= n + 1 /\ n - 1 + 1 = n
    OBVIOUS
  <2> QED  BY <2>1 DEF Across
<1>3. \A a \in A, k \in 1 .. n : Op(a, k) \in A /\ step[<<a, k>>] = Op(a, k)
  <2>1. \A k \in 1 .. n : k \in DOMAIN lines
    OBVIOUS
  <2> QED  BY <2>1, DefinitionTyped
<1>4. base \in A /\ step \in [A \X (1 .. n) -> A]
  <2>1. base \in A
    <3>1. 1 \in 1 .. Len(lines) + 1 /\ <<>> \in Seq(ChunkRecords)
      BY EmptySeq
    <3> QED  BY <3>1 DEF CutStates
  <2> QED  BY <1>3, <2>1
<1>5. Foldable(A, 1 .. n, base, step, n, s)
  BY <1>2, <1>4 DEF Foldable
<1>. HIDE DEF s, n, A, base, Op, step
<1>6. PICK h : FoldTable(h, A, base, step, n, s)
  <2>. HIDE DEF g
  <2> QED  BY <1>5, FoldsExist
<1>7. h \in [SUBSET (1 .. n) -> A] /\ \A t \in SUBSET (1 .. n) : Folds(h, base, step, s, t)
  BY <1>6 DEF FoldTable
<1>8. \A t \in SUBSET (1 .. n) : t # {} => s[Max(t)] \in 1 .. n /\ h[t \ {Max(t)}] \in A
  BY <1>2, <1>7, MaxOfPart
<1>9. h = [t \in SUBSET (1 .. n) |-> IF t = {} THEN base ELSE Op(h[t \ {Max(t)}], s[Max(t)])]
  BY <1>3, <1>7, <1>8 DEF Folds
<1>10. g = [t \in SUBSET (1 .. n) |-> IF t = {} THEN base ELSE Op(g[t \ {Max(t)}], s[Max(t)])]
  BY <1>2, <1>9
<1>. HIDE DEF g
<1>11. Computes(g, A, base, step, n, s)
  BY <1>3, <1>8, <1>10 DEF Computes
<1>12. <<0, base>> \in Good
  <2>1. base.chunks = <<>> /\ base.cursor = 1 /\ 1 - 1 = 0
    BY DEF base
  <2>2. Tiles(lines, <<>>, 1, 0)
    BY NoTiles
  <2>3. Tiles(lines, base.chunks, 1, base.cursor - 1)
    BY <2>1, <2>2
  <2>4. DefinitionInv(lines, base, 0)
    BY <1>4, <2>1, <2>3 DEF DefinitionInv, A
  <2> QED  BY <1>2, <1>4, <2>4
<1>13. \A k \in 0 .. n - 1, a \in A : <<k, a>> \in Good => <<k + 1, step[<<a, s[k + 1]>>]>> \in Good
  <2>1. SUFFICES ASSUME NEW k \in 0 .. n - 1, NEW a \in A, DefinitionInv(lines, a, k)
                 PROVE  <<k + 1, step[<<a, s[k + 1]>>]>> \in Good
    OBVIOUS
  <2>2. k \in Nat /\ k + 1 \in 1 .. n /\ k + 1 \in 0 .. n
    BY <1>2
  <2>3. k + 1 \in DOMAIN lines
    BY <2>2 DEF n
  <2>4. DefinitionInv(lines, AddDefinition(lines, a, k + 1), k + 1)
    BY <2>1, <2>2, <2>3, DefinitionStep
  <2>5. step[<<a, s[k + 1]>>] = AddDefinition(lines, a, k + 1) /\ step[<<a, s[k + 1]>>] \in A
    BY <1>2, <1>3, <2>2 DEF Op
  <2> QED  BY <2>2, <2>4, <2>5
<1>14. g[1 .. n] \in A /\ <<n, g[1 .. n]>> \in Good
  <2>. HIDE DEF Good
  <2> QED  BY <1>5, <1>11, <1>12, <1>13, FoldKeeps
<1>15. PICK tail : /\ tail = g[1 .. n] /\ DefinitionInv(lines, tail, Len(lines))
                   /\ ChunkPython(lines) = UpTo(lines, tail, Len(lines), NoSymbol)
  BY <1>1, <1>2, <1>14 DEF n
<1>16. tail \in CutStates(lines) /\ Tiles(lines, tail.chunks, 1, tail.cursor - 1)
  BY <1>15 DEF DefinitionInv
<1>17. \A i \in 1 .. Len(lines) : IsDefinition(lines, i) /\ Fits(lines, i) => OwnChunk(lines, tail.chunks, i)
  BY <1>15 DEF DefinitionInv
<1>18. /\ NoSymbol \in Symbols /\ Len(lines) \in Nat /\ DOMAIN lines = 1 .. Len(lines)
       /\ tail.chunks \in Seq(ChunkRecords) /\ tail.cursor \in Nat /\ 1 <= tail.cursor /\ tail.cursor <= Len(lines) + 1
  BY <1>16, EmptySeq DEF CutStates, Symbols, NoSymbol
<1>19. Tiles(lines, UpTo(lines, tail, Len(lines), NoSymbol), 1, Len(lines))
  BY <1>16, <1>18, UpToTiles
<1>20. PICK b : b = Sized(lines, tail.cursor, Len(lines), NoSymbol)
  OBVIOUS
<1>21. b \in Seq(ChunkRecords)
  <2>1. tail.cursor >= 1 /\ Len(lines) <= Len(lines)
    BY <1>18
  <2>2. Tiles(lines, b, tail.cursor, Len(lines))
    BY <1>18, <1>20, <2>1, SizedTiles
  <2> QED  BY <2>2 DEF Tiles
<1>22. ChunkPython(lines) = tail.chunks \o b
  BY <1>15, <1>20 DEF UpTo
<1>23. \A i \in DOMAIN lines : IsDefinition(lines, i) /\ Fits(lines, i) => OwnChunk(lines, ChunkPython(lines), i)
  BY <1>17, <1>18, <1>21, <1>22, OwnChunksStay
<1> QED  BY <1>15, <1>19, <1>23

-----------------------------------------------------------------------------
LEMMA TilesHold ==
  ASSUME NEW lines \in Seq(SourceLines), NEW c, Tiles(lines, c, 1, Len(lines))
  PROVE  Holds(lines, c)
<1>1. c \in Seq(ChunkRecords)
  BY DEF Tiles
<1>2. DOMAIN lines = 1 .. Len(lines) /\ DOMAIN c = 1 .. Len(c)
  BY <1>1
<1> QED  BY <1>2 DEF Tiles, Holds

(* Whatever kind a file is of, what is cut of it keeps it.                 *)
LEMMA ChunkFileKeeps ==
  ASSUME NEW lines \in Seq(SourceLines), Readable(lines), NEW kind, NEW c, c = ChunkFile(kind, lines)
  PROVE  /\ c \in Seq(ChunkRecords) /\ Holds(lines, c)
         /\ kind = "py" /\ lines # <<>> /\ Parses(lines) => DefinitionsAreWhole(lines, c)
         /\ kind = "md" => \A n \in DOMAIN c : InFence(lines, c[n].from) => SectionTooLong(lines, c[n].from)
<1>1. SUFFICES /\ Tiles(lines, c, 1, Len(lines))
               /\ kind = "py" /\ lines # <<>> /\ Parses(lines) => DefinitionsAreWhole(lines, c)
               /\ kind = "md" => \A n \in 1 .. Len(c) : InFence(lines, c[n].from) => SectionTooLong(lines, c[n].from)
  <2>1. Tiles(lines, c, 1, Len(lines)) => c \in Seq(ChunkRecords)
    BY DEF Tiles
  <2>2. c \in Seq(ChunkRecords) => DOMAIN c = 1 .. Len(c)
    OBVIOUS
  <2> QED  BY <2>1, <2>2, TilesHold
<1>2. CASE lines = <<>>
  <2>1. c = <<>>
    BY <1>2 DEF ChunkFile
  <2>2. Len(lines) = 0 /\ Len(c) = 0
    BY <1>2, <2>1, EmptySeq
  <2>3. Tiles(lines, <<>>, 1, 0)
    BY NoTiles
  <2> QED  BY <1>2, <2>1, <2>2, <2>3
<1>3. CASE lines # <<>> /\ kind = "md"
  <2>1. c = Sections(lines, Headings(lines))
    BY <1>3 DEF ChunkFile
  <2>2. StartsIn(lines, Headings(lines))
    BY HeadingsAreHeads
  <2>3. Tiles(lines, c, 1, Len(lines))
    BY <1>3, <2>1, <2>2, SectionsTile
  <2>4. \A n \in 1 .. Len(c) : InFence(lines, c[n].from) => SectionTooLong(lines, c[n].from)
    BY <1>3, <2>1, ExamplesAreCutWhereTooLong
  <2> QED  BY <1>3, <2>3, <2>4
<1>4. CASE lines # <<>> /\ kind = "rst"
  <2>1. c = Sections(lines, Underlined(lines))
    BY <1>4 DEF ChunkFile
  <2>2. StartsIn(lines, Underlined(lines))
    BY UnderlinedStarts
  <2>3. Tiles(lines, c, 1, Len(lines))
    BY <1>4, <2>1, <2>2, SectionsTile
  <2> QED  BY <1>4, <2>3
<1>5. CASE lines # <<>> /\ kind = "py" /\ Parses(lines)
  <2>1. c = ChunkPython(lines)
    BY <1>5 DEF ChunkFile
  <2>2. Tiles(lines, c, 1, Len(lines)) /\ c \in Seq(ChunkRecords)
    BY <2>1, ChunkPythonTiles DEF Tiles
  <2>3. \A i \in DOMAIN lines : IsDefinition(lines, i) /\ Fits(lines, i) => OwnChunk(lines, c, i)
    BY <2>1, ChunkPythonTiles
  <2>4. DOMAIN c = 1 .. Len(c)
    BY <2>2
  <2>5. DefinitionsAreWhole(lines, c)
    BY <2>3, <2>4 DEF DefinitionsAreWhole, IsDefinition, Fits, OwnChunk
  <2> QED  BY <1>5, <2>2, <2>5
<1>6. CASE lines # <<>> /\ kind \notin {"md", "rst"} /\ ~(kind = "py" /\ Parses(lines))
  <2>1. c = Packed(lines, 1, Len(lines), NoSymbol)
    BY <1>6 DEF ChunkFile
  <2>2. NoSymbol \in Symbols
    BY EmptySeq DEF Symbols, NoSymbol
  <2>3. 1 \in DOMAIN lines /\ Len(lines) \in DOMAIN lines /\ 1 <= Len(lines)
    BY <1>6, EmptySeq
  <2>4. Tiles(lines, c, 1, Len(lines))
    BY <2>1, <2>2, <2>3, PackedTiles
  <2> QED  BY <1>6, <2>4
<1> QED  BY <1>2, <1>3, <1>4, <1>5, <1>6

(* The units are of the file that was read last.                           *)
CutInv == source \in Seq(SourceLines) /\ Readable(source) /\ fileUnits = SourceUnits(suffix, source)

(* The ordinals change no chunk.                                           *)
LEMMA NumberedKeeps ==
  ASSUME NEW c \in Seq(ChunkRecords), NEW named, named = Numbered(c)
  PROVE  [n \in DOMAIN named |-> named[n].chunk] = c
<1>1. DOMAIN named = DOMAIN c /\ \A n \in DOMAIN c : named[n].chunk = c[n]
  BY DEF Numbered
<1>2. c = [n \in DOMAIN c |-> c[n]]
  OBVIOUS
<1> QED  BY <1>1, <1>2

LEMMA CutKeepsTheFile ==
  ASSUME CutInv
  PROVE  ChunksKeepTheFile
<1>1. PICK c : c = ChunkFile(suffix, source)
  OBVIOUS
<1>2. source \in Seq(SourceLines) /\ Readable(source) /\ fileUnits = Numbered(c)
  BY <1>1 DEF CutInv, SourceUnits
<1>3. /\ c \in Seq(ChunkRecords) /\ Holds(source, c)
      /\ suffix = "py" /\ source # <<>> /\ Parses(source) => DefinitionsAreWhole(source, c)
      /\ suffix = "md" => \A n \in DOMAIN c : InFence(source, c[n].from) => SectionTooLong(source, c[n].from)
  BY <1>1, <1>2, ChunkFileKeeps
<1>4. [n \in DOMAIN fileUnits |-> fileUnits[n].chunk] = c
  BY <1>2, <1>3, NumberedKeeps
<1>5. DOMAIN fileUnits = DOMAIN c
  BY <1>2 DEF Numbered
<1> QED  BY <1>3, <1>4, <1>5 DEF ChunksKeepTheFile

LEMMA CutStep ==
  ASSUME CutInv, [ChunksNext]_chunkVars
  PROVE  CutInv'
<1>1. CASE UNCHANGED chunkVars
  BY <1>1 DEF CutInv, chunkVars
<1>2. ASSUME NEW kind \in LineKinds, NEW length \in Lengths, NEW glued \in BOOLEAN, Push(kind, length, glued)
      PROVE  CutInv'
  <2>1. PICK line : line = [kind |-> kind, length |-> IF kind = "blank" THEN 0 ELSE length, glued |-> glued]
    OBVIOUS
  <2>2. length \in Nat
    BY ChunksAssumption
  <2>3. line \in SourceLines
    BY <2>1, <2>2 DEF SourceLines
  <2>4. source \in Seq(SourceLines) /\ source' = Append(source, line)
    BY <1>2, <2>1 DEF CutInv, Push
  <2>5. source' \in Seq(SourceLines)
    BY <2>3, <2>4, AppendProperties
  <2>6. suffix' = suffix /\ fileUnits' = SourceUnits(suffix, source') /\ Readable(source')
    BY <1>2 DEF Push
  <2> QED  BY <2>5, <2>6 DEF CutInv
<1> QED  BY <1>1, <1>2 DEF ChunksNext

(* For any lines of any length, any limits and any kind of file: the       *)
(* chunks are in order, each line that is not blank is in one of them and  *)
(* in no other, none is too long but a line that is, also where the        *)
(* numbers of ast are not those of splitlines; a Python definition that    *)
(* fits is one chunk with its comments and decorators where they are, up   *)
(* to its end; and an example in Markdown is cut only in a section that is *)
(* too long (chunk_lines, _sized, _merge_runts, _split_class,              *)
(* chunk_python, chunk_markdown, chunk_rst, source_and_doc_units).         *)
THEOREM ChunksAlwaysKeepTheFile == ChunksSpec => []ChunksKeepTheFile
<1>1. ChunksInit => CutInv
  <2>1. SUFFICES ASSUME ChunksInit
                 PROVE  CutInv
    OBVIOUS
  <2>2. source = <<>> /\ fileUnits = <<>>
    BY <2>1 DEF ChunksInit
  <2>3. ChunkFile(suffix, <<>>) = <<>>
    BY DEF ChunkFile
  <2>4. Numbered(<<>>) = <<>>
    BY EmptySeq DEF Numbered
  <2>5. <<>> \in Seq(SourceLines)
    BY EmptySeq
  <2>6. Readable(<<>>)
    BY DEF Readable
  <2> QED  BY <2>2, <2>3, <2>4, <2>5, <2>6 DEF CutInv, SourceUnits
<1>2. CutInv /\ [ChunksNext]_chunkVars => CutInv'
  BY CutStep
<1>3. CutInv => ChunksKeepTheFile
  BY CutKeepsTheFile
<1> QED  BY <1>1, <1>2, <1>3, PTL DEF ChunksSpec
=============================================================================
