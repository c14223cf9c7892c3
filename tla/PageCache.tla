------------------------------ MODULE PageCache ------------------------------
(***************************************************************************)
(* The walk of a paginated GitHub listing (paginate of github/client.py)   *)
(* over the HTTP cache on disk (github/cache.py).                          *)
(*                                                                         *)
(* A run walks the Link headers from the first page.  A page comes from    *)
(* the cache while its entry is young enough, and else from a request that *)
(* is conditional on the entry's ETag.  An entry is two files, the body    *)
(* written before the metadata; the run may be killed in the middle of     *)
(* either.  The listing changes at any time, its pages back to what they   *)
(* were included, and its links may go round in a circle.                  *)
(***************************************************************************)
EXTENDS Integers, Sequences, FiniteSets

CONSTANTS
  Urls,         \* pages a link may lead to
  First,        \* the page a walk begins with
  Versions,     \* what a page may hold; its ETag with it
  LinkOf,       \* rel="next" of each page in each version, or NoUrl
  NoUrl,
  MaxAttempts,  \* max_attempts
  MaxChanges,   \* changes of the listing
  MaxDeaths     \* runs killed

Absent == "absent"
Torn == "torn"
NoEntry == [etag |-> Absent, next |-> Absent, fresh |-> FALSE]
TornEntry == [NoEntry EXCEPT !.etag = Torn]
Meta == [etag : Versions, next : Urls \cup {NoUrl}, fresh : BOOLEAN]
Page == [url : Urls, body : Versions, next : Urls \cup {NoUrl}]

ASSUME CacheAssumption ==
  /\ First \in Urls /\ NoUrl \notin Urls /\ IsFiniteSet(Urls)
  /\ Absent \notin Versions /\ Torn \notin Versions
  /\ LinkOf \in [Urls -> [Versions -> Urls \cup {NoUrl}]]
  /\ MaxAttempts \in Nat \ {0} /\ MaxChanges \in Nat /\ MaxDeaths \in Nat

VARIABLES
  site,      \* the version of each page on GitHub
  metaFile,  \* the metadata files
  bodyFile,  \* the body files
  walkAt,    \* where the run is
  url,       \* the page it is on
  visited,   \* the pages it has walked
  cached,    \* the entry it read for this page, its body included
  attempt,   \* requests of this page that were answered with a delay
  walked,    \* the pages yielded
  \* bookkeeping
  pure,      \* this walk met no change of the listing and served nothing by age
  ended,     \* the last walk went to the end
  cut,       \* pages with an entry a death left half overwritten
  changes,   \* how often each page changed
  paid,      \* how often each page was answered with its body
  cacheDeaths

fileVars == <<metaFile, bodyFile>>
walkVars == <<url, visited, cached, attempt, walked>>
countVars == <<changes, paid, cacheDeaths>>
cacheVars == <<site, fileVars, walkAt, walkVars, pure, ended, cut, countVars>>

NoPage == [meta |-> NoEntry, body |-> Absent]

CacheTypeOK ==
  /\ site \in [Urls -> Versions]
  /\ metaFile \in [Urls -> Meta \cup {NoEntry, TornEntry}]
  /\ bodyFile \in [Urls -> Versions \cup {Absent, Torn}]
  /\ walkAt \in {"idle", "page", "send", "touch", "put_body", "put_meta"}
  /\ url \in Urls \cup {NoUrl}
  /\ visited \subseteq Urls
  /\ cached \in [meta : Meta \cup {NoEntry}, body : Versions \cup {Absent, Torn}]
  /\ attempt \in 0 .. MaxAttempts - 1
  /\ walked \in Seq(Page)
  /\ pure \in BOOLEAN /\ ended \in BOOLEAN
  /\ cut \subseteq Urls
  /\ changes \in [Urls -> Nat] /\ paid \in [Urls -> Nat] /\ cacheDeaths \in 0 .. MaxDeaths

CacheInit ==
  /\ site \in [Urls -> Versions]
  /\ metaFile = [u \in Urls |-> NoEntry]
  /\ bodyFile = [u \in Urls |-> Absent]
  /\ walkAt = "idle"
  /\ url = NoUrl
  /\ visited = {}
  /\ cached = NoPage
  /\ attempt = 0
  /\ walked = <<>>
  /\ pure = FALSE /\ ended = FALSE
  /\ cut = {}
  /\ changes = [u \in Urls |-> 0]
  /\ paid = [u \in Urls |-> 0]
  /\ cacheDeaths = 0

-----------------------------------------------------------------------------
(* HttpCache.get: nothing unless both files are there and the metadata can *)
(* be read.  A body that was cut off reads like any other.                 *)
Entry(u) ==
  IF metaFile[u] \in Meta /\ bodyFile[u] # Absent
    THEN [meta |-> metaFile[u], body |-> bodyFile[u]]
    ELSE NoPage

StartWalk ==
  /\ walkAt = "idle"
  /\ walkAt' = "page"
  /\ url' = First
  /\ visited' = {}
  /\ cached' = NoPage
  /\ attempt' = 0
  /\ walked' = <<>>
  /\ pure' = TRUE
  /\ ended' = FALSE
  /\ UNCHANGED <<site, fileVars, cut, countVars>>

(* The run raises, or the caller has all the items it asked for.           *)
Leave ==
  /\ walkAt' = "idle"
  /\ ended' = FALSE

(***************************************************************************)
(* The page is yielded and its link followed.  A body that is no JSON list *)
(* raises instead, and so ends the run.                                    *)
(***************************************************************************)
Yield(body, next) ==
  IF body = Torn
    THEN Leave /\ UNCHANGED <<url, walked>>
    ELSE /\ walked' = Append(walked, [url |-> url, body |-> body, next |-> next])
         /\ url' = next
         /\ walkAt' = "page"
         /\ UNCHANGED ended

(* The listing ends where the link does, or where it has been already.     *)
AtEnd == url = NoUrl \/ url \in visited

EndWalk ==
  /\ walkAt = "page"
  /\ AtEnd
  /\ walkAt' = "idle"
  /\ ended' = TRUE
  /\ UNCHANGED <<site, fileVars, walkVars, pure, cut, countVars>>

EnoughItems ==
  /\ walkAt = "page"
  /\ walked # <<>>
  /\ Leave
  /\ UNCHANGED <<site, fileVars, walkVars, pure, cut, countVars>>

(* An entry younger than max_age is served without a request.              *)
ServeByAge ==
  /\ walkAt = "page"
  /\ ~AtEnd
  /\ Entry(url).meta.fresh
  /\ visited' = visited \cup {url}
  /\ Yield(Entry(url).body, Entry(url).meta.next)
  /\ pure' = FALSE
  /\ UNCHANGED <<site, fileVars, cached, attempt, cut, countVars>>

Request ==
  /\ walkAt = "page"
  /\ ~AtEnd
  /\ ~Entry(url).meta.fresh
  /\ visited' = visited \cup {url}
  /\ cached' = Entry(url)
  /\ attempt' = 0
  /\ walkAt' = "send"
  /\ UNCHANGED <<site, fileVars, url, walked, pure, ended, cut, countVars>>

(***************************************************************************)
(* The answers to a request.                                               *)
(***************************************************************************)
NotModified ==
  /\ walkAt = "send"
  /\ cached.meta.etag = site[url]
  /\ walkAt' = "touch"
  /\ UNCHANGED <<site, fileVars, walkVars, pure, ended, cut, countVars>>

(* Mutant: the ETag of the entry is not sent, so the body comes again.     *)
AnsweredUnconditionally ==
  /\ walkAt = "send"
  /\ cached' = [meta |-> [etag |-> site[url], next |-> LinkOf[url][site[url]], fresh |-> TRUE],
                body |-> site[url]]
  /\ paid' = [paid EXCEPT ![url] = @ + 1]
  /\ walkAt' = "put_body"
  /\ UNCHANGED <<site, fileVars, url, visited, attempt, walked, pure, ended, cut,
                 changes, cacheDeaths>>

(* A 200: what is to be stored and served is the answer.                   *)
Answered ==
  /\ walkAt = "send"
  /\ cached.meta.etag # site[url]
  /\ cached' = [meta |-> [etag |-> site[url], next |-> LinkOf[url][site[url]], fresh |-> TRUE],
                body |-> site[url]]
  /\ paid' = [paid EXCEPT ![url] = @ + 1]
  /\ walkAt' = "put_body"
  /\ UNCHANGED <<site, fileVars, url, visited, attempt, walked, pure, ended, cut,
                 changes, cacheDeaths>>

(* Mutant: the count starts over after the last attempt.                   *)
RetryStartsOver ==
  /\ walkAt = "send"
  /\ attempt' = (attempt + 1) % MaxAttempts
  /\ UNCHANGED <<site, fileVars, walkAt, url, visited, cached, walked, pure, ended, cut,
                 countVars>>

(* A transport error, a 5xx, a rate limit that names a wait below the      *)
(* ceiling: once more after a pause.                                       *)
Retry ==
  /\ walkAt = "send"
  /\ attempt < MaxAttempts - 1
  /\ attempt' = attempt + 1
  /\ UNCHANGED <<site, fileVars, walkAt, url, visited, cached, walked, pure, ended, cut,
                 countVars>>

(* The last attempt, a 404, a refusal, or a wait past the ceiling.         *)
RequestFails ==
  /\ walkAt = "send"
  /\ Leave
  /\ UNCHANGED <<site, fileVars, walkVars, pure, cut, countVars>>

(***************************************************************************)
(* The files.  touch() writes the metadata again with a new date; put()    *)
(* writes the body, then the metadata.                                     *)
(***************************************************************************)
(* A 304 may carry a Link header; without one the entry's link stands.     *)
Touch ==
  /\ walkAt = "touch"
  /\ metaFile' = [metaFile EXCEPT ![url].fresh = TRUE]
  /\ LET header == LinkOf[url][cached.meta.etag]
     IN  \E next \in {header, NoUrl} :
           Yield(cached.body, IF next # NoUrl THEN next ELSE cached.meta.next)
  /\ UNCHANGED <<site, bodyFile, visited, cached, attempt, pure, cut, countVars>>

PutBody ==
  /\ walkAt = "put_body"
  /\ bodyFile' = [bodyFile EXCEPT ![url] = cached.body]
  /\ walkAt' = "put_meta"
  /\ UNCHANGED <<site, metaFile, walkVars, pure, ended, cut, countVars>>

(* Mutant: the link of the entry that was there is kept.                   *)
PutMetaKeepsLink ==
  /\ walkAt = "put_meta"
  /\ metaFile' = [metaFile EXCEPT
        ![url] = IF @ \in Meta THEN [cached.meta EXCEPT !.next = metaFile[url].next]
                               ELSE cached.meta]
  /\ cut' = cut \ {url}
  /\ Yield(cached.body, cached.meta.next)
  /\ UNCHANGED <<site, bodyFile, visited, cached, attempt, pure, countVars>>

PutMeta ==
  /\ walkAt = "put_meta"
  /\ metaFile' = [metaFile EXCEPT ![url] = cached.meta]
  /\ cut' = cut \ {url}
  /\ Yield(cached.body, cached.meta.next)
  /\ UNCHANGED <<site, bodyFile, visited, cached, attempt, pure, countVars>>

-----------------------------------------------------------------------------
(***************************************************************************)
(* The run is killed.  A file it was writing may be left cut off, and an   *)
(* entry that was there before with one file of the new one.               *)
(***************************************************************************)
DieWalking ==
  /\ walkAt # "idle"
  /\ cacheDeaths < MaxDeaths
  /\ cacheDeaths' = cacheDeaths + 1
  /\ Leave
  /\ bodyFile' \in {bodyFile} \cup
       (IF walkAt = "put_body" THEN {[bodyFile EXCEPT ![url] = Torn]} ELSE {})
  /\ metaFile' \in {metaFile} \cup
       (IF walkAt \in {"put_meta", "touch"} THEN {[metaFile EXCEPT ![url] = TornEntry]} ELSE {})
  /\ cut' = IF walkAt \in {"put_body", "put_meta"} /\ metaFile'[url] \in Meta
              THEN cut \cup {url} ELSE cut
  /\ UNCHANGED <<site, walkVars, pure, changes, paid>>

SiteChanges(u) ==
  /\ \E v \in Versions \ {site[u]} : site' = [site EXCEPT ![u] = v]
  /\ changes[u] < MaxChanges
  /\ changes' = [changes EXCEPT ![u] = @ + 1]
  /\ pure' = FALSE
  /\ UNCHANGED <<fileVars, walkAt, walkVars, ended, cut, paid, cacheDeaths>>

(* The entry's age passes max_age.                                         *)
Expire(u) ==
  /\ metaFile[u] \in Meta
  /\ metaFile[u].fresh
  /\ metaFile' = [metaFile EXCEPT ![u].fresh = FALSE]
  /\ UNCHANGED <<site, bodyFile, walkAt, walkVars, pure, ended, cut, countVars>>

WalkStep ==
  \/ EndWalk \/ EnoughItems \/ ServeByAge \/ Request
  \/ NotModified \/ Answered \/ Retry \/ RequestFails
  \/ Touch \/ PutBody \/ PutMeta

CacheNext ==
  \/ StartWalk
  \/ WalkStep
  \/ DieWalking
  \/ \E u \in Urls : SiteChanges(u)
  \/ \E u \in Urls : Expire(u)

CacheSpec == CacheInit /\ [][CacheNext]_cacheVars

(* A run goes on until it is over; every request has a time limit.         *)
FairCacheSpec == CacheSpec /\ WF_cacheVars(WalkStep)

-----------------------------------------------------------------------------
(***************************************************************************)
(* Safety.                                                                 *)
(***************************************************************************)

(* A page is served whole: its items and its link come from one answer of  *)
(* GitHub, also when it comes from the cache and whatever runs were killed *)
(* before, unless one was killed while it overwrote this very entry.  So a *)
(* walk that went to the end while nothing changed is the listing, page by *)
(* page, and stops where its links end or turn back; and no walk yields a  *)
(* page twice.                                                             *)
WalkIsTheListing ==
  LET whole(p) == p.url \notin cut => p.next = LinkOf[p.url][p.body]
      upToDate(p) == p.body = site[p.url]
  IN  /\ \A i \in 1 .. Len(walked) : whole(walked[i])
      /\ \A i, j \in 1 .. Len(walked) : walked[i].url = walked[j].url => i = j
      /\ ended /\ pure /\ cut = {} =>
           /\ \A i \in 1 .. Len(walked) : upToDate(walked[i])
           /\ walked[1].url = First
           /\ \A i \in 1 .. Len(walked) - 1 : walked[i].next = walked[i + 1].url
           /\ walked[Len(walked)].next \in visited \cup {NoUrl}

(* The rate limit is not spent twice: a page is answered in full at most   *)
(* once for each version it has had, over all runs, and once more for each *)
(* run that was killed.                                                    *)
PaidOnce == \A u \in Urls : paid[u] <= 1 + changes[u] + cacheDeaths

(***************************************************************************)
(* Liveness, under FairCacheSpec.                                          *)
(***************************************************************************)

(* A walk ends, although its links may go in a circle and GitHub may fail  *)
(* every request.                                                          *)
WalkEnds == walkAt # "idle" ~> walkAt = "idle"

(***************************************************************************)
(* What the documentation says and the code does not do.                   *)
(***************************************************************************)

(* "An interrupted write is a miss and never a body that does not match    *)
(* its metadata" (put of github/cache.py): what is served is one answer.   *)
BodyMatchesMetadata ==
  \A i \in 1 .. Len(walked) : walked[i].next = LinkOf[walked[i].url][walked[i].body]
=============================================================================
