-------------------------- MODULE FileStoreProofs --------------------------
(***************************************************************************)
(* Proofs about FileStore and the SettingsCache its retention reads, for   *)
(* any files, goroutines, values and lives of the key.  What is known of   *)
(* the setting alone comes first and carries over, since each step of the  *)
(* files is a step of the setting or leaves it as it is.                   *)
(***************************************************************************)
EXTENDS FileStore, TLAPS

(* The setting. *)

\* What waits to fill the key is no older than the wait, what the key holds no
\* older than its life so far and that wait.
Aged ==
  /\ \A r \in Readers : reading[r] = "fill" => answer[r] \in Values /\ since[answer[r]] <= waited[r]
  /\ cached # NoValue => left > 0 /\ since[cached] + left <= TTL + Patience

\* Without a doubt, what waits to fill the key is the setting, and so is the
\* key, unless a write is about to delete it.
Undoubted ==
  /\ \A r \in Readers : firm[r] # NoValue => firm[r] = setting /\ \A w \in Writers : writing[w] = "idle"
  /\ ~doubt =>
       /\ \A r \in Readers : reading[r] = "fill" => answer[r] = setting
       /\ cached \in {NoValue, setting} \/ \E w \in Writers : writing[w] = "del"

\* The setting is in force now.
Current == since[setting] = 0

SettingInv == SettingTypeOK /\ Aged /\ Undoubted /\ Current /\ FreshUnlessDoubted

LEMMA SettingInitInv == SettingInit => SettingInv
<1> SUFFICES ASSUME SettingInit PROVE SettingInv
  OBVIOUS
<1>1. /\ Cap \in Nat /\ 0 \in 0 .. Cap /\ Cap \in 0 .. Cap
      /\ 0 \in 0 .. TTL /\ TTL \in 0 .. TTL /\ 0 \in 0 .. Patience
  BY CacheConstants DEF Cap
<1>2. SettingTypeOK
  BY <1>1 DEF SettingInit, SettingTypeOK
<1>3. Undoubted /\ Current /\ FreshUnlessDoubted
  BY DEF SettingInit, Undoubted, Current, FreshUnlessDoubted
<1>4. Aged
  <2>1. cached # NoValue => cached = setting /\ left = TTL /\ since[setting] = 0
    BY DEF SettingInit
  <2>2. TTL > 0 /\ 0 + TTL <= TTL + Patience
    BY CacheConstants
  <2> QED
    BY <2>1, <2>2 DEF SettingInit, Aged
<1> QED
  BY <1>2, <1>3, <1>4 DEF SettingInv

LEMMA ReplacedKeeps ==
  ASSUME SettingInv, NEW v \in Values, Replaced(v),
         writing' \in [Writers -> {"idle", "del"}], doubt' \in BOOLEAN,
         ~doubt' => /\ \A r \in Readers : reading[r] # "fill"
                    /\ \E w \in Writers : writing'[w] = "del"
  PROVE  SettingInv'
<1>0. TTL \in Nat /\ Patience \in Nat /\ Cap = TTL + Patience + 1
  BY CacheConstants DEF Cap
<1>1. since' \in [Values -> 0 .. Cap]
  BY <1>0 DEF Replaced, SettingInv, SettingTypeOK
<1>2. SettingTypeOK'
  BY <1>1 DEF Replaced, SettingInv, SettingTypeOK
<1>3. \A u \in Values : since'[u] \in Nat /\ since'[u] <= since[u]
  BY <1>0 DEF Replaced, SettingInv, SettingTypeOK
<1>4. Aged'
  <2>1. ASSUME NEW r \in Readers, reading[r] = "fill"
        PROVE  answer[r] \in Values /\ since'[answer[r]] <= waited[r]
    BY <1>0, <1>3, <2>1 DEF SettingInv, Aged, SettingTypeOK
  <2>2. ASSUME cached # NoValue
        PROVE  left > 0 /\ since'[cached] + left <= TTL + Patience
    BY <1>0, <1>3, <2>2 DEF SettingInv, Aged, SettingTypeOK
  <2> QED
    BY <2>1, <2>2 DEF Aged, Replaced
<1>5. \A r \in Readers : firm'[r] = NoValue
  BY DEF Replaced
<1>6. Undoubted' /\ FreshUnlessDoubted'
  BY <1>5 DEF Undoubted, FreshUnlessDoubted, Replaced
<1>7. Current'
  BY DEF Replaced, Current, SettingInv, SettingTypeOK
<1> QED
  BY <1>2, <1>4, <1>6, <1>7 DEF SettingInv

LEMMA WriteKeeps ==
  ASSUME SettingInv, NEW w \in Writers, WriteStep(w)
  PROVE  SettingInv'
<1>1. ASSUME NEW v \in Values, Upsert(w, v)
      PROVE  SettingInv'
  <2>1. /\ Replaced(v) /\ writing' = [writing EXCEPT ![w] = "del"]
        /\ doubt' = (doubt \/ \E r \in Readers : reading[r] = "fill")
    BY <1>1 DEF Upsert
  <2>2. writing' \in [Writers -> {"idle", "del"}] /\ writing'[w] = "del"
    BY <2>1 DEF SettingInv, SettingTypeOK
  <2>3. doubt' \in BOOLEAN
    BY <2>1 DEF SettingInv, SettingTypeOK
  <2>4. ~doubt' => \A r \in Readers : reading[r] # "fill"
    BY <2>1
  <2> QED
    BY <2>1, <2>2, <2>3, <2>4, ReplacedKeeps
<1>2. ASSUME NEW v \in Values, UpsertUnacked(w, v)
      PROVE  SettingInv'
  <2>1. Replaced(v) /\ writing' = writing /\ doubt' = TRUE
    BY <1>2 DEF UpsertUnacked
  <2>2. writing' \in [Writers -> {"idle", "del"}]
    BY <2>1 DEF SettingInv, SettingTypeOK
  <2> QED
    BY <2>1, <2>2, ReplacedKeeps
<1>3. CASE Invalidate(w)
  <2>1. SettingTypeOK'
    BY <1>3, CacheConstants DEF Invalidate, SettingInv, SettingTypeOK
  <2>2. Aged'
    BY <1>3 DEF Invalidate, SettingInv, Aged
  <2>3. \A u \in Writers : writing[u] = "idle" => writing'[u] = "idle"
    BY <1>3 DEF Invalidate, SettingInv, SettingTypeOK
  <2>4. Undoubted' /\ FreshUnlessDoubted'
    BY <1>3, <2>3 DEF Invalidate, SettingInv, Undoubted, FreshUnlessDoubted
  <2>5. Current'
    BY <1>3 DEF Invalidate, SettingInv, Current
  <2> QED
    BY <2>1, <2>2, <2>4, <2>5 DEF SettingInv
<1>4. CASE InvalidateFails(w)
  <2>1. SettingTypeOK'
    BY <1>4 DEF InvalidateFails, SettingInv, SettingTypeOK
  <2>2. Aged'
    BY <1>4 DEF InvalidateFails, SettingInv, Aged
  <2>3. \A u \in Writers : writing[u] = "idle" => writing'[u] = "idle"
    BY <1>4 DEF InvalidateFails, SettingInv, SettingTypeOK
  <2>4. Undoubted' /\ FreshUnlessDoubted'
    BY <1>4, <2>3 DEF InvalidateFails, SettingInv, Undoubted, FreshUnlessDoubted
  <2>5. Current'
    BY <1>4 DEF InvalidateFails, SettingInv, Current
  <2> QED
    BY <2>1, <2>2, <2>4, <2>5 DEF SettingInv
<1> QED
  BY <1>1, <1>2, <1>3, <1>4 DEF WriteStep

LEMMA ReadKeeps ==
  ASSUME SettingInv, NEW r \in Readers, BeginRead(r) \/ ReadStep(r) \/ EndRead(r)
  PROVE  SettingInv'
<1>0. TTL \in Nat \ {0} /\ Patience \in Nat /\ Cap = TTL + Patience + 1 /\ NoValue \notin Values
  BY CacheConstants DEF Cap
<1>1. CASE BeginRead(r)
  <2>1. SettingTypeOK'
    BY <1>1 DEF BeginRead, SettingInv, SettingTypeOK
  <2>2. \A u \in Readers : /\ reading'[u] \in {"fill", "got"} => reading[u] = reading'[u] /\ u # r
                           /\ u # r => firm'[u] = firm[u]
    BY <1>1 DEF BeginRead, SettingInv, SettingTypeOK
  <2>3. Aged'
    BY <1>1, <2>2 DEF BeginRead, SettingInv, Aged
  <2>4. firm'[r] # NoValue => firm'[r] = setting /\ \A w \in Writers : writing[w] = "idle"
    BY <1>1 DEF BeginRead, SettingInv, SettingTypeOK
  <2>5. Undoubted' /\ FreshUnlessDoubted'
    BY <1>1, <2>2, <2>4 DEF BeginRead, SettingInv, Undoubted, FreshUnlessDoubted
  <2>6. Current'
    BY <1>1 DEF BeginRead, SettingInv, Current
  <2> QED
    BY <2>1, <2>3, <2>5, <2>6 DEF SettingInv
<1>2. CASE CacheHit(r)
  <2>1. SettingTypeOK'
    BY <1>2 DEF CacheHit, SettingInv, SettingTypeOK
  <2>2. \A u \in Readers : /\ u # r => reading'[u] = reading[u] /\ answer'[u] = answer[u]
                           /\ u = r => reading'[u] = "got" /\ answer'[u] = cached
    BY <1>2 DEF CacheHit, SettingInv, SettingTypeOK
  <2>3. Aged'
    BY <1>2, <2>2 DEF CacheHit, SettingInv, Aged
  <2>4. firm[r] # NoValue /\ ~doubt => cached = firm[r]
    BY <1>2 DEF CacheHit, SettingInv, Undoubted
  <2>5. Undoubted' /\ FreshUnlessDoubted'
    BY <1>2, <2>2, <2>4 DEF CacheHit, SettingInv, Undoubted, FreshUnlessDoubted
  <2>6. Current'
    BY <1>2 DEF CacheHit, SettingInv, Current
  <2> QED
    BY <2>1, <2>3, <2>5, <2>6 DEF SettingInv
<1>3. CASE CacheMiss(r) \/ QueryFails(r)
  <2>1. SettingTypeOK'
    BY <1>3 DEF CacheMiss, QueryFails, SettingInv, SettingTypeOK
  <2>2. \A u \in Readers : reading'[u] \in {"fill", "got"} => reading[u] = reading'[u]
    BY <1>3 DEF CacheMiss, QueryFails, SettingInv, SettingTypeOK
  <2>3. Aged'
    BY <1>3, <2>2 DEF CacheMiss, QueryFails, SettingInv, Aged
  <2>4. Undoubted' /\ FreshUnlessDoubted'
    BY <1>3, <2>2 DEF CacheMiss, QueryFails, SettingInv, Undoubted, FreshUnlessDoubted
  <2>5. Current'
    BY <1>3 DEF CacheMiss, QueryFails, SettingInv, Current
  <2> QED
    BY <2>1, <2>3, <2>4, <2>5 DEF SettingInv
<1>4. CASE QuerySetting(r)
  <2>1. SettingTypeOK'
    BY <1>0, <1>4 DEF QuerySetting, SettingInv, SettingTypeOK
  <2>2. \A u \in Readers : /\ u # r => /\ reading'[u] = reading[u] /\ answer'[u] = answer[u]
                                       /\ waited'[u] = waited[u]
                           /\ u = r => reading'[u] = "fill" /\ answer'[u] = setting /\ waited'[u] = 0
    BY <1>4 DEF QuerySetting, SettingInv, SettingTypeOK
  <2>3. since[setting] = 0
    BY DEF SettingInv, Current
  <2>4. Aged'
    BY <1>4, <2>2, <2>3 DEF QuerySetting, SettingInv, Aged, SettingTypeOK
  <2>5. Undoubted' /\ FreshUnlessDoubted'
    BY <1>4, <2>2 DEF QuerySetting, SettingInv, Undoubted, FreshUnlessDoubted
  <2>6. Current'
    BY <1>4 DEF QuerySetting, SettingInv, Current
  <2> QED
    BY <2>1, <2>4, <2>5, <2>6 DEF SettingInv
<1>5. CASE FillCache(r)
  <2>1. answer[r] \in Values /\ since[answer[r]] <= waited[r] /\ waited[r] <= Patience
    BY <1>0, <1>5 DEF FillCache, SettingInv, Aged, SettingTypeOK
  <2>2. SettingTypeOK'
    BY <1>0, <1>5, <2>1 DEF FillCache, SettingInv, SettingTypeOK
  <2>3. \A u \in Readers : /\ u # r => reading'[u] = reading[u]
                           /\ u = r => reading'[u] = "got"
    BY <1>5 DEF FillCache, SettingInv, SettingTypeOK
  <2>4. since[cached'] + left' <= TTL + Patience /\ left' > 0
    BY <1>0, <1>5, <2>1 DEF FillCache, SettingInv, SettingTypeOK
  <2>5. Aged'
    BY <1>5, <2>3, <2>4 DEF FillCache, SettingInv, Aged
  <2>6. Undoubted' /\ FreshUnlessDoubted'
    BY <1>5, <2>3 DEF FillCache, SettingInv, Undoubted, FreshUnlessDoubted
  <2>7. Current'
    BY <1>5 DEF FillCache, SettingInv, Current
  <2> QED
    BY <2>2, <2>5, <2>6, <2>7 DEF SettingInv
<1>6. CASE FillFails(r)
  <2>1. SettingTypeOK'
    BY <1>6 DEF FillFails, SettingInv, SettingTypeOK
  <2>2. \A u \in Readers : /\ u # r => reading'[u] = reading[u]
                           /\ u = r => reading'[u] = "got"
    BY <1>6 DEF FillFails, SettingInv, SettingTypeOK
  <2>3. Aged'
    BY <1>6, <2>2 DEF FillFails, SettingInv, Aged
  <2>4. Undoubted' /\ FreshUnlessDoubted'
    BY <1>6, <2>2 DEF FillFails, SettingInv, Undoubted, FreshUnlessDoubted
  <2>5. Current'
    BY <1>6 DEF FillFails, SettingInv, Current
  <2> QED
    BY <2>1, <2>3, <2>4, <2>5 DEF SettingInv
<1>7. CASE EndRead(r)
  <2>1. SettingTypeOK'
    BY <1>7 DEF EndRead, SettingInv, SettingTypeOK
  <2>2. \A u \in Readers : /\ u # r => /\ reading'[u] = reading[u] /\ answer'[u] = answer[u]
                                       /\ firm'[u] = firm[u]
                           /\ u = r => reading'[u] = "idle" /\ firm'[u] = NoValue
    BY <1>7 DEF EndRead, SettingInv, SettingTypeOK
  <2>3. Aged'
    BY <1>7, <2>2 DEF EndRead, SettingInv, Aged
  <2>4. Undoubted' /\ FreshUnlessDoubted'
    BY <1>7, <2>2 DEF EndRead, SettingInv, Undoubted, FreshUnlessDoubted
  <2>5. Current'
    BY <1>7 DEF EndRead, SettingInv, Current
  <2> QED
    BY <2>1, <2>3, <2>4, <2>5 DEF SettingInv
<1> QED
  BY <1>1, <1>2, <1>3, <1>4, <1>5, <1>6, <1>7 DEF ReadStep

LEMMA TickKeeps ==
  ASSUME SettingInv, Tick
  PROVE  SettingInv'
<1>0. TTL \in Nat \ {0} /\ Patience \in Nat /\ Cap = TTL + Patience + 1 /\ NoValue \notin Values
  BY CacheConstants DEF Cap
<1>1. waited' \in [Readers -> 0 .. Patience]
  <2>1. ASSUME NEW r \in Readers
        PROVE  (IF reading[r] = "fill" THEN waited[r] + 1 ELSE waited[r]) \in 0 .. Patience
    BY <1>0, <2>1 DEF Tick, SettingInv, SettingTypeOK
  <2> QED
    BY <2>1 DEF Tick
<1>2. since' \in [Values -> 0 .. Cap]
  <2>1. ASSUME NEW v \in Values
        PROVE  (IF v = setting \/ since[v] = Cap THEN since[v] ELSE since[v] + 1) \in 0 .. Cap
    BY <1>0, <2>1 DEF SettingInv, SettingTypeOK
  <2> QED
    BY <2>1 DEF Tick
<1>3. left' \in 0 .. TTL /\ cached' \in Values \cup {NoValue}
  BY <1>0 DEF Tick, SettingInv, SettingTypeOK
<1>4. SettingTypeOK'
  BY <1>1, <1>2, <1>3 DEF Tick, SettingInv, SettingTypeOK
<1>5. ASSUME NEW v \in Values
      PROVE  since'[v] \in Nat /\ since'[v] <= since[v] + 1 /\ (v = setting => since'[v] = since[v])
  BY <1>0 DEF Tick, SettingInv, SettingTypeOK
<1>6. ASSUME NEW r \in Readers, reading[r] = "fill"
      PROVE  answer[r] \in Values /\ since'[answer[r]] <= waited'[r]
  <2>1. answer[r] \in Values /\ since[answer[r]] <= waited[r]
    BY <1>6 DEF SettingInv, Aged
  <2>2. waited'[r] = waited[r] + 1
    BY <1>6 DEF Tick
  <2>3. since[answer[r]] \in Nat /\ waited[r] \in Nat
    BY <1>0, <2>1 DEF SettingInv, SettingTypeOK
  <2> QED
    BY <1>5, <2>1, <2>2, <2>3
<1>7. ASSUME cached' # NoValue
      PROVE  left' > 0 /\ since'[cached'] + left' <= TTL + Patience
  <2>1. cached' = cached /\ left > 1 /\ left' = left - 1 /\ cached \in Values
    BY <1>0, <1>7 DEF Tick, SettingInv, SettingTypeOK
  <2>2. since[cached] + left <= TTL + Patience
    BY <1>0, <2>1 DEF SettingInv, Aged
  <2>3. since[cached] \in Nat /\ left \in Nat
    BY <1>0, <2>1 DEF SettingInv, SettingTypeOK
  <2> QED
    BY <1>0, <1>5, <2>1, <2>2, <2>3
<1>8. Aged'
  BY <1>6, <1>7 DEF Aged, Tick
<1>9. Undoubted' /\ FreshUnlessDoubted'
  BY DEF Tick, SettingInv, Undoubted, FreshUnlessDoubted
<1>10. Current'
  BY <1>5 DEF SettingInv, Current, Tick, SettingTypeOK
<1> QED
  BY <1>4, <1>8, <1>9, <1>10 DEF SettingInv

LEMMA CrashKeeps ==
  ASSUME SettingInv, SettingCrash
  PROVE  SettingInv'
<1>1. SettingTypeOK'
  BY DEF SettingCrash, SettingInv, SettingTypeOK
<1>2. Aged' /\ FreshUnlessDoubted'
  BY DEF SettingCrash, SettingInv, Aged, FreshUnlessDoubted
<1>3. Undoubted'
  BY DEF SettingCrash, SettingInv, Undoubted
<1>4. Current'
  BY DEF SettingCrash, SettingInv, Current
<1> QED
  BY <1>1, <1>2, <1>3, <1>4 DEF SettingInv

\* Each step of the setting keeps its invariant, in whatever system it is taken.
LEMMA SettingNextInv == SettingInv /\ [SettingNext]_settingVars => SettingInv'
<1> SUFFICES ASSUME SettingInv, [SettingNext]_settingVars PROVE SettingInv'
  OBVIOUS
<1>1. CASE SettingNext
  BY <1>1, ReadKeeps, WriteKeeps, TickKeeps, CrashKeeps DEF SettingNext
<1>2. CASE UNCHANGED settingVars
  BY <1>2 DEF settingVars, SettingInv, SettingTypeOK, Aged, Undoubted, FreshUnlessDoubted, Current
<1> QED
  BY <1>1, <1>2

\* Each answer is as old as the invariant lets the key and the fill be.
LEMMA SettingStepBounded ==
  ASSUME SettingInv, [SettingNext]_settingVars
  PROVE  \A r \in Readers : reading[r] # "got" /\ reading'[r] = "got"
           => since[answer'[r]] <= TTL + Patience
<1>0. TTL \in Nat \ {0} /\ Patience \in Nat /\ Cap = TTL + Patience + 1 /\ NoValue \notin Values
  BY CacheConstants DEF Cap
<1>1. SUFFICES ASSUME NEW r \in Readers, reading[r] # "got", reading'[r] = "got"
               PROVE  since[answer'[r]] <= TTL + Patience
  OBVIOUS
<1>2. CacheHit(r) \/ FillCache(r) \/ FillFails(r)
  <2>1. \A u \in Readers : BeginRead(u) \/ ReadStep(u) \/ EndRead(u) => u = r
    <3>1. SUFFICES ASSUME NEW u \in Readers, BeginRead(u) \/ ReadStep(u) \/ EndRead(u), u # r
                   PROVE  reading'[r] = reading[r]
      BY <1>1
    <3> QED
      BY <3>1 DEF ReadStep, BeginRead, CacheHit, CacheMiss, QuerySetting, QueryFails,
                  FillCache, FillFails, EndRead, SettingInv, SettingTypeOK
  <2>2. ~(\E w \in Writers : WriteStep(w))
    BY <1>1 DEF WriteStep, Upsert, UpsertUnacked, Replaced, Invalidate, InvalidateFails
  <2>3. ~Tick /\ ~SettingCrash /\ ~UNCHANGED settingVars
    BY <1>1 DEF Tick, SettingCrash, settingVars
  <2>4. BeginRead(r) \/ ReadStep(r) \/ EndRead(r)
    BY <2>1, <2>2, <2>3 DEF SettingNext
  <2>5. ~BeginRead(r) /\ ~EndRead(r) /\ ~CacheMiss(r) /\ ~QuerySetting(r) /\ ~QueryFails(r)
    BY <1>1 DEF BeginRead, EndRead, CacheMiss, QuerySetting, QueryFails, SettingInv, SettingTypeOK
  <2> QED
    BY <2>4, <2>5 DEF ReadStep
<1>3. CASE CacheHit(r)
  <2>1. cached \in Values /\ cached # NoValue /\ answer'[r] = cached
    BY <1>0, <1>3 DEF CacheHit, SettingInv, SettingTypeOK
  <2>2. left > 0 /\ since[cached] + left <= TTL + Patience
    BY <2>1 DEF SettingInv, Aged
  <2>3. since[cached] \in Nat /\ left \in Nat
    BY <1>0, <2>1 DEF SettingInv, SettingTypeOK
  <2> QED
    BY <1>0, <2>1, <2>2, <2>3
<1>4. CASE FillCache(r) \/ FillFails(r)
  <2>1. reading[r] = "fill" /\ answer'[r] = answer[r]
    BY <1>4 DEF FillCache, FillFails
  <2>2. answer[r] \in Values /\ since[answer[r]] <= waited[r]
    BY <2>1 DEF SettingInv, Aged
  <2>3. since[answer[r]] \in Nat /\ waited[r] \in 0 .. Patience
    BY <1>0, <2>2 DEF SettingInv, SettingTypeOK
  <2> QED
    BY <1>0, <2>1, <2>2, <2>3
<1> QED
  BY <1>2, <1>3, <1>4

-----------------------------------------------------------------------------
(* The files. *)

FileTypeOK ==
  /\ row \in [Files -> {"none", "uploaded", "deleted"}]
  /\ content \subseteq Files
  /\ age \in [Files -> 0 .. MaxAge]
  /\ upload \in [Files -> {"new", "insert", "reread", "discard"} \cup Ended]
  /\ deletion \in [Deleters -> {"idle", "mark", "remove"}]
  /\ target \in [Deleters -> Files \cup {NoValue}]
  /\ run \in [Readers -> {"idle", "setting", "purge", "remove"}]
  /\ batch \in [Readers -> SUBSET Files]
  /\ purged \in [Readers -> Files \cup {NoValue}]
  /\ reported \in [Files -> Nat]
  /\ mishap \subseteq Files

\* A handler is about to remove the content of f.
Removing(f) ==
  \/ \E d \in Deleters : deletion[d] = "remove" /\ target[d] = f
  \/ \E r \in Readers : run[r] = "remove" /\ purged[r] = f

\* A handler past its search has a file.
Aimed ==
  /\ \A d \in Deleters : deletion[d] # "idle" => target[d] \in Files
  /\ \A r \in Readers : run[r] = "remove" => purged[r] \in Files

\* Content is there from before the row until after its mark.
Stored(f) ==
  /\ upload[f] \in {"new", "insert"} => row[f] = "none"
  /\ upload[f] \in {"insert", "reread", "acked"} /\ row[f] # "deleted" => f \in content
  /\ Removing(f) => row[f] = "deleted"
  /\ reported[f] <= 1
  /\ reported[f] = 1 => row[f] = "deleted"

\* Where row and content may differ, unless a failure has parted them.
Matched(f) ==
  f \notin mishap =>
    /\ upload[f] = "new" => f \notin content
    /\ upload[f] \in {"reread"} \cup Ended /\ ~Removing(f) => (f \in content <=> row[f] = "uploaded")
    /\ upload[f] = "discard" => row[f] # "uploaded"

FileInv ==
  /\ FileTypeOK /\ Aimed
  /\ \A f \in Files : Stored(f)
  /\ \A f \in Files : Matched(f)

LEMMA FileInitInv == Init => FileInv
<1> SUFFICES ASSUME Init PROVE FileInv
  OBVIOUS
<1>1. FileTypeOK
  BY FileConstants DEF Init, FileTypeOK
<1>2. Aimed
  BY DEF Init, Aimed
<1>3. \A f \in Files : Stored(f) /\ Matched(f)
  BY DEF Init, Stored, Matched, Removing, Ended
<1> QED
  BY <1>1, <1>2, <1>3 DEF FileInv

-----------------------------------------------------------------------------
(* Uploads. *)

\* A step of the upload of f alone: what it does to the other files' row,
\* content and mishap is nothing.
LEMMA UploadKeeps ==
  ASSUME FileInv, NEW f \in Files, Upload(f)
  PROVE  FileInv'
<1>1. UNCHANGED <<age, deletion, target, run, batch, purged, reported>>
  BY DEF Upload, RefuseUpload, Put, InsertRow, InsertRowFails, InsertRowUnacked, RereadRow,
         RereadRowFails, Discard, DiscardFails
<1>2. \A g \in Files : g # f => /\ upload'[g] = upload[g] /\ row'[g] = row[g]
                               /\ (g \in content' <=> g \in content)
                               /\ (g \in mishap' <=> g \in mishap)
  BY DEF Upload, RefuseUpload, Put, InsertRow, InsertRowFails, InsertRowUnacked, RereadRow,
         RereadRowFails, Discard, DiscardFails, FileInv, FileTypeOK
<1>3. upload' \in [Files -> {"new", "insert", "reread", "discard"} \cup Ended]
  BY DEF Upload, RefuseUpload, Put, InsertRow, InsertRowFails, InsertRowUnacked, RereadRow,
         RereadRowFails, Discard, DiscardFails, FileInv, FileTypeOK, Ended
<1>4. row' \in [Files -> {"none", "uploaded", "deleted"}]
  BY DEF Upload, RefuseUpload, Put, InsertRow, InsertRowFails, InsertRowUnacked, RereadRow,
         RereadRowFails, Discard, DiscardFails, FileInv, FileTypeOK
<1>5. content' \subseteq Files /\ mishap' \subseteq Files
  BY DEF Upload, RefuseUpload, Put, InsertRow, InsertRowFails, InsertRowUnacked, RereadRow,
         RereadRowFails, Discard, DiscardFails, FileInv, FileTypeOK
<1>6. FileTypeOK'
  BY <1>1, <1>3, <1>4, <1>5 DEF FileInv, FileTypeOK
<1>7. \A g \in Files : Removing(g)' = Removing(g)
  BY <1>1 DEF Removing
<1>8. Stored(f) /\ Matched(f)
  BY DEF FileInv
<1>9. Stored(f)' /\ Matched(f)'
  <2>1. CASE RefuseUpload(f)
    BY <1>1, <1>7, <1>8, <2>1 DEF RefuseUpload, Stored, Matched, FileInv, FileTypeOK, Ended
  <2>2. CASE Put(f)
    BY <1>1, <1>7, <1>8, <2>2 DEF Put, Stored, Matched, FileInv, FileTypeOK, Ended
  <2>3. CASE InsertRow(f)
    BY <1>1, <1>7, <1>8, <2>3 DEF InsertRow, Stored, Matched, FileInv, FileTypeOK, Ended
  <2>4. CASE InsertRowFails(f)
    BY <1>1, <1>7, <1>8, <2>4 DEF InsertRowFails, Stored, Matched, FileInv, FileTypeOK, Ended
  <2>5. CASE InsertRowUnacked(f)
    BY <1>1, <1>7, <1>8, <2>5 DEF InsertRowUnacked, Stored, Matched, FileInv, FileTypeOK, Ended
  <2>6. CASE RereadRow(f)
    BY <1>1, <1>7, <1>8, <2>6 DEF RereadRow, Stored, Matched, FileInv, FileTypeOK, Ended
  <2>7. CASE RereadRowFails(f)
    BY <1>1, <1>7, <1>8, <2>7 DEF RereadRowFails, Stored, Matched, FileInv, FileTypeOK, Ended
  <2>8. CASE Discard(f)
    BY <1>1, <1>7, <1>8, <2>8 DEF Discard, Stored, Matched, FileInv, FileTypeOK, Ended
  <2>9. CASE DiscardFails(f)
    BY <1>1, <1>7, <1>8, <2>9 DEF DiscardFails, Stored, Matched, FileInv, FileTypeOK, Ended
  <2> QED
    BY <2>1, <2>2, <2>3, <2>4, <2>5, <2>6, <2>7, <2>8, <2>9 DEF Upload
<1>10. \A g \in Files : g # f => Stored(g)' /\ Matched(g)'
  BY <1>1, <1>2, <1>7 DEF Stored, Matched, FileInv
<1>11. Aimed'
  BY <1>1 DEF Aimed, FileInv
<1> QED
  BY <1>6, <1>9, <1>10, <1>11 DEF FileInv

-----------------------------------------------------------------------------
(* Deletions and retention runs. *)

\* The three things that either of them does to a file, seen from the files.
\* A row is marked.
LEMMA MarkKeeps ==
  ASSUME FileInv, FileTypeOK', Aimed', NEW f \in Files,
         row[f] = "uploaded", row' = [row EXCEPT ![f] = "deleted"],
         UNCHANGED <<content, upload>>, mishap \subseteq mishap',
         \A g \in Files : g # f => Removing(g)' = Removing(g) /\ reported'[g] = reported[g],
         reported'[f] \in {reported[f], reported[f] + 1},
         Removing(f)' \/ f \in mishap'
  PROVE  FileInv'
<1>1. \A g \in Files : Stored(g) /\ Matched(g)
  BY DEF FileInv
<1>2. reported[f] \in Nat
  BY DEF FileInv, FileTypeOK
<1>3. row'[f] = "deleted" /\ \A g \in Files : g # f => row'[g] = row[g]
  BY DEF FileInv, FileTypeOK
<1>4. Stored(f)'
  BY <1>1, <1>2, <1>3 DEF Stored
<1>5. Matched(f)'
  BY <1>1, <1>3 DEF Matched, Stored, Ended
<1>6. \A g \in Files : g # f => Stored(g)' /\ Matched(g)'
  BY <1>1, <1>3 DEF Stored, Matched
<1> QED
  BY <1>4, <1>5, <1>6 DEF FileInv

\* The content of a marked row is removed, or that fails.
LEMMA RemoveKeeps ==
  ASSUME FileInv, FileTypeOK', Aimed', NEW f \in Files, Removing(f),
         UNCHANGED <<row, upload, reported>>,
         \/ content' = content \ {f} /\ mishap' = mishap
         \/ content' = content /\ mishap' = mishap \cup {f},
         \A g \in Files : g # f => (Removing(g)' <=> Removing(g))
  PROVE  FileInv'
<1>1. \A g \in Files : Stored(g) /\ Matched(g)
  BY DEF FileInv
<1>2. row[f] = "deleted"
  BY <1>1 DEF Stored
<1>3. Stored(f)' /\ Matched(f)'
  BY <1>1, <1>2 DEF Stored, Matched, Ended
<1>4. \A g \in Files : g # f => (g \in content' <=> g \in content) /\ (g \in mishap' <=> g \in mishap)
  OBVIOUS
<1>5. ASSUME NEW g \in Files, g # f
      PROVE  Stored(g)' /\ Matched(g)'
  <2>1. Removing(g)' <=> Removing(g)
    BY <1>5
  <2>2. Stored(g) /\ Matched(g)
    BY <1>1
  <2> QED
    BY <1>4, <1>5, <2>1, <2>2 DEF Stored, Matched
<1> QED
  BY <1>3, <1>5 DEF FileInv

\* Nothing happens to any file.
LEMMA NothingKeeps ==
  ASSUME FileInv, FileTypeOK', Aimed', UNCHANGED <<row, content, upload, reported>>,
         mishap \subseteq mishap',
         \A g \in Files : Removing(g)' = Removing(g)
  PROVE  FileInv'
BY DEF FileInv, Stored, Matched

LEMMA DeleteKeeps ==
  ASSUME FileInv, NEW d \in Deleters, Delete(d)
  PROVE  FileInv'
<1>0. FileTypeOK /\ Aimed
  BY DEF FileInv
<1>1. ASSUME NEW f \in Files, FindRow(d, f)
      PROVE  FileInv'
  <2>1. FileTypeOK'
    BY <1>0, <1>1 DEF FindRow, FileTypeOK
  <2>2. \A e \in Deleters : e # d => deletion'[e] = deletion[e] /\ target'[e] = target[e]
    BY <1>0, <1>1 DEF FindRow, FileTypeOK
  <2>3. deletion'[d] = "mark" /\ target'[d] = f /\ deletion[d] = "idle"
    BY <1>0, <1>1 DEF FindRow, FileTypeOK
  <2>4. Aimed'
    BY <1>0, <1>1, <2>2, <2>3 DEF FindRow, Aimed
  <2>5. \A g \in Files : Removing(g)' = Removing(g)
    BY <1>1, <2>2, <2>3 DEF FindRow, Removing
  <2> QED
    BY <1>1, <2>1, <2>4, <2>5, NothingKeeps DEF FindRow
<1>2. CASE MarkRow(d) /\ row[target[d]] = "uploaded"
  <2>1. deletion[d] = "mark" /\ target[d] \in Files
    BY <1>0, <1>2 DEF MarkRow, Aimed
  <2>2. /\ row' = [row EXCEPT ![target[d]] = "deleted"]
        /\ deletion' = [deletion EXCEPT ![d] = "remove"]
        /\ reported' = [reported EXCEPT ![target[d]] = @ + 1]
        /\ UNCHANGED <<target, content, age, upload, run, batch, purged, mishap>>
    BY <1>2 DEF MarkRow
  <2>3. FileTypeOK'
    BY <1>0, <2>1, <2>2 DEF FileTypeOK
  <2>4. deletion'[d] = "remove" /\ \A e \in Deleters : e # d => deletion'[e] = deletion[e]
    BY <1>0, <2>2 DEF FileTypeOK
  <2>5. Aimed'
    BY <1>0, <2>1, <2>2, <2>4 DEF Aimed
  <2>6. Removing(target[d])'
    BY <2>2, <2>4 DEF Removing
  <2>7. \A g \in Files : g # target[d] => Removing(g)' = Removing(g) /\ reported'[g] = reported[g]
    BY <1>0, <2>1, <2>2, <2>4 DEF Removing, FileTypeOK
  <2>8. reported'[target[d]] = reported[target[d]] + 1
    BY <1>0, <2>1, <2>2 DEF FileTypeOK
  <2> QED
    BY <1>2, <2>1, <2>2, <2>3, <2>5, <2>6, <2>7, <2>8, MarkKeeps
<1>3. CASE MarkRow(d) /\ row[target[d]] # "uploaded"
  <2>1. /\ deletion[d] = "mark" /\ deletion' = [deletion EXCEPT ![d] = "idle"]
        /\ target' = [target EXCEPT ![d] = NoValue]
        /\ UNCHANGED <<row, reported, content, age, upload, run, batch, purged, mishap>>
    BY <1>3 DEF MarkRow
  <2>2. FileTypeOK'
    BY <1>0, <2>1 DEF FileTypeOK
  <2>3. /\ deletion'[d] = "idle"
        /\ \A e \in Deleters : e # d => deletion'[e] = deletion[e] /\ target'[e] = target[e]
    BY <1>0, <2>1 DEF FileTypeOK
  <2>4. Aimed' /\ \A g \in Files : Removing(g)' = Removing(g)
    BY <1>0, <2>1, <2>3 DEF Aimed, Removing
  <2> QED
    BY <2>1, <2>2, <2>4, NothingKeeps
<1>4. CASE MarkRowFails(d)
  <2>1. deletion[d] = "mark" /\ target[d] \in Files
    BY <1>0, <1>4 DEF MarkRowFails, Aimed
  <2>2. /\ deletion' = [deletion EXCEPT ![d] = "idle"]
        /\ target' = [target EXCEPT ![d] = NoValue]
        /\ UNCHANGED <<content, age, upload, run, batch, purged, reported>>
    BY <1>4 DEF MarkRowFails
  <2>3. FileTypeOK'
    BY <1>0, <1>4, <2>1, <2>2 DEF MarkRowFails, FileTypeOK
  <2>4. /\ deletion'[d] = "idle"
        /\ \A e \in Deleters : e # d => deletion'[e] = deletion[e] /\ target'[e] = target[e]
    BY <1>0, <2>2 DEF FileTypeOK
  <2>5. Aimed' /\ \A g \in Files : Removing(g)' = Removing(g)
    BY <1>0, <2>1, <2>2, <2>4 DEF Aimed, Removing
  <2>6. CASE UNCHANGED <<row, mishap>>
    BY <2>2, <2>3, <2>5, <2>6, NothingKeeps
  <2>7. CASE /\ row[target[d]] = "uploaded"
             /\ row' = [row EXCEPT ![target[d]] = "deleted"]
             /\ mishap' = mishap \cup {target[d]}
    BY <2>1, <2>2, <2>3, <2>5, <2>7, MarkKeeps
  <2> QED
    BY <1>4, <2>6, <2>7 DEF MarkRowFails
<1>5. CASE RemoveContent(d)
  <2>1. deletion[d] = "remove" /\ target[d] \in Files /\ Removing(target[d])
    BY <1>0, <1>5 DEF RemoveContent, Aimed, Removing
  <2>2. /\ deletion' = [deletion EXCEPT ![d] = "idle"]
        /\ target' = [target EXCEPT ![d] = NoValue]
        /\ UNCHANGED <<row, age, upload, run, batch, purged, reported>>
        /\ \/ content' = content \ {target[d]} /\ mishap' = mishap
           \/ content' = content /\ mishap' = mishap \cup {target[d]}
    BY <1>5 DEF RemoveContent
  <2>3. FileTypeOK'
    BY <1>0, <2>1, <2>2 DEF FileTypeOK
  <2>4. /\ deletion'[d] = "idle"
        /\ \A e \in Deleters : e # d => deletion'[e] = deletion[e] /\ target'[e] = target[e]
    BY <1>0, <2>2 DEF FileTypeOK
  <2>5. Aimed'
    BY <1>0, <2>2, <2>4 DEF Aimed
  <2>6. \A g \in Files : g # target[d] => (Removing(g)' <=> Removing(g))
    BY <2>2, <2>4 DEF Removing
  <2> QED
    BY <2>1, <2>2, <2>3, <2>5, <2>6, RemoveKeeps
<1> QED
  BY <1>1, <1>2, <1>3, <1>4, <1>5 DEF Delete

LEMMA RetainKeeps ==
  ASSUME FileInv, NEW r \in Readers, Retain(r)
  PROVE  FileInv'
<1>0. FileTypeOK /\ Aimed
  BY DEF FileInv
<1>1. CASE BeginRun(r) \/ ReadSetting(r) \/ ListExpired(r) \/ EndRun(r)
  <2>1. UNCHANGED <<row, content, age, upload, deletion, target, purged, reported, mishap>>
    BY <1>1 DEF BeginRun, ReadSetting, ListExpired, EndRun
  <2>2. batch' \in [Readers -> SUBSET Files]
    BY <1>0, <1>1 DEF BeginRun, ReadSetting, ListExpired, Expired, EndRun, FileTypeOK
  <2>3. run[r] # "remove" /\ \E s \in {"idle", "setting", "purge"} : run' = [run EXCEPT ![r] = s]
    BY <1>1 DEF BeginRun, ReadSetting, ListExpired, EndRun
  <2>4. FileTypeOK'
    BY <1>0, <2>1, <2>2, <2>3 DEF FileTypeOK
  <2>5. \A e \in Readers : run'[e] = "remove" <=> run[e] = "remove"
    BY <1>0, <2>3 DEF FileTypeOK
  <2>6. Aimed' /\ \A g \in Files : Removing(g)' = Removing(g)
    BY <1>0, <2>1, <2>5 DEF Aimed, Removing
  <2> QED
    BY <2>1, <2>4, <2>6, NothingKeeps
<1>2. ASSUME NEW f \in Files, MarkExpired(r, f), row[f] = "uploaded"
      PROVE  FileInv'
  <2>1. /\ run[r] = "purge" /\ run' = [run EXCEPT ![r] = "remove"]
        /\ row' = [row EXCEPT ![f] = "deleted"] /\ purged' = [purged EXCEPT ![r] = f]
        /\ reported' = [reported EXCEPT ![f] = @ + 1]
        /\ batch' = [batch EXCEPT ![r] = @ \ {f}]
        /\ UNCHANGED <<content, age, upload, deletion, target, mishap>>
    BY <1>2 DEF MarkExpired
  <2>2. FileTypeOK'
    BY <1>0, <2>1 DEF FileTypeOK
  <2>3. /\ run'[r] = "remove" /\ purged'[r] = f
        /\ \A e \in Readers : e # r => run'[e] = run[e] /\ purged'[e] = purged[e]
    BY <1>0, <2>1 DEF FileTypeOK
  <2>4. Aimed' /\ Removing(f)'
    BY <1>0, <2>1, <2>3 DEF Aimed, Removing
  <2>5. reported'[f] = reported[f] + 1 /\ \A g \in Files : g # f => reported'[g] = reported[g]
    BY <1>0, <2>1 DEF FileTypeOK
  <2>6. \A g \in Files : g # f => Removing(g)' = Removing(g)
    BY <2>1, <2>3 DEF Removing
  <2> QED
    BY <1>2, <2>1, <2>2, <2>4, <2>5, <2>6, MarkKeeps
<1>3. ASSUME NEW f \in Files, MarkExpired(r, f), row[f] # "uploaded"
      PROVE  FileInv'
  <2>1. /\ batch' = [batch EXCEPT ![r] = @ \ {f}]
        /\ UNCHANGED <<row, run, purged, reported, content, age, upload, deletion, target, mishap>>
    BY <1>3 DEF MarkExpired
  <2>2. FileTypeOK' /\ Aimed' /\ \A g \in Files : Removing(g)' = Removing(g)
    BY <1>0, <2>1 DEF FileTypeOK, Aimed, Removing
  <2> QED
    BY <2>1, <2>2, NothingKeeps
<1>4. ASSUME NEW f \in Files, MarkExpiredFails(r, f)
      PROVE  FileInv'
  <2>1. /\ batch' = [batch EXCEPT ![r] = @ \ {f}]
        /\ UNCHANGED <<content, age, upload, deletion, target, run, purged, reported>>
    BY <1>4 DEF MarkExpiredFails
  <2>2. FileTypeOK'
    BY <1>0, <1>4, <2>1 DEF MarkExpiredFails, FileTypeOK
  <2>3. Aimed' /\ \A g \in Files : Removing(g)' = Removing(g)
    BY <1>0, <2>1 DEF Aimed, Removing
  <2>4. CASE UNCHANGED <<row, mishap>>
    BY <2>1, <2>2, <2>3, <2>4, NothingKeeps
  <2>5. CASE /\ row[f] = "uploaded" /\ row' = [row EXCEPT ![f] = "deleted"]
             /\ mishap' = mishap \cup {f}
    BY <2>1, <2>2, <2>3, <2>5, MarkKeeps
  <2> QED
    BY <1>4, <2>4, <2>5 DEF MarkExpiredFails
<1>5. CASE RemoveExpired(r)
  <2>1. run[r] = "remove" /\ purged[r] \in Files /\ Removing(purged[r])
    BY <1>0, <1>5 DEF RemoveExpired, Aimed, Removing
  <2>2. /\ run' = [run EXCEPT ![r] = "purge"] /\ purged' = [purged EXCEPT ![r] = NoValue]
        /\ UNCHANGED <<row, age, upload, deletion, target, batch, reported>>
        /\ \/ content' = content \ {purged[r]} /\ mishap' = mishap
           \/ content' = content /\ mishap' = mishap \cup {purged[r]}
    BY <1>5 DEF RemoveExpired
  <2>3. FileTypeOK'
    BY <1>0, <2>1, <2>2 DEF FileTypeOK
  <2>4. /\ run'[r] = "purge"
        /\ \A e \in Readers : e # r => run'[e] = run[e] /\ purged'[e] = purged[e]
    BY <1>0, <2>2 DEF FileTypeOK
  <2>5. Aimed'
    BY <1>0, <2>2, <2>4 DEF Aimed
  <2>6. \A g \in Files : g # purged[r] => (Removing(g)' <=> Removing(g))
    BY <2>2, <2>4 DEF Removing
  <2> QED
    BY <2>1, <2>2, <2>3, <2>5, <2>6, RemoveKeeps
<1> QED
  BY <1>1, <1>2, <1>3, <1>4, <1>5 DEF Retain

-----------------------------------------------------------------------------
LEMMA FileCrashKeeps ==
  ASSUME FileInv, Crash
  PROVE  FileInv'
<1>0. FileTypeOK /\ Aimed /\ \A f \in Files : Stored(f) /\ Matched(f)
  BY DEF FileInv
<1>1. /\ upload' = [f \in Files |-> IF upload[f] \in {"insert", "reread", "discard"}
                                   THEN "lost" ELSE upload[f]]
      /\ deletion' = [d \in Deleters |-> "idle"] /\ target' = [d \in Deleters |-> NoValue]
      /\ run' = [r \in Readers |-> "idle"]
      /\ batch' = [r \in Readers |-> {}] /\ purged' = [r \in Readers |-> NoValue]
      /\ mishap' = mishap \cup InHand /\ UNCHANGED <<row, content, age, reported>>
  BY DEF Crash
<1>2. InHand \subseteq Files
  BY <1>0 DEF InHand, Aimed
<1>3. upload' \in [Files -> {"new", "insert", "reread", "discard"} \cup Ended]
  BY <1>0, <1>1 DEF FileTypeOK, Ended
<1>4. FileTypeOK'
  BY <1>0, <1>1, <1>2, <1>3 DEF FileTypeOK
<1>5. Aimed' /\ \A f \in Files : ~Removing(f)'
  BY <1>1 DEF Aimed, Removing
<1>6. ASSUME NEW f \in Files
      PROVE  Stored(f)'
  <2>1. Stored(f) /\ (upload'[f] = upload[f] \/ upload'[f] = "lost")
    BY <1>0, <1>1
  <2> QED
    BY <1>1, <1>5, <2>1 DEF Stored
<1>7. ASSUME NEW f \in Files, f \notin mishap'
      PROVE  Matched(f)'
  <2>1. f \notin mishap /\ f \notin InHand
    BY <1>1, <1>7
  <2>2. upload[f] \notin {"insert", "reread", "discard"} /\ ~Removing(f)
    BY <2>1 DEF InHand, Removing
  <2>3. upload'[f] = upload[f] /\ Matched(f)
    BY <1>0, <1>1, <2>2
  <2> QED
    BY <1>1, <2>1, <2>2, <2>3 DEF Matched
<1>8. \A f \in Files : Matched(f)'
  BY <1>7 DEF Matched
<1> QED
  BY <1>4, <1>5, <1>6, <1>8 DEF FileInv

LEMMA FileNextInv == FileInv /\ [Next]_vars => FileInv'
<1> SUFFICES ASSUME FileInv, [Next]_vars PROVE FileInv'
  OBVIOUS
<1>1. ASSUME NEW f \in Files, GrowOld(f)
      PROVE  FileInv'
  <2>1. FileTypeOK'
    BY <1>1, FileConstants DEF GrowOld, FileInv, FileTypeOK
  <2>2. Aimed' /\ \A g \in Files : Removing(g)' = Removing(g)
    BY <1>1 DEF GrowOld, FileInv, Aimed, Removing
  <2> QED
    BY <1>1, <2>1, <2>2, NothingKeeps DEF GrowOld
<1>2. CASE UNCHANGED fileVars
  <2>1. FileTypeOK' /\ Aimed' /\ \A g \in Files : Removing(g)' = Removing(g)
    BY <1>2 DEF fileVars, FileInv, FileTypeOK, Aimed, Removing
  <2> QED
    BY <1>2, <2>1, NothingKeeps DEF fileVars
<1> QED
  BY <1>1, <1>2, UploadKeeps, DeleteKeeps, RetainKeeps, FileCrashKeeps DEF Next, vars

\* A step of the system is a step of the setting, or none of its.
LEMMA SettingStep == [Next]_vars => [SettingNext]_settingVars
<1> SUFFICES ASSUME [Next]_vars PROVE [SettingNext]_settingVars
  OBVIOUS
<1>1. CASE \E r \in Readers : Retain(r)
  <2>1. PICK r \in Readers : Retain(r)
    BY <1>1
  <2>2. BeginRead(r) \/ ReadStep(r) \/ EndRead(r) \/ UNCHANGED settingVars
    BY <2>1 DEF Retain, BeginRun, ReadSetting, ListExpired, MarkExpired, MarkExpiredFails,
                RemoveExpired, EndRun
  <2> QED
    BY <2>2 DEF SettingNext
<1>2. CASE \E f \in Files : (Upload(f) /\ UNCHANGED settingVars) \/ GrowOld(f)
  BY <1>2 DEF GrowOld
<1>3. CASE \E w \in Writers : WriteStep(w) /\ UNCHANGED fileVars
  BY <1>3 DEF SettingNext
<1>4. CASE Tick \/ Crash
  BY <1>4 DEF Crash, SettingNext
<1>5. CASE UNCHANGED vars \/ \E d \in Deleters : Delete(d) /\ UNCHANGED settingVars
  BY <1>5 DEF vars
<1> QED
  BY <1>1, <1>2, <1>3, <1>4, <1>5 DEF Next

LEMMA InitInv == Init => SettingInv /\ FileInv
BY SettingInitInv, FileInitInv DEF Init

LEMMA NextInv == SettingInv /\ FileInv /\ [Next]_vars => SettingInv' /\ FileInv'
BY SettingStep, SettingNextInv, FileNextInv

-----------------------------------------------------------------------------
\* Every variable keeps its type, whatever files and goroutines there are.
THEOREM TypeCorrect == Spec => []TypeOK
<1>1. SettingInv /\ FileInv => TypeOK
  BY DEF SettingInv, FileInv, FileTypeOK, TypeOK
<1> QED
  BY InitInv, NextInv, <1>1, PTL DEF Spec

\* No deletion, retention run, fault or crash takes the content of a file whose
\* upload was acknowledged and whose row is not deleted.
THEOREM AckedKept == Spec => []AckedHasContent
<1>1. FileInv => AckedHasContent
  BY DEF FileInv, FileTypeOK, Stored, AckedHasContent
<1> QED
  BY InitInv, NextInv, <1>1, PTL DEF Spec

\* Row and content part only by the listed failures.
THEOREM ContentFollows == Spec => []ContentFollowsRow
<1>1. FileInv => ContentFollowsRow
  <2> SUFFICES ASSUME FileInv, NEW f \in Files, f \notin InHand, f \notin mishap
               PROVE  f \in content <=> row[f] = "uploaded"
    BY DEF ContentFollowsRow
  <2>1. ~Removing(f) /\ upload[f] \in {"new"} \cup Ended
    BY DEF InHand, Removing, FileInv, FileTypeOK
  <2>2. Stored(f) /\ Matched(f)
    BY DEF FileInv
  <2> QED
    BY <2>1, <2>2 DEF Stored, Matched
<1> QED
  BY InitInv, NextInv, <1>1, PTL DEF Spec

\* However many handlers race for a file, one reports that it deleted it.
THEOREM DeletedOnce == Spec => []ReportedOnce
<1>1. FileInv => ReportedOnce
  BY DEF FileInv, Stored, ReportedOnce
<1> QED
  BY InitInv, NextInv, <1>1, PTL DEF Spec

\* A read after an acknowledged write is fresh, but for the named causes.
THEOREM FreshReads == Spec => []FreshUnlessDoubted
<1>1. SettingInv => FreshUnlessDoubted
  BY DEF SettingInv
<1> QED
  BY InitInv, NextInv, <1>1, PTL DEF Spec

\* However reads and writes overlap, an answer was in force less than the
\* life of the key, and of the read that filled it, ago.
THEOREM StaleBounded == Spec => StaleIsBounded
<1>1. SettingInv /\ [Next]_vars
        => [\A r \in Readers : reading[r] # "got" /\ reading'[r] = "got"
              => since[answer'[r]] <= TTL + Patience]_settingVars
  BY SettingStep, SettingStepBounded
<1> QED
  BY InitInv, NextInv, <1>1, PTL DEF Spec, StaleIsBounded
=============================================================================
