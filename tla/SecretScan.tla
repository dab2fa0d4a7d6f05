------------------------------ MODULE SecretScan ------------------------------
(***************************************************************************)
(* crates/analysis: secret_scanner.rs, gitleaks_scanner.rs, rsc_chunks.rs, *)
(* cwe_detector.rs.  Threads analyze bodies; each asks the cache, has the  *)
(* body scanned by a gitleaks process and by patterns of its own, and      *)
(* stores what came out.  A body is its text and those of its RSC chunks,  *)
(* sequences of symbols; a secret is a text to look for.                   *)
(***************************************************************************)
EXTENDS Naturals, Sequences, FiniteSets, SequencesExt

CONSTANTS Analysts,       \* the threads that analyze
          Bodies,         \* the bodies, as [text, chunks, debug]
          Patterns,       \* the secrets the built-in patterns match
          GitleaksRules,  \* the secrets gitleaks has a rule for
          ScanCacheCapacity,
          MaxInput,       \* MAX_INPUT_BYTES, in symbols
          MaxWaitErrors   \* how often waiting for a process may fail

ASSUME LeakAssumption == /\ Bodies # {} /\ \A b \in Bodies : b.text \in Seq(UNION {ToSet(d.text) : d \in Bodies})
                         /\ ScanCacheCapacity \in Nat \ {0} /\ MaxInput \in Nat /\ MaxWaitErrors \in Nat

VARIABLES analysis,       \* what each thread is doing
          scan_cache,     \* the bodies stored, oldest first, as [body, result]
          waitErrors,
          partial         \* history: the bodies scanned without an answer of gitleaks
leakVars == <<analysis, scan_cache, waitErrors, partial>>

IdleAnalysis == [at |-> "idle", body |-> CHOOSE b \in Bodies : TRUE, child |-> "none",
                 leaks |-> {}, result |-> {}]

In(secrets, text) == {s \in secrets : \E i, j \in 0..Len(text) : s = SubSeq(text, i + 1, j)}

\* scan_regex: what the patterns find in one text.
scan_regex(text) == In(Patterns, text)

\* capped_input: what gitleaks is given of a text, the first MAX_INPUT_BYTES.
capped_input(text) == SubSeq(text, 1, IF Len(text) > MaxInput THEN MaxInput ELSE Len(text))

\* What gitleaks reports of the part of a body it is given.
gitleaks_report(body) == In(GitleaksRules, capped_input(body.text))

\* extract_rsc_chunks: the payloads of the pushes of a body, each scanned by itself.
scan_chunks(body) == UNION {scan_regex(body.chunks[k]) : k \in DOMAIN body.chunks}

\* CweDetector::detect
detect(body) == IF body.debug THEN {<<"CWE-215">>} ELSE {}

\* analyze_uncached after gitleaks: the body is suspicious if anything is found.
analyze_uncached(body, leaks) == leaks \cup scan_regex(body.text) \cup scan_chunks(body) \cup detect(body)

\* bug: bodies of one length are taken for one another
same_key_bug(a, b) == Len(a.text) = Len(b.text)

\* body_hash, taken to differ when the bodies do.
same_key(a, b) == a = b

cached_analysis(b) == {e \in ToSet(scan_cache) : same_key(e.body, b)}

\* SecretScanner::analyze: an empty body has no findings, a cached one those it had.
Analyze(t, b) ==
  /\ analysis[t].at = "idle"
  /\ analysis' = [analysis EXCEPT ![t] =
       [IdleAnalysis EXCEPT
          !.body = b,
          !.at = IF b.text = <<>> \/ cached_analysis(b) # {} THEN "done" ELSE "scan",
          !.result = IF b.text # <<>> THEN UNION {e.result : e \in cached_analysis(b)} ELSE {}]]
  /\ UNCHANGED <<scan_cache, waitErrors, partial>>

\* gitleaks_binary: found where winget puts it, or looked for with gitleaks --version, which cannot be
\* started or is waited for.
Resolve(t) ==
  /\ analysis[t].at = "scan"
  /\ \/ /\ \E place \in {"spawn", "probe"} : analysis' = [analysis EXCEPT ![t].at = place]
        /\ UNCHANGED partial
     \/ /\ analysis' = [analysis EXCEPT ![t].at = "rest"]
        /\ partial' = partial \cup {analysis[t].body}
  /\ UNCHANGED <<scan_cache, waitErrors>>

\* gitleaks --version ends by itself: nothing limits the wait for it.
VersionPrinted(t) ==
  /\ analysis[t].at = "probe"
  /\ analysis' = [analysis EXCEPT ![t].at = "spawn"]
  /\ UNCHANGED <<scan_cache, waitErrors, partial>>

\* Command::spawn: the process cannot be started, or it runs.
Spawn(t) ==
  /\ analysis[t].at = "spawn"
  /\ \/ /\ analysis' = [analysis EXCEPT ![t].at = "rest"]
        /\ partial' = partial \cup {analysis[t].body}
     \/ /\ analysis' = [analysis EXCEPT ![t].at = "wait", ![t].child = "running"]
        /\ UNCHANGED partial
  /\ UNCHANGED <<scan_cache, waitErrors>>

\* The process ends by itself.
GitleaksExits(t) ==
  /\ analysis[t].child = "running"
  /\ analysis' = [analysis EXCEPT ![t].child = "exited"]
  /\ UNCHANGED <<scan_cache, waitErrors, partial>>

\* The loop over try_wait has seen it or given up; the threads at its pipes end, and its report
\* is read, or is none that parses.
Reaped(t) ==
  /\ analysis[t].at \in {"wait", "join"} /\ analysis[t].child = "exited"
  /\ \/ /\ analysis' = [analysis EXCEPT ![t].at = "rest", ![t].child = "none",
                                        ![t].leaks = gitleaks_report(analysis[t].body)]
        /\ UNCHANGED partial
     \/ /\ analysis' = [analysis EXCEPT ![t].at = "rest", ![t].child = "none"]
        /\ partial' = partial \cup {analysis[t].body}
  /\ UNCHANGED <<scan_cache, waitErrors>>

\* SCAN_TIMEOUT has passed: the process is killed, and what it wrote is no report.
TimeoutKills(t) ==
  /\ analysis[t].at = "wait" /\ analysis[t].child = "running"
  /\ analysis' = [analysis EXCEPT ![t].at = "rest", ![t].child = "none"]
  /\ partial' = partial \cup {analysis[t].body}
  /\ UNCHANGED <<scan_cache, waitErrors>>

\* try_wait fails: the loop is left with the process running, and its pipes are waited for.
WaitFails(t) ==
  /\ analysis[t].at = "wait" /\ waitErrors < MaxWaitErrors
  /\ analysis' = [analysis EXCEPT ![t].at = "join"]
  /\ waitErrors' = waitErrors + 1
  /\ UNCHANGED <<scan_cache, partial>>

\* store_analysis: the first result of a body stays, and the oldest bodies make room.
Store(t) ==
  /\ analysis[t].at = "rest"
  /\ LET own == analysis[t].body
         r == analyze_uncached(own, analysis[t].leaks)
         kept == IF Len(scan_cache) >= ScanCacheCapacity THEN Tail(scan_cache) ELSE scan_cache IN
     /\ analysis' = [analysis EXCEPT ![t].at = "done", ![t].result = r]
     /\ scan_cache' = IF cached_analysis(own) # {} THEN scan_cache
                      ELSE Append(kept, [body |-> own, result |-> r])
  /\ UNCHANGED <<waitErrors, partial>>

\* The thread is free for another body.
Returns(t) ==
  /\ analysis[t].at = "done"
  /\ analysis' = [analysis EXCEPT ![t] = IdleAnalysis]
  /\ UNCHANGED <<scan_cache, waitErrors, partial>>

LeakInit == /\ analysis = [t \in Analysts |-> IdleAnalysis]
            /\ scan_cache = <<>> /\ waitErrors = 0 /\ partial = {}

\* What a thread does by itself; the processes owe nothing.
AnalysisStep(t) == Resolve(t) \/ Spawn(t) \/ Reaped(t) \/ TimeoutKills(t) \/ Store(t) \/ Returns(t)

LeakNext == \E t \in Analysts : \/ \E b \in Bodies : Analyze(t, b)
                                \/ AnalysisStep(t) \/ VersionPrinted(t) \/ GitleaksExits(t) \/ WaitFails(t)

LeakSpec == LeakInit /\ [][LeakNext]_leakVars

\* A thread that analyzes runs on; gitleaks may hang.
LeakFairSpec == LeakSpec /\ \A t \in Analysts : WF_leakVars(AnalysisStep(t))
------------------------------------------------------------------------------
(* Properties *)

LeakTypeOK ==
  /\ \A t \in Analysts :
       /\ analysis[t].at \in {"idle", "scan", "probe", "spawn", "wait", "join", "rest", "done"}
       /\ analysis[t].body \in Bodies /\ analysis[t].child \in {"none", "running", "exited"}
  /\ \A k \in DOMAIN scan_cache : scan_cache[k].body \in Bodies
  /\ waitErrors \in 0..MaxWaitErrors /\ partial \subseteq Bodies

\* A body is in the cache once, and the cache keeps to its capacity, though threads that miss
\* the same body both come to store it (secret_scanner.rs:101-117).
CacheSound ==
  /\ Len(scan_cache) <= ScanCacheCapacity
  /\ \A j, k \in DOMAIN scan_cache : scan_cache[j].body = scan_cache[k].body => j = k

\* What is answered of a body is what is in that body: all that the patterns find, nothing it
\* does not hold, and all that gitleaks knows of in the part it is given as well unless gitleaks once
\* gave no answer for it, in this analysis or in the one the cache remembers
\* (secret_scanner.rs:122-139).  What only gitleaks knows of beyond that part is never found.
AnswersOwnBody ==
  \A t \in Analysts : analysis[t].at = "done" =>
    LET own == analysis[t].body
        result == analysis[t].result IN
    own.text # <<>> => /\ analyze_uncached(own, {}) \subseteq result
                       /\ result \subseteq analyze_uncached(own, In(GitleaksRules, own.text))
                       /\ own \notin partial => gitleaks_report(own) \subseteq result

LeaksFound == LeakTypeOK /\ CacheSound /\ AnswersOwnBody

\* An analysis goes on to its end, though gitleaks hangs while it scans, but for the two waits nothing
\* limits: for gitleaks --version (gitleaks_scanner.rs:157), and for the pipes of a process once
\* try_wait has failed (105-115).
AnalysesEnd ==
  LET unlimited == {"probe", "join"} IN
  \A t \in Analysts : analysis[t].at \notin unlimited ~> analysis[t].at \in {"idle"} \cup unlimited
===============================================================================
