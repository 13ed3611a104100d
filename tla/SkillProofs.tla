----------------------------- MODULE SkillProofs -----------------------------
(***************************************************************************)
(* Proofs about SkillCache, for any number of versions, tasks and faults.  *)
(*                                                                         *)
(*  - A skill is compiled by one task at a time: OneCompilation.  A task   *)
(*    holds the lock from before its first step to its last (LockInv).     *)
(*  - No torn state gets into a cache that parses, unless a cache that was *)
(*    there was compiled again: WholeCache.  Until its task creates it     *)
(*    there is no cache, so no call writes temp_state (WholeInv).          *)
(*  - What is loaded is current, unless SKILL.md was changed meanwhile, or *)
(*    by an upgrade with a text older than the cache: LoadedCurrent.       *)
(*    CurrentInv follows the text through every place a version of it can  *)
(*    be in.                                                               *)
(***************************************************************************)
EXTENDS SkillCache, TLAPS

(* Typing *)

LEMMA InitTyped == Init => TypeOK
<1> SUFFICES ASSUME Init PROVE TypeOK
  OBVIOUS
<1>1. 1 \in Text
  BY SkillAssumption DEF Text
<1>2. texts \in Seq(Text)
  BY DEF Init
<1>3. faults \in 0..MaxFaults
  BY SkillAssumption DEF Init
<1>4. /\ at \in [Slot -> Writing \cup {"done", "failed", "free"}]
      /\ source \in [Slot -> Text]
      /\ got \in [Slot -> Text \cup {Bad}]
  BY <1>1 DEF Init
<1>5. pc \in Pc
  BY DEF Init, Pc
<1> QED
  BY <1>1, <1>2, <1>3, <1>4, <1>5 DEF Init, TypeOK

LEMMA NextTyped == TypeOK /\ [Next]_vars => TypeOK'
<1> SUFFICES ASSUME TypeOK, [Next]_vars PROVE TypeOK'
  OBVIOUS
<1>0. 1 \in Text
  BY SkillAssumption DEF Text
<1> USE <1>0 DEF TypeOK, files, skill, cached, tasks, call, query, kernel, history
<1>1. ASSUME UNCHANGED vars PROVE TypeOK'
  BY <1>1 DEF vars
<1>2. ASSUME Begin PROVE TypeOK'
  <2>1. roomy' \in BOOLEAN /\ dir' \in BOOLEAN
    BY <1>2 DEF Begin
  <2>2. pc' \in Pc
    BY <1>2 DEF Begin, Pc
  <2> QED
    BY <1>2, <2>1, <2>2 DEF Begin
<1>3. ASSUME Probe PROVE TypeOK'
  <2>1. texts' \in Seq(Text)
    <3>1. texts' = <<skillMd>> \/ texts' = texts
      BY <1>3 DEF Probe
    <3>2. texts \in Seq(Text) /\ skillMd \in Text
      OBVIOUS
    <3>3. <<skillMd>> \in Seq(Text)
      BY <3>2
    <3> QED
      BY <3>1, <3>2, <3>3
  <2>2. pc' \in Pc
    BY <1>3 DEF Probe, Pc
  <2> QED
    BY <1>3, <2>1, <2>2 DEF Probe
<1>4. ASSUME Discard PROVE TypeOK'
  <2>1. pc' \in Pc
    BY <1>4 DEF Discard, Pc
  <2> QED
    BY <1>4, <2>1 DEF Discard
<1>5. ASSUME ReadBody PROVE TypeOK'
  <2>1. pc' \in Pc
    BY <1>5 DEF ReadBody, Pc
  <2> QED
    BY <1>5, <2>1 DEF ReadBody
<1>6. ASSUME RouteBusy PROVE TypeOK'
  <2>1. pc' \in Pc
    BY <1>6 DEF RouteBusy, Pc
  <2> QED
    BY <1>6, <2>1 DEF RouteBusy
<1>7. ASSUME NEW s \in Slot, RouteCompile(s) PROVE TypeOK'
  <2>1. texts' \in Seq(Text)
    BY <1>7 DEF RouteCompile
  <2>2. pc' \in Pc /\ own' \in Slot \cup {NoSlot}
    BY <1>7 DEF RouteCompile, Pc
  <2>3. /\ at' \in [Slot -> Writing \cup {"done", "failed", "free"}]
        /\ source' \in [Slot -> Text]
    BY <1>7 DEF RouteCompile, Writing
  <2>4. locked' \in BOOLEAN /\ doubled' \in BOOLEAN
    BY <1>7 DEF RouteCompile
  <2> QED
    BY <1>7, <2>1, <2>2, <2>3, <2>4 DEF RouteCompile
<1>8. ASSUME Warm PROVE TypeOK'
  <2>1. pc' \in Pc
    BY <1>8 DEF Warm, Pc
  <2> QED
    BY <1>8, <2>1 DEF Warm
<1>9. ASSUME MapCache PROVE TypeOK'
  <2>1. pc' \in Pc
    BY <1>9 DEF MapCache, Fault, Pc
  <2> QED
    BY <1>9, <2>1, SkillAssumption DEF MapCache, Fault
<1>10. ASSUME WriteTemp PROVE TypeOK'
  <2>1. pc' \in Pc
    BY <1>10 DEF WriteTemp, Fault, Pc
  <2> QED
    BY <1>10, <2>1, SkillAssumption DEF WriteTemp, Fault
<1>11. ASSUME LoadTemp PROVE TypeOK'
  <2>1. texts' \in Seq(Text)
    <3>1. texts \in Seq(Text) /\ Append(texts, skillMd) \in Seq(Text)
      OBVIOUS
    <3>2. texts' = Append(texts, skillMd) \/ texts' = texts
      BY <1>11 DEF LoadTemp
    <3> QED
      BY <3>1, <3>2
  <2>2. loaded' \in Text \cup {Absent} /\ pc' \in Pc
    BY <1>11 DEF LoadTemp, Pc
  <2> QED
    BY <1>11, <2>1, <2>2 DEF LoadTemp
<1>12. ASSUME CleanTemp PROVE TypeOK'
  <2>1. pc' \in Pc
    BY <1>12 DEF CleanTemp, AfterLoad, Pc
  <2> QED
    BY <1>12, <2>1 DEF CleanTemp, AfterLoad
<1>13. ASSUME Generate PROVE TypeOK'
  <2>1. texts' \in Seq(Text)
    BY <1>13 DEF Generate
  <2>2. pc' \in Pc
    BY <1>13 DEF Generate, Pc
  <2>3. /\ enabled' \in BOOLEAN /\ roomy' \in BOOLEAN
        /\ content' \in Text /\ loaded' \in Text \cup {Absent}
    BY <1>13 DEF Generate
  <2>4. UNCHANGED <<files, locked, tasks, own, mapped, history, faults>>
    BY <1>13 DEF Generate
  <2> QED
    BY <2>1, <2>2, <2>3, <2>4
<1>14. ASSUME NEW s \in Slot, OpenDump(s) PROVE TypeOK'
  <2>1. at' \in [Slot -> Writing \cup {"done", "failed", "free"}]
    BY <1>14 DEF OpenDump, Goto, Writing
  <2> QED
    BY <1>14, <2>1 DEF OpenDump, Goto
<1>15. ASSUME NEW s \in Slot, WriteDump(s) PROVE TypeOK'
  <2>1. at' \in [Slot -> Writing \cup {"done", "failed", "free"}]
    BY <1>15 DEF WriteDump, Goto, Writing
  <2> QED
    BY <1>15, <2>1 DEF WriteDump, Goto
<1>16. ASSUME NEW s \in Slot, ReadDump(s) PROVE TypeOK'
  <2>1. at' \in [Slot -> Writing \cup {"done", "failed", "free"}]
    BY <1>16 DEF ReadDump, Goto, Writing
  <2> QED
    BY <1>16, <2>1 DEF ReadDump, Goto, Wrapped
<1>17. ASSUME NEW s \in Slot, CreateCache(s) PROVE TypeOK'
  <2>1. cache' \in Text \cup {Absent, Empty, Torn, Bad} /\ outdated' \in BOOLEAN
    BY <1>17 DEF CreateCache
  <2>2. at' \in [Slot -> Writing \cup {"done", "failed", "free"}]
    BY <1>17 DEF CreateCache, Goto, Writing
  <2> QED
    BY <1>17, <2>1, <2>2 DEF CreateCache
<1>18. ASSUME NEW s \in Slot, WriteHead(s) PROVE TypeOK'
  <2>1. at' \in [Slot -> Writing \cup {"done", "failed", "free"}]
    BY <1>18 DEF WriteHead, WriteCache, Goto, Writing
  <2>2. cache' \in Text \cup {Absent, Empty, Torn, Bad} /\ outdated' \in BOOLEAN
    BY <1>18 DEF WriteHead, WriteCache
  <2>3. UNCHANGED <<skill, temp, locked, source, got, call, history, faults>>
    BY <1>18 DEF WriteHead, WriteCache
  <2> QED
    BY <2>1, <2>2, <2>3
<1>19. ASSUME NEW s \in Slot, WriteBody(s) PROVE TypeOK'
  <2>1. at' \in [Slot -> Writing \cup {"done", "failed", "free"}]
    BY <1>19 DEF WriteBody, WriteCache, Goto, Writing
  <2>2. cache' \in Text \cup {Absent, Empty, Torn, Bad} /\ outdated' \in BOOLEAN
    BY <1>19 DEF WriteBody, WriteCache
  <2>3. UNCHANGED <<skill, temp, locked, source, got, call, history, faults>>
    BY <1>19 DEF WriteBody, WriteCache
  <2> QED
    BY <2>1, <2>2, <2>3
<1>20. ASSUME NEW s \in Slot, Cleanup(s) PROVE TypeOK'
  <2>1. at' \in [Slot -> Writing \cup {"done", "failed", "free"}]
    BY <1>20 DEF Cleanup, Goto, Writing
  <2> QED
    BY <1>20, <2>1 DEF Cleanup, Goto
<1>21. ASSUME NEW s \in Slot, Release(s) PROVE TypeOK'
  <2>1. pc' \in Pc /\ own' \in Slot \cup {NoSlot}
    BY <1>21 DEF Release, Pc
  <2>2. /\ at' \in [Slot -> Writing \cup {"done", "failed", "free"}]
        /\ source' \in [Slot -> Text]
        /\ got' \in [Slot -> Text \cup {Bad}]
    BY <1>21 DEF Release, Goto
  <2>3. locked' \in BOOLEAN
    BY <1>21 DEF Release, LockedAfter
  <2> QED
    BY <1>21, <2>1, <2>2, <2>3 DEF Release
<1>22. ASSUME NEW s \in Slot, Abandon(s) PROVE TypeOK'
  BY <1>22, SkillAssumption DEF Abandon, Goto, Fault
<1>23. ASSUME Edit PROVE TypeOK'
  BY <1>23, SkillAssumption DEF Edit, Change, Text
<1>24. ASSUME Clear PROVE TypeOK'
  BY <1>24 DEF Clear
<1>25. ASSUME Restart PROVE TypeOK'
  <2>1. texts' \in Seq(Text) /\ pc' \in Pc /\ faults' \in 0..MaxFaults
    BY <1>25, SkillAssumption DEF Restart, Fault, Pc
  <2>2. /\ at' \in [Slot -> Writing \cup {"done", "failed", "free"}]
        /\ source' \in [Slot -> Text]
        /\ got' \in [Slot -> Text \cup {Bad}]
    BY <1>25 DEF Restart
  <2> QED
    BY <1>25, <2>1, <2>2 DEF Restart
<1>26. ASSUME Upgrade PROVE TypeOK'
  <2>1. skillMd' \in Text
    BY <1>26, SkillAssumption DEF Upgrade, Change, Text
  <2>2. outdated' \in BOOLEAN /\ backdated' \in BOOLEAN
    BY <1>26 DEF Upgrade
  <2>3. raced' \in BOOLEAN
    BY <1>26 DEF Upgrade, Change
  <2>4. UNCHANGED <<dir, cache, temp, locked, tasks, call, doubled, faults>>
    BY <1>26 DEF Upgrade, Change
  <2> QED
    BY <2>1, <2>2, <2>3, <2>4
<1> QED
  BY <1>1, <1>2, <1>3, <1>4, <1>5, <1>6, <1>7, <1>8, <1>9, <1>10, <1>11,
     <1>12, <1>13, <1>14, <1>15, <1>16, <1>17, <1>18, <1>19, <1>20,
     <1>21, <1>22, <1>23, <1>24, <1>25, <1>26
     DEF Next, CallStep, TaskStep

\* The variables keep their types for any number of versions, tasks and faults.
THEOREM TypeCorrect == Spec => []TypeOK
  BY InitTyped, NextTyped, PTL DEF Spec

-----------------------------------------------------------------------------
(* One compilation at a time *)

\* A task has the lock, and a call that waits for one waits until its end.
LockInv ==
  /\ OneCompiler
  /\ \A s \in Slot : Active(s) => locked
  /\ \A s \in Slot : Active(s) /\ own = s => pc = "pause"
  /\ pc \notin {"pause", "map", "write", "load", "clean"} => own = NoSlot

LEMMA LockInit == Init => LockInv
  BY DEF Init, LockInv, OneCompiler, Active

LEMMA LockNext == TypeOK /\ LockInv /\ [Next]_vars => LockInv'
<1> SUFFICES ASSUME TypeOK, LockInv, [Next]_vars PROVE LockInv'
  OBVIOUS
<1>t. at \in [Slot -> Writing \cup {"done", "failed", "free"}]
  BY DEF TypeOK
<1> USE <1>t, SkillAssumption
    DEF LockInv, OneCompiler, Active, files, skill, cached, tasks, call, query, kernel, history
<1>1. ASSUME UNCHANGED vars PROVE LockInv'
  BY <1>1 DEF vars
<1>2. ASSUME Begin PROVE LockInv'
  BY <1>2 DEF Begin
<1>3. ASSUME Probe PROVE LockInv'
  BY <1>3 DEF Probe
<1>4. ASSUME Discard PROVE LockInv'
  BY <1>4 DEF Discard
<1>5. ASSUME ReadBody PROVE LockInv'
  BY <1>5 DEF ReadBody
<1>6. ASSUME RouteBusy PROVE LockInv'
  BY <1>6 DEF RouteBusy
<1>7. ASSUME NEW s \in Slot, RouteCompile(s) PROVE LockInv'
  BY <1>7 DEF RouteCompile, Compiling
<1>8. ASSUME Warm PROVE LockInv'
  BY <1>8 DEF Warm
<1>9. ASSUME MapCache PROVE LockInv'
  BY <1>9 DEF MapCache
<1>10. ASSUME WriteTemp PROVE LockInv'
  BY <1>10 DEF WriteTemp
<1>11. ASSUME LoadTemp PROVE LockInv'
  BY <1>11 DEF LoadTemp
<1>12. ASSUME CleanTemp PROVE LockInv'
  BY <1>12 DEF CleanTemp, AfterLoad
<1>13. ASSUME Generate PROVE LockInv'
  BY <1>13 DEF Generate
<1>14. ASSUME NEW s \in Slot, OpenDump(s) PROVE LockInv'
  BY <1>14 DEF OpenDump, Goto
<1>15. ASSUME NEW s \in Slot, WriteDump(s) PROVE LockInv'
  BY <1>15 DEF WriteDump, Goto
<1>16. ASSUME NEW s \in Slot, ReadDump(s) PROVE LockInv'
  BY <1>16 DEF ReadDump, Goto, Wrapped
<1>17. ASSUME NEW s \in Slot, CreateCache(s) PROVE LockInv'
  BY <1>17 DEF CreateCache, Goto
<1>18. ASSUME NEW s \in Slot, WriteHead(s) PROVE LockInv'
  BY <1>18 DEF WriteHead, WriteCache, Goto
<1>19. ASSUME NEW s \in Slot, WriteBody(s) PROVE LockInv'
  BY <1>19 DEF WriteBody, WriteCache, Goto
<1>20. ASSUME NEW s \in Slot, Cleanup(s) PROVE LockInv'
  BY <1>20 DEF Cleanup, Goto
<1>21. ASSUME NEW s \in Slot, Release(s) PROVE LockInv'
  BY <1>21 DEF Release, Goto, Ended, LockedAfter
<1>22. ASSUME NEW s \in Slot, Abandon(s) PROVE LockInv'
  BY <1>22 DEF Abandon, Goto, Writing
<1>23. ASSUME Edit PROVE LockInv'
  BY <1>23 DEF Edit, Change
<1>24. ASSUME Clear PROVE LockInv'
  BY <1>24 DEF Clear
<1>25. ASSUME Restart PROVE LockInv'
  BY <1>25 DEF Restart
<1>26. ASSUME Upgrade PROVE LockInv'
  BY <1>26 DEF Upgrade, Change
<1> QED
  BY <1>1, <1>2, <1>3, <1>4, <1>5, <1>6, <1>7, <1>8, <1>9, <1>10, <1>11,
     <1>12, <1>13, <1>14, <1>15, <1>16, <1>17, <1>18, <1>19, <1>20,
     <1>21, <1>22, <1>23, <1>24, <1>25, <1>26
     DEF Next, CallStep, TaskStep

\* A skill is compiled by one task at a time, however calls, failures, edits
\* and restarts interleave.
THEOREM OneCompilation == Spec => []OneCompiler
<1>1. LockInv => OneCompiler
  BY DEF LockInv
<1> QED
  BY <1>1, TypeCorrect, LockInit, LockNext, PTL DEF Spec

-----------------------------------------------------------------------------
(* No torn state in a cache *)

\* The steps of a task before there is a cache.
Early == {"open", "dump", "read", "create"}

WholeInv ==
  ~doubled =>
    /\ cache # Bad
    /\ \A s \in Slot :
         /\ at[s] \in Early => cache = Absent /\ pc # "write"
         /\ at[s] = "read" => temp # Torn
         /\ at[s] \in {"create", "head", "body"} => got[s] # Bad

LEMMA WholeInit == Init => WholeInv
  BY SkillAssumption DEF Init, WholeInv, Early

LEMMA WholeNext == TypeOK /\ LockInv /\ WholeInv /\ [Next]_vars => WholeInv'
<1> SUFFICES ASSUME TypeOK, LockInv, WholeInv, [Next]_vars PROVE WholeInv'
  OBVIOUS
<1>t. /\ at \in [Slot -> Writing \cup {"done", "failed", "free"}]
      /\ source \in [Slot -> Text]
      /\ got \in [Slot -> Text \cup {Bad}]
      /\ temp \in Text \cup {Absent, Torn}
  BY DEF TypeOK
<1>l. OneCompiler
  BY DEF LockInv
<1> USE <1>t, <1>l, SkillAssumption
    DEF WholeInv, Early, OneCompiler, Active, files, skill, cached, tasks, call, query,
        kernel, history
<1>1. ASSUME UNCHANGED vars PROVE WholeInv'
  BY <1>1 DEF vars
<1>2. ASSUME Begin PROVE WholeInv'
  BY <1>2 DEF Begin
<1>3. ASSUME Probe PROVE WholeInv'
  BY <1>3 DEF Probe
<1>4. ASSUME Discard PROVE WholeInv'
  BY <1>4 DEF Discard
<1>5. ASSUME ReadBody PROVE WholeInv'
  BY <1>5 DEF ReadBody
<1>6. ASSUME RouteBusy PROVE WholeInv'
  BY <1>6 DEF RouteBusy
<1>7. ASSUME NEW s \in Slot, RouteCompile(s) PROVE WholeInv'
  BY <1>7 DEF RouteCompile, Compiling
<1>8. ASSUME Warm PROVE WholeInv'
  BY <1>8 DEF Warm
<1>9. ASSUME MapCache PROVE WholeInv'
  BY <1>9 DEF MapCache
<1>10. ASSUME WriteTemp PROVE WholeInv'
  BY <1>10 DEF WriteTemp
<1>11. ASSUME LoadTemp PROVE WholeInv'
  BY <1>11 DEF LoadTemp
<1>12. ASSUME CleanTemp PROVE WholeInv'
  BY <1>12 DEF CleanTemp, AfterLoad
<1>13. ASSUME Generate PROVE WholeInv'
  BY <1>13 DEF Generate
<1>14. ASSUME NEW s \in Slot, OpenDump(s) PROVE WholeInv'
  BY <1>14 DEF OpenDump, Goto
<1>15. ASSUME NEW s \in Slot, WriteDump(s) PROVE WholeInv'
  BY <1>15 DEF WriteDump, Goto
<1>16. ASSUME NEW s \in Slot, ReadDump(s) PROVE WholeInv'
  BY <1>16 DEF ReadDump, Goto, Wrapped
<1>17. ASSUME NEW s \in Slot, CreateCache(s) PROVE WholeInv'
  BY <1>17 DEF CreateCache, Goto
<1>18. ASSUME NEW s \in Slot, WriteHead(s) PROVE WholeInv'
  BY <1>18 DEF WriteHead, WriteCache, Goto
<1>19. ASSUME NEW s \in Slot, WriteBody(s) PROVE WholeInv'
  BY <1>19 DEF WriteBody, WriteCache, Goto
<1>20. ASSUME NEW s \in Slot, Cleanup(s) PROVE WholeInv'
  BY <1>20 DEF Cleanup, Goto
<1>21. ASSUME NEW s \in Slot, Release(s) PROVE WholeInv'
  BY <1>21 DEF Release, Goto, Ended, LockedAfter
<1>22. ASSUME NEW s \in Slot, Abandon(s) PROVE WholeInv'
  BY <1>22 DEF Abandon, Goto, Writing
<1>23. ASSUME Edit PROVE WholeInv'
  BY <1>23 DEF Edit, Change
<1>24. ASSUME Clear PROVE WholeInv'
  BY <1>24 DEF Clear
<1>25. ASSUME Restart PROVE WholeInv'
  BY <1>25 DEF Restart
<1>26. ASSUME Upgrade PROVE WholeInv'
  BY <1>26 DEF Upgrade, Change
<1> QED
  BY <1>1, <1>2, <1>3, <1>4, <1>5, <1>6, <1>7, <1>8, <1>9, <1>10, <1>11,
     <1>12, <1>13, <1>14, <1>15, <1>16, <1>17, <1>18, <1>19, <1>20,
     <1>21, <1>22, <1>23, <1>24, <1>25, <1>26
     DEF Next, CallStep, TaskStep

\* However calls, compilations and failures interleave, a cache that parses
\* holds a whole state, unless one that was there was compiled again.
THEOREM WholeCache == Spec => []CacheIsWhole
<1>1. WholeInv => CacheIsWhole
  BY DEF WholeInv, CacheIsWhole
<1> QED
  BY <1>1, TypeCorrect, LockInit, LockNext, WholeInit, WholeNext, PTL DEF Spec

-----------------------------------------------------------------------------
(* Nothing old is loaded *)

\* A state, if it is one, is that of SKILL.md as it is.
Fresh(v) == v \in Text => v = skillMd

\* The cache is good, or known to be missing.
Current == cache # Absent => ~outdated /\ Fresh(cache)

\* What a task compiles is current, and what it has written so far.
TaskCurrent(s) ==
  /\ source[s] = skillMd
  /\ Current
  /\ Fresh(mapped)
  /\ at[s] \notin {"open", "failed"} => Fresh(temp)
  /\ at[s] \in {"create", "head", "body"} => Fresh(got[s])

\* So is what a call has found that trusts the cache.
CallCurrent ==
  /\ pc \in {"body", "route", "pause"} => Current
  /\ pc = "route" => content = skillMd
  /\ pc # "write" => mapped = Absent
  /\ pc \in {"idle", "probe", "discard", "body", "route", "pause"} => loaded = Absent
  /\ enabled /\ pc \in {"warm", "map", "write", "load", "clean"} => Current
  /\ enabled /\ pc \in {"map", "write", "load"} => Fresh(temp)
  /\ enabled => Fresh(mapped) /\ Fresh(loaded)

CurrentInv ==
  ~raced /\ ~backdated =>
    /\ cache # Absent /\ ~outdated => Fresh(cache) /\ Fresh(temp) /\ Fresh(mapped)
    /\ \A s \in Slot : Active(s) => TaskCurrent(s)
    /\ CallCurrent

LEMMA CurrentInit == Init => CurrentInv
  BY SkillAssumption DEF Init, CurrentInv, CallCurrent, Active, Fresh, Current

LEMMA CurrentNext == TypeOK /\ LockInv /\ CurrentInv /\ [Next]_vars => CurrentInv'
<1> SUFFICES ASSUME TypeOK, LockInv, CurrentInv, [Next]_vars PROVE CurrentInv'
  OBVIOUS
<1>t. /\ at \in [Slot -> Writing \cup {"done", "failed", "free"}]
      /\ source \in [Slot -> Text]
      /\ got \in [Slot -> Text \cup {Bad}]
      /\ skillMd \in Text
      /\ cache \in Text \cup {Absent, Empty, Torn, Bad}
      /\ temp \in Text \cup {Absent, Torn}
      /\ mapped \in Text \cup {Absent, Bad}
      /\ loaded \in Text \cup {Absent}
  BY DEF TypeOK
<1> USE <1>t, SkillAssumption
    DEF LockInv, CurrentInv, TaskCurrent, CallCurrent, Fresh, Current, OneCompiler, Active,
        files, skill, cached, tasks, call, query, kernel, history
<1>1. ASSUME UNCHANGED vars PROVE CurrentInv'
  BY <1>1 DEF vars
<1>2. ASSUME Begin PROVE CurrentInv'
  BY <1>2 DEF Begin
<1>3. ASSUME Probe PROVE CurrentInv'
  BY <1>3 DEF Probe, Valid
<1>4. ASSUME Discard PROVE CurrentInv'
  BY <1>4 DEF Discard
<1>5. ASSUME ReadBody PROVE CurrentInv'
  BY <1>5 DEF ReadBody
<1>6. ASSUME RouteBusy PROVE CurrentInv'
  BY <1>6 DEF RouteBusy
<1>7. ASSUME NEW s \in Slot, RouteCompile(s) PROVE CurrentInv'
  BY <1>7 DEF RouteCompile, Compiling
<1>8. ASSUME Warm PROVE CurrentInv'
  BY <1>8 DEF Warm
<1>9. ASSUME MapCache PROVE CurrentInv'
  BY <1>9 DEF MapCache
<1>10. ASSUME WriteTemp PROVE CurrentInv'
  BY <1>10 DEF WriteTemp, Truncated
<1>11. ASSUME LoadTemp PROVE CurrentInv'
  BY <1>11 DEF LoadTemp
<1>12. ASSUME CleanTemp PROVE CurrentInv'
  BY <1>12 DEF CleanTemp, AfterLoad
<1>13. ASSUME Generate PROVE CurrentInv'
  BY <1>13 DEF Generate
<1>14. ASSUME NEW s \in Slot, OpenDump(s) PROVE CurrentInv'
  BY <1>14 DEF OpenDump, Goto
<1>15. ASSUME NEW s \in Slot, WriteDump(s) PROVE CurrentInv'
  BY <1>15 DEF WriteDump, Goto
<1>16. ASSUME NEW s \in Slot, ReadDump(s) PROVE CurrentInv'
  BY <1>16 DEF ReadDump, Goto, Wrapped
<1>17. ASSUME NEW s \in Slot, CreateCache(s) PROVE CurrentInv'
  BY <1>17 DEF CreateCache, Goto
<1>18. ASSUME NEW s \in Slot, WriteHead(s) PROVE CurrentInv'
  BY <1>18 DEF WriteHead, WriteCache, Goto
<1>19. ASSUME NEW s \in Slot, WriteBody(s) PROVE CurrentInv'
  BY <1>19 DEF WriteBody, WriteCache, Goto
<1>20. ASSUME NEW s \in Slot, Cleanup(s) PROVE CurrentInv'
  BY <1>20 DEF Cleanup, Goto
<1>21. ASSUME NEW s \in Slot, Release(s) PROVE CurrentInv'
  BY <1>21 DEF Release, Goto, Ended, LockedAfter
<1>22. ASSUME NEW s \in Slot, Abandon(s) PROVE CurrentInv'
  BY <1>22 DEF Abandon, Goto, Writing
<1>23. ASSUME Edit PROVE CurrentInv'
  BY <1>23 DEF Edit, Change
<1>24. ASSUME Clear PROVE CurrentInv'
  BY <1>24 DEF Clear
<1>25. ASSUME Restart PROVE CurrentInv'
  BY <1>25 DEF Restart
<1>26. ASSUME Upgrade PROVE CurrentInv'
  BY <1>26 DEF Upgrade, Change
<1> QED
  BY <1>1, <1>2, <1>3, <1>4, <1>5, <1>6, <1>7, <1>8, <1>9, <1>10, <1>11,
     <1>12, <1>13, <1>14, <1>15, <1>16, <1>17, <1>18, <1>19, <1>20,
     <1>21, <1>22, <1>23, <1>24, <1>25, <1>26
     DEF Next, CallStep, TaskStep

\* A call that has probed the cache loads nothing but what was compiled from
\* SKILL.md as it is, unless SKILL.md was changed during a call or a compilation
\* or an upgrade has brought a text older than the cache.
THEOREM LoadedCurrent == Spec => []LoadedIsCurrent
<1>1. TypeOK /\ CurrentInv => LoadedIsCurrent
  BY DEF TypeOK, CurrentInv, CallCurrent, Fresh, LoadedIsCurrent
<1> QED
  BY <1>1, TypeCorrect, LockInit, LockNext, CurrentInit, CurrentNext, PTL DEF Spec

=============================================================================
