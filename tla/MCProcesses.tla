---------------------------- MODULE MCProcesses -----------------------------
(***************************************************************************)
(* The processes an Edge keeps for projects, for TLC: background           *)
(* processes, their standard input, browser sessions and the browser       *)
(* harness. A behaviour belongs to one component, which `part` names; the  *)
(* others rest. The components share no state, so this is their union and  *)
(* not their product. Each has a set of bound records, one for each        *)
(* combination of faults worth meeting together.                           *)
(***************************************************************************)
EXTENDS ProjectProcesses, Browsers

CONSTANTS
  Parts

VARIABLE part

Host(platform, ids, stubborn, looks, effects, crashes, faults) ==
  [platform |-> platform, ids |-> ids, stubborn |-> stubborn, looks |-> looks,
   effects |-> effects, crashes |-> crashes, faults |-> faults]

\* Project processes: two starts against the limit with a process that ignores
\* its signal; failing steps and a crash, on either platform.
Hosts == {Host("unix", 2, TRUE, 0, 1, 0, 0), Host("unix", 1, FALSE, 1, 1, 0, 1),
          Host("unix", 1, FALSE, 0, 1, 1, 1), Host("unix", 1, FALSE, 1, 0, 1, 0),
          Host("windows", 1, FALSE, 0, 1, 0, 1), Host("windows", 1, FALSE, 1, 1, 1, 0)}

Pipe(platform, initial, early, sends, stalls) ==
  [platform |-> platform, initial |-> initial, early |-> early, sends |-> sends,
   stalls |-> stalls, limit |-> 4]

\* Process input: two frames after an initial one, a pipe that stalls, a process
\* that closes its input early, and Windows.
Pipes == {Pipe("unix", 1, FALSE, 2, 1), Pipe("unix", 0, FALSE, 1, 1), Pipe("unix", 1, TRUE, 0, 1),
          Pipe("windows", 1, FALSE, 1, 1)}

BrowserUse(projects, faults, crashes, cleanups) ==
  [projects |-> projects, faults |-> faults, crashes |-> crashes, cleanups |-> cleanups]

\* Browser sessions: two runs of a project with a failing step, a crash and
\* cleanups; two projects; two failing steps; two crashes.
BrowserUses == {BrowserUse({"p"}, 1, 1, 2), BrowserUse({"p", "q"}, 0, 0, 1), BrowserUse({"p"}, 2, 0, 0), BrowserUse({"p"}, 0, 2, 1)}

Harness(runs, going, calls, faults, lost, crashes, downs) ==
  [runs |-> runs, going |-> going, calls |-> calls, faults |-> faults, lost |-> lost,
   crashes |-> crashes, downs |-> downs, limit |-> {"timed_out"}]

\* The browser harness: one run with a failing step, a lost answer, a crash of
\* the Edge or of the container; two runs under way.
Harnesses == {Harness({1}, {}, 2, 1, 0, 0, 0), Harness({1}, {}, 2, 0, 1, 0, 0), Harness({1}, {}, 2, 0, 0, 1, 0),
              Harness({1}, {}, 2, 0, 0, 0, 1), Harness({}, {1, 2}, 1, 0, 0, 0, 0)}

hostVars == <<part, procVars, stdinVars, bsVars, bhVars>>

\* One component moves; the others rest in one of their initial states.
Only(p, bounds, rest) == part = p \/ bounds = rest

HostInit ==
  /\ part \in Parts
  /\ ProcInit /\ Only("processes", ppBounds, Host("windows", 1, FALSE, 0, 1, 0, 1))
  /\ StdinInit /\ Only("stdin", siBounds, Pipe("unix", 0, FALSE, 1, 1))
  /\ BsInit /\ Only("browser", bsBounds, BrowserUse({"p"}, 2, 0, 0))
  /\ BhInit /\ Only("harness", bhBounds, Harness({1}, {}, 2, 0, 1, 0, 0))

HostNext ==
  \/ /\ part = "processes" /\ ProcNext
     /\ UNCHANGED <<part, stdinVars, bsVars, bhVars>>
  \/ /\ part = "stdin" /\ StdinNext
     /\ UNCHANGED <<part, procVars, bsVars, bhVars>>
  \/ /\ part = "browser" /\ BsNext
     /\ UNCHANGED <<part, procVars, stdinVars, bhVars>>
  \/ /\ part = "harness" /\ BhNext
     /\ UNCHANGED <<part, procVars, stdinVars, bsVars>>

HostSpec ==
  /\ HostInit /\ [][HostNext]_hostVars
  /\ WF_procVars(part = "processes" /\ ProcStartStep)
  /\ WF_procVars(part = "processes" /\ Settle)
  /\ WF_procVars(part = "processes" /\ EdgeOpens)
  /\ \A p \in ProcIds : WF_procVars(part = "processes" /\ WorkerStep(p))
  /\ \A p \in ProcIds : WF_procVars(part = "processes" /\ Watch(p))
  /\ \A p \in ProcIds : WF_procVars(part = "processes" /\ LookOnOpen(p))
  /\ \A p \in ProcIds : SF_procVars(part = "processes" /\ (LookOnStatus(p) \/ LookOnList(p) \/ LookOnEffect(p)))
  /\ \A p \in ProcIds : WF_procVars(part = "processes" /\ (StopEscalates(p) \/ StopEnds(p)))
  /\ \A w \in BrowserWorkers : SF_bsVars(part = "browser" /\ BrowserWork(w))
  /\ WF_bsVars(part = "browser" /\ OpenProjectBrowserManager)
  /\ \A r \in HarnessRuns : WF_bhVars(part = "harness" /\ Supervise(r))
  /\ \A r \in HarnessRuns : WF_bhVars(part = "harness" /\ ExceedLimit(r))
  /\ WF_bhVars(part = "harness" /\ HarnessEdgeWorks)


\* Browsers: an action is performed once, a profile has one user, what
\* succeeded can be read, and the end a run reports is the one it had.
BrowsersSafe ==
  /\ part = "browser" => /\ BrowsesOnce /\ ProfileAlone /\ SucceededReadable /\ CleanedWhole
  /\ part = "harness" => EndNamesAreTrue

\* What the managers of processes promise over time: refusals have a cause,
\* revisions grow, profiles are kept and a stop that was told is true; every
\* row, stop and run settles and a busy browser is released.
ProcessesKeepOn ==
  /\ RefusedForCause
  /\ RevisionGrows
  /\ ProfileKept
  /\ StoppedToldTrue
  /\ RowsSettle
  /\ StopSettles
  /\ BusyReleased
  /\ RunConcludes
=============================================================================
