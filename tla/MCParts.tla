------------------------------ MODULE MCParts ------------------------------
(***************************************************************************)
(* Instances of what follows a process: a behaviour is one of its tree and *)
(* its groups, of its virtual pids, of its event descriptors, of its       *)
(* signals, of its timers, of its environment from launch on, or of the    *)
(* coordinator's connections with its clients.                             *)
(***************************************************************************)
EXTENDS ProcessTree, VirtualPids, Events, Signals, Timers, Launch, EventLoop

CONSTANT Parts
VARIABLE part

McMaxSent == [c \in Clients |-> IF c = 1 THEN 2 ELSE 0]

McMasks == {{}, {"b", "stop"}}

Timing(how, value, every) == [flags |-> how, value |-> value, every |-> every]
McSettings == {Timing("relative", 2, 0), Timing("relative", 2, 1), Timing("absolute", 1, 0),
               Timing("relative", 0, 0)}
McOwners == [kind : {"process"}, name : {"p", "q"}]

McOptions     == {"host", "openfiles", "plugin", "signal"}
McPreloads    == {<<>>, <<"b">>}
McOwnPreloads == {<<"b">>, <<"c">>}

\* A part that is not the behaviour's starts in one state.
Init ==
  /\ part \in Parts
  /\ IF part = "events" THEN TRUE ELSE eventKind = "epoll" /\ epollSize = 1
  /\ IF part = "signals" THEN TRUE ELSE ckptPending = {}
  /\ IF part = "timers" THEN TRUE ELSE about = "timers" /\ clockOf = CHOOSE f \in Clocks : TRUE
  /\ TreeInit /\ PidsInit /\ EventsInit /\ SignalsInit /\ TimersInit /\ LaunchInit /\ LoopInit

Next ==
  /\ UNCHANGED part
  /\ \/ /\ part = "tree" /\ TreeNext
        /\ UNCHANGED <<pidVars, eventVars, signalVars, timerVars, launchVars, loopVars>>
     \/ /\ part = "pids" /\ PidsNext
        /\ UNCHANGED <<treeVars, eventVars, signalVars, timerVars, launchVars, loopVars>>
     \/ /\ part = "events" /\ EventsNext
        /\ UNCHANGED <<treeVars, pidVars, signalVars, timerVars, launchVars, loopVars>>
     \/ /\ part = "signals" /\ SignalsNext
        /\ UNCHANGED <<treeVars, pidVars, eventVars, timerVars, launchVars, loopVars>>
     \/ /\ part = "timers" /\ TimersNext
        /\ UNCHANGED <<treeVars, pidVars, eventVars, signalVars, launchVars, loopVars>>
     \/ /\ part = "launch" /\ LaunchNext
        /\ UNCHANGED <<treeVars, pidVars, eventVars, signalVars, timerVars, loopVars>>
     \/ /\ part = "loop" /\ LoopNext
        /\ UNCHANGED <<treeVars, pidVars, eventVars, signalVars, timerVars, launchVars>>

Spec ==
  Init /\ [][Next]_<<part, treeVars, pidVars, eventVars, signalVars, timerVars, launchVars, loopVars>>

\* A restart makes each process once, in its group and session, under its parent; no
\* two processes have one virtual pid, and the tables name the right processes.
ProcessesKept == RestoredOnce /\ GroupsRestored /\ TreeRestored /\ DistinctVirtual /\ TablesTrue

=============================================================================
