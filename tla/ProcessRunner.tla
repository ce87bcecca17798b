---------------------------- MODULE ProcessRunner ----------------------------
(***************************************************************************)
(* One instance of a cluster behind a proxy, over the attempts of its      *)
(* worker: processRunner of pkg/task/task_run.go.                          *)
(*                                                                         *)
(* The worker starts an attempt when the last one has ended, which may be  *)
(* before the Launch of the last one has returned; the attempts share the  *)
(* runner, and with it the field ipc.  An attempt is seen as module        *)
(* Attempt has it: it ends once, and is told to stop at the latest then.   *)
(* An address is the number of the attempt that has made it up.  The proxy *)
(* is module LoadBalancer's; here it is the list of upstreams alone.       *)
(***************************************************************************)
EXTENDS Naturals

CONSTANT MaxAttempts   \* bound: attempts of the worker

ASSUME MaxAttemptsAssumption == MaxAttempts \in Nat

Attempts == 1..MaxAttempts
Addresses == 0..MaxAttempts   \* 0 is no address yet

VARIABLES begun,     \* how many attempts have begun
          ended,     \* those whose context is done
          told,      \* those whose stop channel is closed
          pc,        \* where the Launch of each is
          failed,    \* those whose Launch has returned an error of its own
          ipc,       \* h.ipc
          serve,     \* the address each process is told to serve at
          proc,      \* the process of each
          held,      \* those whose output a descendant of the process holds
          done,      \* those whose process has been waited for
          check,     \* where the latest health check of each is
          dialed,    \* the address it has read
          upstream,  \* the address each upstream leads to
          listed,    \* those whose upstream the proxy has
          remover,   \* where the goroutine is that removes it
          healthy    \* history: the addresses that have answered

runnerVars == <<begun, ended, told, pc, failed, ipc, serve, proc, held, done, check, dialed,
          upstream, listed, remover, healthy>>
contexts == <<begun, ended, told>>
network == <<upstream, listed, remover>>
checks == <<check, dialed, healthy>>

PCs == {"prepare", "environ", "start", "loop", "select", "sleep", "build", "add", "returned"}

RunnerTypeOK ==
    /\ begun \in 0..MaxAttempts
    /\ ended \subseteq Attempts /\ told \subseteq Attempts
    /\ pc \in [Attempts -> PCs]
    /\ failed \subseteq Attempts
    /\ ipc \in Addresses
    /\ serve \in [Attempts -> Addresses]
    /\ proc \in [Attempts -> {"none", "starting", "serving", "gone"}]
    /\ held \subseteq Attempts /\ done \subseteq Attempts
    /\ check \in [Attempts -> {"none", "called", "dialing", "yes", "no"}]
    /\ dialed \in [Attempts -> Addresses]
    /\ upstream \in [Attempts -> Addresses]
    /\ listed \subseteq Attempts
    /\ remover \in [Attempts -> {"none", "waiting", "over"}]
    /\ healthy \subseteq Addresses

RunnerInit ==
    /\ begun = 0 /\ ended = {} /\ told = {} /\ failed = {} /\ held = {} /\ done = {}
    /\ pc = [a \in Attempts |-> "prepare"]
    /\ ipc = 0
    /\ serve = [a \in Attempts |-> 0]
    /\ proc = [a \in Attempts |-> "none"]
    /\ check = [a \in Attempts |-> "none"]
    /\ dialed = [a \in Attempts |-> 0]
    /\ upstream = [a \in Attempts |-> 0]
    /\ listed = {}
    /\ remover = [a \in Attempts |-> "none"]
    /\ healthy = {}

Goto(a, l) == pc' = [pc EXCEPT ![a] = l]

-----------------------------------------------------------------------------
(* The worker's side: attempts begin, are told to stop, and end *)

Begin ==
    /\ begun < MaxAttempts /\ (begun > 0 => begun \in ended)
    /\ begun' = begun + 1
    /\ UNCHANGED <<ended, told, pc, failed, ipc, serve, proc, held, done, checks, network>>

Stop(a) ==
    /\ a <= begun /\ a \notin told
    /\ told' = told \cup {a}
    /\ UNCHANGED <<begun, ended, pc, failed, ipc, serve, proc, held, done, checks, network>>

EndAttempt(a) ==
    /\ ended' = ended \cup {a}
    /\ UNCHANGED <<begun, told, pc, failed, ipc, serve, proc, held, done, checks, network>>

\* A timeout, a kill, or the end of the cluster.
Interrupted(a) == a <= begun /\ a \notin ended /\ EndAttempt(a)

\* Run receives what the channel that Launch has returned delivers.
RunReceives(a) ==
    /\ a \notin ended /\ pc[a] = "returned" /\ a \in failed \cup done
    /\ EndAttempt(a)

-----------------------------------------------------------------------------
(* Launch *)

\* The command of a language is found, or made, before; that may take its time.
NewAddress(a) ==
    /\ a <= begun /\ pc[a] = "prepare"
    /\ ipc' = a
    /\ Goto(a, "environ")
    /\ UNCHANGED <<contexts, failed, serve, proc, held, done, checks, network>>

PrepareFails(a) ==
    /\ a <= begun /\ pc[a] = "prepare"
    /\ failed' = failed \cup {a}
    /\ Goto(a, "returned")
    /\ UNCHANGED <<contexts, ipc, serve, proc, held, done, checks, network>>

\* GOSU_SERVE is what h.ipc is now.
Environ(a) ==
    /\ pc[a] = "environ"
    /\ serve' = [serve EXCEPT ![a] = ipc]
    /\ Goto(a, "start")
    /\ UNCHANGED <<contexts, failed, ipc, proc, held, done, checks, network>>

\* cmd.Start, which refuses when the context is done.
StartFails(a) ==
    /\ pc[a] = "start"
    /\ failed' = failed \cup {a}
    /\ Goto(a, "returned")
    /\ UNCHANGED <<contexts, ipc, serve, proc, held, done, checks, network>>

StartProcess(a) ==
    /\ pc[a] = "start" /\ a \notin ended
    /\ proc' = [proc EXCEPT ![a] = "starting"]
    /\ Goto(a, "loop")
    /\ UNCHANGED <<contexts, failed, ipc, serve, held, done, checks, network>>

\* Faulty variant: the loop goes on although the process is over.
LoopOn(a) ==
    /\ pc[a] = "loop"
    /\ check' = [check EXCEPT ![a] = "called"] /\ Goto(a, "select")
    /\ UNCHANGED <<contexts, failed, ipc, serve, proc, held, done, dialed, healthy, network>>

\* for !done: without a server Launch returns the channel of cmd.Wait.
LaunchLoop(a) ==
    /\ pc[a] = "loop"
    /\ IF a \in done THEN Goto(a, "returned") /\ UNCHANGED check
                     ELSE check' = [check EXCEPT ![a] = "called"] /\ Goto(a, "select")
    /\ UNCHANGED <<contexts, failed, ipc, serve, proc, held, done, dialed, healthy, network>>

\* lifecheck(h.ipc), in a goroutine of its own, which nobody waits for when the
\* context is done.
CheckReads(a) ==
    /\ check[a] = "called"
    /\ check' = [check EXCEPT ![a] = "dialing"]
    /\ dialed' = [dialed EXCEPT ![a] = ipc]
    /\ UNCHANGED <<contexts, pc, failed, ipc, serve, proc, held, done, healthy, network>>

\* Who serves may be a descendant, as it is told the address too.
Answers(adr) == \E b \in Attempts : serve[b] = adr /\ (proc[b] = "serving" \/ b \in held)

CheckEnds(a) ==
    /\ check[a] = "dialing"
    /\ \/ /\ Answers(dialed[a])
          /\ check' = [check EXCEPT ![a] = "yes"]
          /\ healthy' = healthy \cup {dialed[a]}
       \/ check' = [check EXCEPT ![a] = "no"] /\ UNCHANGED healthy
    /\ UNCHANGED <<contexts, pc, failed, ipc, serve, proc, held, done, dialed, network>>

\* case <-ctx.Done(), of either select; the process is left to exec.
SelectDone(a) ==
    /\ pc[a] \in {"select", "sleep"} /\ a \in ended
    /\ failed' = failed \cup {a}
    /\ Goto(a, "returned")
    /\ UNCHANGED <<contexts, ipc, serve, proc, held, done, checks, network>>

\* Faulty variant: any answer will do.
SelectAnyCheck(a) ==
    /\ pc[a] = "select" /\ check[a] \in {"yes", "no"}
    /\ Goto(a, "build")
    /\ UNCHANGED <<contexts, failed, ipc, serve, proc, held, done, checks, network>>

\* Faulty variant: a check that has failed is still waited for.
SelectAnswer(a) ==
    /\ pc[a] = "select" /\ check[a] = "yes"
    /\ Goto(a, "build")
    /\ UNCHANGED <<contexts, failed, ipc, serve, proc, held, done, checks, network>>

SelectCheck(a) ==
    /\ pc[a] = "select" /\ check[a] \in {"yes", "no"}
    /\ Goto(a, IF check[a] = "yes" THEN "build" ELSE "sleep")
    /\ UNCHANGED <<contexts, failed, ipc, serve, proc, held, done, checks, network>>

Sleep(a) ==
    /\ pc[a] = "sleep"
    /\ Goto(a, "loop")
    /\ UNCHANGED <<contexts, failed, ipc, serve, proc, held, done, checks, network>>

\* NewIpcUpstream(ctx.Namespace(), h.ipc): the field is read again.
Build(a) ==
    /\ pc[a] = "build"
    /\ upstream' = [upstream EXCEPT ![a] = ipc]
    /\ Goto(a, "add")
    /\ UNCHANGED <<contexts, failed, ipc, serve, proc, held, done, checks, listed, remover>>

\* Faulty variant: nobody removes the upstream.
AddOnly(a) ==
    /\ pc[a] = "add"
    /\ listed' = listed \cup {a}
    /\ Goto(a, "returned")
    /\ UNCHANGED <<contexts, failed, ipc, serve, proc, held, done, checks, upstream, remover>>

AddUpstream(a) ==
    /\ pc[a] = "add"
    /\ listed' = listed \cup {a}
    /\ remover' = [remover EXCEPT ![a] = "waiting"]
    /\ Goto(a, "returned")
    /\ UNCHANGED <<contexts, failed, ipc, serve, proc, held, done, checks, upstream>>

\* <-ctx.Stopping(), which the end of the attempt closes too.
RemoveUpstream(a) ==
    /\ remover[a] = "waiting" /\ a \in told
    /\ listed' = listed \ {a}
    /\ remover' = [remover EXCEPT ![a] = "over"]
    /\ UNCHANGED <<contexts, pc, failed, ipc, serve, proc, held, done, checks, upstream>>

-----------------------------------------------------------------------------
(* The process, and what exec does with it *)

Serves(a) ==
    /\ proc[a] = "starting"
    /\ proc' = [proc EXCEPT ![a] = "serving"]
    /\ UNCHANGED <<contexts, pc, failed, ipc, serve, held, done, checks, network>>

\* It exits by itself, or because of the interrupt that a stop sends, or not.
Exits(a) ==
    /\ proc[a] \in {"starting", "serving"}
    /\ proc' = [proc EXCEPT ![a] = "gone"]
    /\ UNCHANGED <<contexts, pc, failed, ipc, serve, held, done, checks, network>>

\* CommandContext: the end of the context kills the process.
KilledByContext(a) == a \in ended /\ Exits(a)

\* What runs a script is often not the server but its parent, and the output of
\* the process, which is a pipe, is the child's as well; a child need not end
\* with its parent.
Forks(a) ==
    /\ proc[a] \in {"starting", "serving"} /\ a \notin held
    /\ held' = held \cup {a}
    /\ UNCHANGED <<contexts, pc, failed, ipc, serve, proc, done, checks, network>>

LetsGo(a) ==
    /\ a \in held
    /\ held' = held \ {a}
    /\ UNCHANGED <<contexts, pc, failed, ipc, serve, proc, done, checks, network>>

\* cmd.Wait returns, and done is set: as Stdout and Stderr are no files and there
\* is no WaitDelay, when nobody can write to the pipe any more.
WaitReturns(a) ==
    /\ proc[a] = "gone" /\ a \notin held /\ a \notin done
    /\ done' = done \cup {a}
    /\ UNCHANGED <<contexts, pc, failed, ipc, serve, proc, held, checks, network>>

\* The callback of the context (AfterMark and AfterSwap of MustWorker).
EndTells(a) == a \in ended /\ Stop(a)

-----------------------------------------------------------------------------
RunnerLaunch(a) ==
    \/ NewAddress(a) \/ PrepareFails(a) \/ Environ(a) \/ StartFails(a) \/ StartProcess(a)
    \/ LaunchLoop(a) \/ SelectDone(a) \/ SelectCheck(a) \/ Sleep(a) \/ Build(a) \/ AddUpstream(a)
Check(a) == CheckReads(a) \/ CheckEnds(a)
Process(a) == Serves(a) \/ Exits(a) \/ WaitReturns(a) \/ Forks(a) \/ LetsGo(a)

RunnerNext ==
    \/ Begin
    \/ \E a \in Attempts : \/ Stop(a) \/ Interrupted(a) \/ RunReceives(a)
                           \/ RunnerLaunch(a) \/ Check(a) \/ RemoveUpstream(a) \/ Process(a)

(***************************************************************************)
(* Fairness: goroutines run, the command is found, a select that finds its *)
(* context done again and again takes it (the choice is a random one), a   *)
(* killed process ends, cmd.Wait returns once the output is at its end,    *)
(* and a connection to no process is refused.  What accepts a connection   *)
(* need not answer, a process need not exit, and a descendant need not end.*)
(***************************************************************************)
RunnerFairness ==
    \A a \in Attempts :
        /\ WF_runnerVars(RunnerLaunch(a)) /\ SF_runnerVars(SelectDone(a))
        /\ WF_runnerVars(CheckReads(a)) /\ WF_runnerVars(~Answers(dialed[a]) /\ CheckEnds(a))
        /\ WF_runnerVars(KilledByContext(a)) /\ WF_runnerVars(WaitReturns(a))
        /\ WF_runnerVars(EndTells(a)) /\ WF_runnerVars(RunReceives(a))
        /\ WF_runnerVars(RemoveUpstream(a))

RunnerSpec == RunnerInit /\ [][RunnerNext]_runnerVars /\ RunnerFairness

-----------------------------------------------------------------------------
(* Properties *)

\* The proxy sends requests to nothing that has not answered: an upstream leads
\* to the process of its own attempt, which has passed a health check, unless
\* the Launch of another attempt has changed h.ipc meanwhile (task_run.go:76, 124-127).
ListedHasAnswered ==
    \A a \in listed : ipc = a => upstream[a] = a /\ a \in healthy

\* An attempt that has ended, for any reason and wherever its Launch was, leaves
\* neither an upstream nor a process of its own behind (task_run.go:60, 143-148);
\* the descendants of the process are not exec's to kill.
EndLeavesNothing ==
    \A a \in Attempts :
        a \in ended ~> [](pc[a] = "returned" /\ a \notin listed /\ proc[a] \in {"none", "gone"})

\* A descendant of a process holds up cmd.Wait, or the health check.
Withheld(a) ==
    a \in held \/ (check[a] = "dialing" /\ \E b \in held : serve[b] = dialed[a])

\* A process that exits ends its attempt, although Launch may be waiting for
\* its server (task_run.go:120-136), so that the worker can decide on a retry;
\* nothing but a descendant that outlives its process can hold this up for ever.
ExitEndsAttempt ==
    \A a \in Attempts : proc[a] = "gone" ~> (a \in ended \/ []Withheld(a))

\* Launch waits for its health check and for nothing else (task_run.go:60-150);
\* whatever else belongs to an attempt can go on whenever its condition holds,
\* the end of the context above all.
GoesOn(a) ==
    /\ a <= begun /\ pc[a] # "returned" /\ (pc[a] = "select" => a \in ended \/ check[a] \in {"yes", "no"})
          => ENABLED <<RunnerLaunch(a)>>_runnerVars
    /\ pc[a] \in {"select", "sleep"} /\ a \in ended => ENABLED <<SelectDone(a)>>_runnerVars
    /\ check[a] = "called" => ENABLED <<CheckReads(a)>>_runnerVars
    /\ check[a] = "dialing" /\ ~Answers(dialed[a])
          => ENABLED <<~Answers(dialed[a]) /\ CheckEnds(a)>>_runnerVars
    /\ proc[a] \in {"starting", "serving"} /\ a \in ended => ENABLED <<KilledByContext(a)>>_runnerVars
    /\ proc[a] = "gone" /\ a \notin held \cup done => ENABLED <<WaitReturns(a)>>_runnerVars
    /\ a \in ended /\ a \notin told => ENABLED <<EndTells(a)>>_runnerVars
    /\ pc[a] = "returned" /\ a \in done /\ a \notin ended => ENABLED <<RunReceives(a)>>_runnerVars
    /\ remover[a] = "waiting" /\ a \in told => ENABLED <<RemoveUpstream(a)>>_runnerVars
RunnerGoesOn == \A a \in Attempts : GoesOn(a)
=============================================================================
