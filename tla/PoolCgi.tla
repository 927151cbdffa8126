------------------------------- MODULE PoolCgi -------------------------------
(***************************************************************************)
(* chapter_15/02_pool_cgi.c: the process pool written out for a CGI server.*)
(* It differs from ProcessPool in what is stated here: the parent does not *)
(* look whether a child is still there before it announces a connection or *)
(* signals it; a child learns of SIGTERM by a flag, ends when its pipe     *)
(* does, and forks a script for a request.                                 *)
(*                                                                         *)
(* Child i and its scripts hold copies of the parent's ends of the pipes   *)
(* to the children forked before it.  A request is incomplete so far, or   *)
(* its connection is closed, with or without a script to answer it.        *)
(***************************************************************************)
EXTENDS ProcessPool

VARIABLES open,      \* per child, connections it has accepted and not closed
          scripts    \* per child, scripts it has forked that still run

cgiVars == <<open, scripts>>

CgiInit ==
    /\ open = [i \in Children |-> 0] /\ scripts = [i \in Children |-> 0]

(* Nobody holds the parent's end of the pipe to child i any more.           *)
Closed(i) ==
    parent = "killed" /\ \A j \in Children : j > i => Ended(j) /\ scripts[j] = 0

(* The end of a pipe is an event; with an int unread it is the same event.  *)
PipesEnd(edge) ==
    pipeEdge' = [i \in Children |-> edge[i] \/ (Closed(i)' /\ ~Closed(i))]
EndMerges == \E i \in Children : Closed(i)' /\ ~Closed(i) /\ pipe[i] > 0
-----------------------------------------------------------------------------
CgiKillParent ==
    /\ parent \in {"setup", "run"} /\ parent' = "killed"
    /\ UNCHANGED <<m_pid, sub_process_counter, signals, sig_pipe, child, pipe, netVars,
                   excused, cgiVars>>
    /\ PipesEnd(pipeEdge) /\ stranded' = (stranded \/ EndMerges)

CgiDie(i) ==
    /\ Dies(i) /\ open' = [open EXCEPT ![i] = 0] /\ UNCHANGED scripts
    /\ PipesEnd([pipeEdge EXCEPT ![i] = FALSE])
    /\ stranded' = (stranded \/ pipe[i] > 0 \/ EndMerges)

CgiCrash(i) == ~Ended(i) /\ CgiDie(i)

(* SIGCHLD interrupts the child's epoll_wait, which is never restarted.     *)
ScriptEnds(i) ==
    /\ scripts[i] > 0 /\ scripts' = [scripts EXCEPT ![i] = @ - 1]
    /\ child' = IF child[i].pc = "blocked" THEN [child EXCEPT ![i].pc = "test"] ELSE child
    /\ UNCHANGED <<parentVars, sig_pipe, pipe, netVars, excused, open>>
    /\ PipesEnd(pipeEdge) /\ stranded' = (stranded \/ EndMerges)
-----------------------------------------------------------------------------
(* The parent: main.  Its SIGCHLD branch is the pool's.                     *)

CgiSetup == Setup /\ UNCHANGED cgiVars
CgiWaitpid(i) == Waitpid(i) /\ UNCHANGED cgiVars
CgiWaitpidNone == WaitpidNone /\ UNCHANGED cgiVars

CgiAnnounce ==
    /\ InLoop /\ listenEdge /\ listenEdge' = FALSE
    /\ \E i \in Children :
          IsNextBlindly(i) /\ SendTo(i) /\ stranded' = (stranded \/ IsMissed(i) \/ ~m_pid[i])
    /\ UNCHANGED <<parent, m_pid, signals, sig_pipe, child, backlog, conns, terms, excused,
                   cgiVars>>

(* kill(-1) for a child that is gone: every process of the user, scripts    *)
(* included.  A child between its test of stop_child and epoll_wait is not  *)
(* woken.                                                                   *)
CgiKilled(c) ==
    CASE c.pc = "setup" -> [c EXCEPT !.term = TRUE]
      [] c.pc \in {"test", "enter"} -> [c EXCEPT !.stop = TRUE]
      [] c.pc = "blocked" -> [c EXCEPT !.stop = TRUE, !.pc = "test"]
      [] OTHER -> c

CgiSigTerm ==
    /\ NextSignal("term")
    /\ signals' = Tail(signals)
    /\ child' = [i \in Children |-> CgiKilled(child[i])]
    /\ scripts' = [i \in Children |->
                     IF \E j \in Children : ~m_pid[j] THEN 0 ELSE scripts[i]]
    /\ excused' = (excused \/ \E i \in Children : child[i].pc = "enter")
    /\ UNCHANGED <<parent, m_pid, sub_process_counter, sig_pipe, pipeVars, netVars, stranded,
                   open>>

CgiParent ==
    \/ CgiSetup \/ CgiAnnounce \/ CgiWaitpidNone \/ CgiSigTerm
    \/ (RecvSignals \/ Exit) /\ UNCHANGED cgiVars
    \/ \E i \in Children : CgiWaitpid(i)
-----------------------------------------------------------------------------
(* A child: run_child                                                       *)

Goto(i, from, to) ==
    /\ child[i].pc = from /\ child' = [child EXCEPT ![i].pc = to]
    /\ UNCHANGED <<parentVars, sig_pipe, pipeVars, netVars, stranded, excused, cgiVars>>

CgiChildSetup(i) == ~child[i].term /\ Goto(i, "setup", "test")
GoOn(i) == ~child[i].stop /\ Goto(i, "test", "enter")
EnterWait(i) == Goto(i, "enter", "blocked")

CgiStop(i) ==
    /\ \/ child[i].pc = "setup" /\ child[i].term
       \/ child[i].pc = "test" /\ child[i].stop
    /\ CgiDie(i)

CgiAccept(i) ==
    /\ child[i].pc = "blocked" /\ pipe[i] > 0 /\ TakeInt(i)
    /\ child' = [child EXCEPT ![i].pc = "test"]
    /\ open' = [open EXCEPT ![i] = IF backlog > 0 THEN @ + 1 ELSE @]
    /\ UNCHANGED <<parentVars, sig_pipe, scripts>>

(* recv returns 0.  Mutant: the child goes on, as the pool's does.          *)
PipeEndIgnored(i) ==
    /\ child[i].pc = "blocked" /\ pipeEdge[i] /\ pipe[i] = 0
    /\ child' = [child EXCEPT ![i].pc = "test"]
    /\ pipeEdge' = [pipeEdge EXCEPT ![i] = FALSE]
    /\ UNCHANGED <<parentVars, sig_pipe, pipe, netVars, stranded, excused, cgiVars>>
PipeEnd(i) ==
    /\ child[i].pc = "blocked" /\ pipeEdge[i] /\ pipe[i] = 0
    /\ child' = [child EXCEPT ![i].pc = "test", ![i].stop = TRUE]
    /\ pipeEdge' = [pipeEdge EXCEPT ![i] = FALSE]
    /\ UNCHANGED <<parentVars, sig_pipe, pipe, netVars, stranded, excused, cgiVars>>

(* A request arrives, in part or to its end; the client's behaviour.        *)
Serve(i) ==
    /\ child[i].pc = "blocked" /\ open[i] > 0
    /\ child' = [child EXCEPT ![i].pc = "test"]
    /\ \/ UNCHANGED cgiVars
       \/ open' = [open EXCEPT ![i] = @ - 1] /\ UNCHANGED scripts
       \/ open' = [open EXCEPT ![i] = @ - 1] /\ scripts' = [scripts EXCEPT ![i] = @ + 1]
    /\ UNCHANGED <<parentVars, sig_pipe, pipeVars, netVars, stranded, excused>>

CgiChild(i) ==
    \/ CgiChildSetup(i) \/ GoOn(i) \/ EnterWait(i) \/ CgiStop(i) \/ CgiAccept(i) \/ PipeEnd(i)

CgiNext ==
    \/ (Connect \/ Terminate) /\ UNCHANGED cgiVars
    \/ CgiKillParent \/ CgiParent
    \/ \E i \in Children : CgiCrash(i) \/ ScriptEnds(i) \/ CgiChild(i) \/ Serve(i)
=============================================================================
