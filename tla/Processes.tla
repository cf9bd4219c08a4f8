----------------------------- MODULE Processes -----------------------------
(***************************************************************************)
(* Processes, threads, pipes and buffered output as the programs of        *)
(* SmallPrograms see them.  A program is a sequence of calls; todo of a    *)
(* task is what is left of it.  A task is a process or a thread, a call is *)
(* one step, and the system may refuse a fork, an exec or a new thread.    *)
(*                                                                         *)
(* All of this is external to the repository: the kernel and the C library *)
(* as the programs use them.                                               *)
(***************************************************************************)
EXTENDS Integers, Sequences, FiniteSets, Functions

CONSTANTS Tasks,        \* a bound: the numbers of the tasks, 1 is the first
          NULL

VARIABLES
    task,       \* of each number: its rest of the program, process, memory, descriptors
    memory,     \* of each process: its variables and the buffer of stdout
    shared,     \* the variables in a shared mapping
    pipe,       \* what is in the pipe
    output,     \* what has reached the terminal and each file
    faults      \* history: "refused", "interrupt": what the system or the user did

procVars == <<task, memory, shared, pipe, output, faults>>

(* The terminal, the file stdout may be redirected to, and the file         *)
(* hello_redir opens.                                                       *)
Sink == {"tty", "log", "out2"}

NoTask == [todo |-> <<>>, state |-> "none", thread |-> FALSE, proc |-> 0, parent |-> 0,
           mem |-> 0, temp |-> 0, said |-> 0, pids |-> <<>>, fd |-> <<>>]

Descriptors(stdout) == [n \in 0..4 |-> CASE n = 0 -> "user" [] n = 1 -> stdout [] OTHER -> "closed"]

Fresh(vars, stdout) ==
    [var |-> vars, buffer |-> <<>>, by_line |-> stdout = "tty", handler |-> <<>>, mutex |-> NULL]

(* One process that runs p with the variables vars. *)
ProcInit(p, vars, stdout) ==
    /\ task = [t \in Tasks |->
                 IF t = 1 THEN [NoTask EXCEPT !.todo = p, !.state = "run", !.proc = 1,
                                              !.mem = 1, !.fd = Descriptors(stdout)]
                 ELSE NoTask]
    /\ memory = [t \in Tasks |-> Fresh(IF t = 1 THEN vars ELSE <<>>, stdout)]
    /\ shared = [v \in DOMAIN vars |-> 0]
    /\ pipe = <<>>
    /\ output = [s \in Sink |-> <<>>]
    /\ faults = {}

Running == {t \in Tasks : task[t].state = "run"}
Mem(t) == memory[task[t].mem]

Writers == {t \in Running : "w" \in Range(task[t].fd)}
Readers == {t \in Running : "r" \in Range(task[t].fd)}

(* Task t's next call is op; the rest of its program is r. *)
Calls(t, op) ==
    /\ t \in Running
    /\ task[t].todo # <<>>
    /\ Head(task[t].todo).op = op

Call(t) == Head(task[t].todo)
Rest(t) == Tail(task[t].todo)
GoesOn(t) == task' = [task EXCEPT ![t].todo = Rest(t)]

-----------------------------------------------------------------------------
(* Output: items go to the sink f, or into the pipe.                        *)
Deliver(items, f) ==
    /\ output' = IF f \in Sink THEN [output EXCEPT ![f] = @ \o items] ELSE output
    /\ pipe' = IF f = "w" THEN pipe \o items ELSE pipe

Flush(t) ==
    /\ memory' = [memory EXCEPT ![task[t].mem].buffer = <<>>]
    /\ Deliver(Mem(t).buffer, task[t].fd[1])

(* by and at tell which call has printed it: the task's number, which may   *)
(* be used again, and how many lines were printed under that number before. *)
Line(t) ==
    LET c == Call(t)
    IN  [by |-> t, at |-> task[t].said, text |-> c.text,
         val |-> CASE c.var = NULL -> NULL
                   [] c.op = "print_shared" -> shared[c.var]
                   [] OTHER -> Mem(t).var[c.var]]

Prints(t) == task' = [task EXCEPT ![t].todo = Rest(t), ![t].said = @ + 1]

(* stdout is flushed at the end of a line when it is a terminal. *)
Printf(t) ==
    /\ Calls(t, "print") \/ Calls(t, "print_shared")
    /\ LET b == Append(Mem(t).buffer, Line(t)) IN
       IF Call(t).newline /\ Mem(t).by_line
       THEN /\ Deliver(b, task[t].fd[1])
            /\ memory' = [memory EXCEPT ![task[t].mem].buffer = <<>>]
       ELSE /\ memory' = [memory EXCEPT ![task[t].mem].buffer = b]
            /\ UNCHANGED <<output, pipe>>
    /\ Prints(t)
    /\ UNCHANGED <<shared, faults>>

PrintError(t) ==
    /\ Calls(t, "print_error")
    /\ Deliver(<<Line(t)>>, "tty")
    /\ Prints(t)
    /\ UNCHANGED <<memory, shared, faults>>

FFlush(t) ==
    /\ Calls(t, "fflush")
    /\ Flush(t)
    /\ GoesOn(t)
    /\ UNCHANGED <<shared, faults>>

(* The user types a line; reading it flushes a terminal's output. *)
GetChar(t) ==
    /\ Calls(t, "getchar")
    /\ IF Mem(t).by_line THEN Flush(t) ELSE UNCHANGED <<memory, output, pipe>>
    /\ GoesOn(t)
    /\ UNCHANGED <<shared, faults>>

-----------------------------------------------------------------------------
(* Variables: of the process, of the task, and in the shared mapping.       *)
SetVar(t) ==
    /\ Calls(t, "set")
    /\ memory' = [memory EXCEPT ![task[t].mem].var[Call(t).var] = Call(t).val]
    /\ GoesOn(t)
    /\ UNCHANGED <<shared, pipe, output, faults>>

SetShared(t) ==
    /\ Calls(t, "set_shared")
    /\ shared' = [shared EXCEPT ![Call(t).var] = Call(t).val]
    /\ GoesOn(t)
    /\ UNCHANGED <<memory, pipe, output, faults>>

Load(t) ==
    /\ Calls(t, "load")
    /\ task' = [task EXCEPT ![t].todo = Rest(t), ![t].temp = Mem(t).var[Call(t).var]]
    /\ UNCHANGED <<memory, shared, pipe, output, faults>>

(* The loaded value plus val. *)
Store(t) ==
    /\ Calls(t, "store")
    /\ memory' = [memory EXCEPT ![task[t].mem].var[Call(t).var] = task[t].temp + Call(t).val]
    /\ GoesOn(t)
    /\ UNCHANGED <<shared, pipe, output, faults>>

Add(t) ==
    /\ Calls(t, "add")
    /\ memory' = [memory EXCEPT ![task[t].mem].var[Call(t).var] = @ + Mem(t).var[Call(t).from]]
    /\ GoesOn(t)
    /\ UNCHANGED <<shared, pipe, output, faults>>

Lock(t) ==
    /\ Calls(t, "lock")
    /\ Mem(t).mutex = NULL
    /\ memory' = [memory EXCEPT ![task[t].mem].mutex = t]
    /\ GoesOn(t)
    /\ UNCHANGED <<shared, pipe, output, faults>>

Unlock(t) ==
    /\ Calls(t, "unlock")
    /\ memory' = [memory EXCEPT ![task[t].mem].mutex = NULL]
    /\ GoesOn(t)
    /\ UNCHANGED <<shared, pipe, output, faults>>

-----------------------------------------------------------------------------
(* Tasks.  The lowest unused number is the next one: that there is one is a *)
(* bound.                                                                   *)
Unused == {t \in Tasks : task[t].state \in {"none", "gone"}}
NextTask == CHOOSE n \in Unused : \A m \in Unused : n <= m

(* The child has a copy of memory and descriptors, the buffer included. *)
Fork(t) ==
    /\ Calls(t, "fork") /\ Unused # {}
    /\ LET n == NextTask IN
       /\ task' = [task EXCEPT
                     ![t].todo = Rest(t),
                     ![t].pids = Append(@, n),
                     ![n] = [task[t] EXCEPT !.todo = Call(t).body, !.proc = n, !.mem = n,
                                            !.parent = t, !.said = task[n].said]]
       /\ memory' = [memory EXCEPT ![n] = Mem(t)]
    /\ UNCHANGED <<shared, pipe, output, faults>>

(* With CLONE_VM the child has the memory itself. *)
Clone(t) ==
    /\ Calls(t, "clone") /\ Unused # {}
    /\ LET n == NextTask IN
       task' = [task EXCEPT
                  ![t].todo = Rest(t),
                  ![t].pids = Append(@, n),
                  ![n] = [task[t] EXCEPT !.todo = Call(t).body, !.proc = n, !.parent = t,
                                         !.said = task[n].said]]
    /\ UNCHANGED <<memory, shared, pipe, output, faults>>

Create(t) ==
    /\ Calls(t, "create") /\ Unused # {}
    /\ LET n == NextTask IN
       task' = [task EXCEPT
                  ![t].todo = Rest(t),
                  ![n] = [task[t] EXCEPT !.todo = Call(t).body, !.thread = TRUE, !.parent = t,
                                         !.said = task[n].said]]
    /\ UNCHANGED <<memory, shared, pipe, output, faults>>

(* fork, clone and open return -1, pthread_create an error. *)
Refuse(t) ==
    /\ \E op \in {"fork", "clone", "create", "open"} : Calls(t, op)
    /\ Call(t).refused # NULL
    /\ faults' = faults \cup {"refused"}
    /\ task' = [task EXCEPT ![t].todo = Call(t).refused \o Rest(t),
                            ![t].pids = Append(@, -1)]
    /\ UNCHANGED <<memory, shared, pipe, output>>

(* The program is replaced; what was in the buffer is gone. *)
Exec(t) ==
    /\ Calls(t, "exec")
    /\ task' = [task EXCEPT ![t].todo = Call(t).body]
    /\ memory' = [memory EXCEPT ![task[t].mem] = Fresh(Call(t).vars, task[t].fd[1])]
    /\ UNCHANGED <<shared, pipe, output, faults>>

ExecFails(t) ==
    /\ Calls(t, "exec")
    /\ faults' = faults \cup {"refused"}
    /\ GoesOn(t)
    /\ UNCHANGED <<memory, shared, pipe, output>>

Ended(r, how) ==
    [r EXCEPT !.state = IF r.thread THEN "gone" ELSE how, !.todo = <<>>, !.fd = <<>>]

(* A process ends, how is "zombie" or "killed", and its threads with it.    *)
EndOf(t, how) ==
    task' = [u \in Tasks |->
               IF u \in Running /\ task[u].proc = task[t].proc THEN Ended(task[u], how) ELSE task[u]]

(* exit, or the end of main, flushes the buffer. *)
Exit(t) ==
    /\ \/ Calls(t, "exit")
       \/ t \in Running /\ task[t].todo = <<>> /\ ~task[t].thread
             /\ task[t].mem = task[t].proc
    /\ EndOf(t, "zombie")
    /\ Flush(t)
    /\ UNCHANGED <<shared, faults>>

(* A thread's function, or a clone's, returns. *)
Return(t) ==
    /\ t \in Running /\ task[t].todo = <<>>
    /\ task[t].thread \/ task[t].mem # task[t].proc
    /\ task' = [task EXCEPT ![t] = Ended(@, "zombie")]
    /\ UNCHANGED <<memory, shared, pipe, output, faults>>

Children(t) == {u \in Tasks : task[u].parent = t /\ ~task[u].thread
                                /\ task[u].state \in {"run", "zombie", "killed"}}

(* waitpid of the pid the n-th fork returned, where -1 is any child.  body   *)
(* follows when it exited, bad when a signal killed it; it is an error, and *)
(* nothing follows, when there is no such child.                            *)
WaitPid(t) ==
    /\ Calls(t, "waitpid")
    /\ LET p == task[t].pids[Call(t).n]
           these == {u \in Children(t) : u = p \/ p = -1} IN
       \/ /\ these = {}
          /\ GoesOn(t)
       \/ \E u \in these :
             /\ task[u].state # "run"
             /\ task' = [task EXCEPT
                           ![t].todo = (IF task[u].state = "killed" THEN Call(t).bad
                                        ELSE Call(t).body) \o Rest(t),
                           ![u].state = "gone"]
    /\ UNCHANGED <<memory, shared, pipe, output, faults>>

(* pthread_join of all the threads t has created. *)
Join(t) ==
    /\ Calls(t, "join")
    /\ \A u \in Tasks : task[u].thread /\ task[u].parent = t => task[u].state = "gone"
    /\ GoesOn(t)
    /\ UNCHANGED <<memory, shared, pipe, output, faults>>

-----------------------------------------------------------------------------
(* Descriptors and the pipe.                                                *)
MakePipe(t) ==
    /\ Calls(t, "pipe")
    /\ task' = [task EXCEPT ![t].todo = Rest(t), ![t].fd[3] = "r", ![t].fd[4] = "w"]
    /\ UNCHANGED <<memory, shared, pipe, output, faults>>

Open(t) ==
    /\ Calls(t, "open")
    /\ task' = [task EXCEPT ![t].todo = Rest(t), ![t].fd[3] = Call(t).name]
    /\ UNCHANGED <<memory, shared, pipe, output, faults>>

Close(t) ==
    /\ Calls(t, "close")
    /\ task' = [task EXCEPT ![t].todo = Rest(t), ![t].fd[Call(t).n] = "closed"]
    /\ UNCHANGED <<memory, shared, pipe, output, faults>>

Dup2(t) ==
    /\ Calls(t, "dup2")
    /\ task' = [task EXCEPT ![t].todo = Rest(t), ![t].fd[Call(t).to] = task[t].fd[Call(t).n]]
    /\ UNCHANGED <<memory, shared, pipe, output, faults>>

(* write, into a pipe that somebody can read. *)
Write(t) ==
    /\ Calls(t, "write")
    /\ Readers # {}
    /\ pipe' = pipe \o Call(t).bytes
    /\ GoesOn(t)
    /\ UNCHANGED <<memory, shared, output, faults>>

(* The write raises SIGPIPE when nobody can. *)
BrokenPipe(t) ==
    /\ Calls(t, "write")
    /\ Readers = {}
    /\ EndOf(t, "killed")
    /\ UNCHANGED <<memory, shared, pipe, output, faults>>

(* One read of one byte, which var counts; body follows, and then the next  *)
(* read; at the end of the file the loop ends.                              *)
ReadByte(t) ==
    /\ Calls(t, "read")
    /\ \/ /\ pipe # <<>>
          /\ pipe' = Tail(pipe)
          /\ memory' = [memory EXCEPT ![task[t].mem].var[Call(t).var] = @ + 1]
          /\ task' = [task EXCEPT ![t].todo = Call(t).body \o @]
       \/ /\ pipe = <<>> /\ Writers = {}
          /\ GoesOn(t)
          /\ UNCHANGED <<memory, pipe>>
    /\ UNCHANGED <<shared, output, faults>>

(* scanf of a number: it ends at a character that is no digit, or at the    *)
(* end of the file; without a number the variable keeps what it had.        *)
Scan(t) ==
    /\ Calls(t, "scan")
    /\ task[t].fd[0] = "r" /\ Writers = {}
    /\ memory' = [memory EXCEPT ![task[t].mem].var[Call(t).var] =
                    IF pipe = <<>> THEN @ ELSE Head(pipe).val]
    /\ pipe' = <<>>
    /\ GoesOn(t)
    /\ UNCHANGED <<shared, output, faults>>

-----------------------------------------------------------------------------
(* signal(SIGINT, handler), and the SIGINT itself: one is sent, to any      *)
(* process; without a handler it kills.                                     *)
Signal(t) ==
    /\ Calls(t, "signal")
    /\ memory' = [memory EXCEPT ![task[t].mem].handler = Call(t).body]
    /\ GoesOn(t)
    /\ UNCHANGED <<shared, pipe, output, faults>>

Interrupt(t) ==
    /\ t \in Running /\ ~task[t].thread
    /\ "interrupt" \notin faults
    /\ faults' = faults \cup {"interrupt"}
    /\ IF Mem(t).handler = <<>> THEN EndOf(t, "killed")
       ELSE task' = [task EXCEPT ![t].todo = Mem(t).handler \o @]
    /\ UNCHANGED <<memory, shared, pipe, output>>

-----------------------------------------------------------------------------
Step(t) ==
    \/ Printf(t) \/ PrintError(t) \/ FFlush(t)
    \/ SetVar(t) \/ SetShared(t) \/ Load(t) \/ Store(t) \/ Add(t) \/ Lock(t) \/ Unlock(t)
    \/ Fork(t) \/ Clone(t) \/ Create(t) \/ Refuse(t) \/ Exec(t) \/ ExecFails(t)
    \/ Exit(t) \/ Return(t) \/ WaitPid(t) \/ Join(t)
    \/ MakePipe(t) \/ Open(t) \/ Close(t) \/ Dup2(t)
    \/ Write(t) \/ BrokenPipe(t) \/ ReadByte(t) \/ Scan(t)
    \/ Signal(t)

-----------------------------------------------------------------------------
(* The calls of a program, with the fields each of them has.                *)
Do(op) ==
    [op |-> op, text |-> NULL, var |-> NULL, from |-> NULL, newline |-> TRUE, val |-> 0,
     body |-> <<>>, bad |-> <<>>, refused |-> NULL, vars |-> <<>>, n |-> 0, to |-> 0,
     bytes |-> <<>>, name |-> NULL]

Says(text) == [Do("print") EXCEPT !.text = text]
Shows(text, v) == [Says(text) EXCEPT !.var = v]
ShowsShared(text, v) == [Shows(text, v) EXCEPT !.op = "print_shared"]
Prompts(text) == [Says(text) EXCEPT !.newline = FALSE]
Complains(text) == [Says(text) EXCEPT !.op = "print_error"]
Sets(v, x) == [Do("set") EXCEPT !.var = v, !.val = x]
SetsShared(v, x) == [Sets(v, x) EXCEPT !.op = "set_shared"]
AddsTo(v, w) == [Do("add") EXCEPT !.var = v, !.from = w]
Increments(v, x) == <<[Do("load") EXCEPT !.var = v], [Do("store") EXCEPT !.var = v, !.val = x]>>

(* Without refused the program does not survive, or test, the refusal. *)
Forks(child, refused) == [Do("fork") EXCEPT !.body = child, !.refused = refused]
Clones(child, refused) == [Forks(child, refused) EXCEPT !.op = "clone"]
Creates(thread, refused) == [Forks(thread, refused) EXCEPT !.op = "create"]
Executes(calls, vars) == [Do("exec") EXCEPT !.body = calls, !.vars = vars]
WaitsFor(n, exited, killed) == [Do("waitpid") EXCEPT !.n = n, !.body = exited, !.bad = killed]
Fails(text) == <<Complains(text), Do("exit")>>
=============================================================================
