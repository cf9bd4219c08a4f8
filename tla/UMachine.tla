------------------------------ MODULE UMachine ------------------------------
(***************************************************************************)
(* The first user threads, src/aula-05-12/uthreads0, down to the memory:   *)
(* the scheduler of uthread.c over the links of list.h, the stacks, and    *)
(* the registers that ctxswitch.s saves and restores.  version "uthread0"  *)
(* is the smaller library of the same directory, uthread0.c over           *)
(* ctxswitch0.s.  UPrograms shows that both implement UThread.             *)
(*                                                                         *)
(* A library call is one step, as in UThread: nothing preempts a user      *)
(* thread.  Of the program only the registers matter: before each call it  *)
(* leaves values of its own in all of them.                                *)
(***************************************************************************)
EXTENDS ListLinks, Sequences, Functions

CONSTANTS Thread, Main, NULL,
          sentinel,     \* the list head ready_queue
          Version       \* subset of {"uthread", "uthread0"}

VARIABLES
    version,
    number_of_threads, running_thread, main_thread, allocated,
    link,       \* flink and blink of each descriptor and of the sentinel
    stack,      \* the words of each stack, the first one pushed first
    context,    \* where the saved context of a thread ends in its stack
    regs,       \* the registers a callee saves
    rsp,        \* how many words of the running stack are in use
    rip,        \* main, ut_run, internal_start, or program (in a thread's function)
    left        \* history: registers and stack pointer of each thread at its last call

machineVars == <<version, number_of_threads, running_thread, main_thread, allocated,
                 link, stack, context, regs, rsp, rip, left>>

unswitched == <<version, number_of_threads, main_thread, allocated>>

-----------------------------------------------------------------------------
Node == Thread \cup {sentinel}
Garbage == Linked(NULL, NULL)

-----------------------------------------------------------------------------
(* ctxswitch.s *)
Pushed == <<"rbp", "rbx", "r12", "r13", "r14", "r15">>
Register == Range(Pushed)

(* The words a call with return address ret leaves on the stack, followed   *)
(* by the registers of r in the order in which context_switch pushes them.  *)
Frame(ret, r) == <<ret>> \o [i \in 1..6 |-> r[Pushed[i]]]

(* Mutant: the registers are popped in the order they were pushed. *)
RestoresInOrder(next, st, top) ==
    /\ running_thread' = next
    /\ regs' = [r \in Register |->
                  st[next][CHOOSE n \in top-5..top : r = Pushed[top + 1 - n]]]
    /\ rip' = st[next][top - 6]
    /\ rsp' = top - 7

(* Switch to next's stack, pop the registers, return. *)
Restore(next, st, top) ==
    /\ running_thread' = next
    /\ regs' = [r \in Register |->
                  st[next][CHOOSE n \in top-5..top : r = Pushed[6 - (top - n)]]]
    /\ rip' = st[next][top - 6]
    /\ rsp' = top - 7

(* curr calls it with r in the registers and continues at ret. *)
context_switch(curr, next, ret, r) ==
    LET st == [stack EXCEPT ![curr] = SubSeq(@, 1, rsp) \o Frame(ret, r)] IN
    /\ stack' = st
    /\ context' = [context EXCEPT ![curr] = rsp + 7]
    /\ left' = [left EXCEPT ![curr] = [regs |-> r, rsp |-> rsp]]
    /\ Restore(next, st, context'[next])

(* Mutant: cleanup_thread is given the next thread. *)
ExitFreesNext(curr, next) ==
    /\ context' = context
    /\ stack' = [stack EXCEPT ![next] = <<>>]
    /\ allocated' = allocated \ {next}
    /\ Restore(next, stack, context[next])

(* cleanup_thread runs on next's stack, above its saved context, and frees  *)
(* curr's.                                                                  *)
internal_exit(curr, next) ==
    /\ context' = context
    /\ stack' = [stack EXCEPT ![curr] = <<>>]
    /\ allocated' = allocated \ {curr}
    /\ Restore(next, stack, context[next])

(* ctxswitch0.s sets running_thread at other points of the same code. *)
context_switch0(curr, next, ret, r) == context_switch(curr, next, ret, r)
internal_exit0(curr, next) == internal_exit(curr, next)

-----------------------------------------------------------------------------
(* uthread.c *)
extract_next_thread ==
    IF is_list_empty(link, sentinel) THEN main_thread ELSE link[sentinel].flink

AfterExtract(l) == IF is_list_empty(l, sentinel) THEN l ELSE remove_head_list(l, sentinel)

(* The values t may have in its registers when it calls: two sets of them,  *)
(* so that those of an earlier call are told apart.                         *)
Values(t) == {[r \in Register |-> <<t, r, n>>] : n \in 1..2}

(* schedule, called with the links l, from a place that continues at ret. *)
schedule(l, ret) ==
    LET next == IF is_list_empty(l, sentinel) THEN main_thread ELSE l[sentinel].flink IN
    /\ link' = AfterExtract(l)
    /\ \E r \in Values(running_thread) : context_switch(running_thread, next, ret, r)

InThread == rip = "program" /\ running_thread \in Thread

ut_init == link = init_list_head([n \in Node |-> Garbage], sentinel)

Init ==
    /\ version \in Version
    /\ ut_init
    /\ number_of_threads = 0
    /\ running_thread = NULL
    /\ main_thread = IF version = "uthread0" THEN Main ELSE NULL
    /\ allocated = {}
    /\ stack = [t \in Thread \cup {Main} |-> <<>>]
    /\ context = [t \in Thread \cup {Main} |-> 0]
    /\ regs \in Values(Main)
    /\ rsp = 0
    /\ rip = "main"
    /\ left = [t \in Thread \cup {Main} |-> [regs |-> regs, rsp |-> 0]]

(* The context a new thread starts from, mapped on top of its stack. *)
InitialFrame == <<"0x0", "internal_start", "0x00000000", "0x11111111",
                  "0x44444444", "0x55555555", "0x66666666", "0x77777777">>

ut_create(t) ==
    /\ version = "uthread"
    /\ rip = "main" \/ InThread
    /\ t \notin allocated
    /\ allocated' = allocated \cup {t}
    /\ stack' = [stack EXCEPT ![t] = InitialFrame]
    /\ context' = [context EXCEPT ![t] = 8]
    /\ number_of_threads' = number_of_threads + 1
    /\ link' = insert_tail_list(link, sentinel, t)
    /\ UNCHANGED <<version, running_thread, main_thread, regs, rsp, rip, left>>

(* internal_start calls the thread's function. *)
internal_start ==
    /\ rip = "internal_start"
    /\ rip' = "program"
    /\ left' = [left EXCEPT ![running_thread] = [regs |-> regs, rsp |-> rsp]]
    /\ UNCHANGED <<unswitched, running_thread, link, stack, context, regs, rsp>>

ut_yield ==
    /\ version = "uthread"
    /\ InThread
    /\ ~is_list_empty(link, sentinel)
    /\ schedule(insert_tail_list(link, sentinel, running_thread), "program")
    /\ UNCHANGED unswitched

ut_deactivate ==
    /\ version = "uthread"
    /\ InThread
    /\ schedule(link, "program")
    /\ UNCHANGED unswitched

ReadyThreads == Walk(link, sentinel, "flink")
Blocked == allocated \ (Range(ReadyThreads) \cup {running_thread})

(* The program activates blocked threads only. *)
ut_activate(t) ==
    /\ version = "uthread"
    /\ rip = "main" \/ InThread
    /\ t \in Blocked
    /\ link' = insert_tail_list(link, sentinel, t)
    /\ UNCHANGED <<unswitched, running_thread, stack, context, regs, rsp, rip, left>>

(* The thread's link goes with its descriptor. *)
ut_exit ==
    /\ version = "uthread"
    /\ InThread
    /\ number_of_threads' = number_of_threads - 1
    /\ link' = [AfterExtract(link) EXCEPT ![running_thread] = Garbage]
    /\ internal_exit(running_thread, extract_next_thread)
    /\ UNCHANGED <<version, main_thread, left>>

(* ut_run up to its switch; main's context is saved on the system's stack.  *)
ut_run ==
    /\ version = "uthread"
    /\ rip = "main"
    /\ ~is_list_empty(link, sentinel)
    /\ main_thread' = Main
    /\ link' = AfterExtract(link)
    /\ \E r \in Values(Main) : context_switch(Main, link[sentinel].flink, "ut_run", r)
    /\ UNCHANGED <<version, number_of_threads, allocated>>

(* The assertions hold, or the process aborts. *)
ut_run_returns ==
    /\ version = "uthread"
    /\ rip = "ut_run"
    /\ is_list_empty(link, sentinel)
    /\ number_of_threads = 0
    /\ running_thread' = NULL
    /\ main_thread' = NULL
    /\ rip' = "main"
    /\ UNCHANGED <<version, number_of_threads, allocated, link, stack, context, regs, rsp, left>>

-----------------------------------------------------------------------------
(* uthread0.c: main_thread is a global, nothing is counted or asserted.     *)
ut_next_thread == IF is_list_empty(link, sentinel) THEN Main ELSE link[sentinel].flink

schedule0(l, ret) ==
    LET next == IF is_list_empty(l, sentinel) THEN Main ELSE l[sentinel].flink IN
    /\ link' = AfterExtract(l)
    /\ \E r \in Values(running_thread) : context_switch0(running_thread, next, ret, r)

(* Registers other than rbp start with what is in the memory. *)
InitialFrame0 == <<"0x0", "internal_start", "0", "?", "?", "?", "?", "?">>

ut_create0(t) ==
    /\ version = "uthread0"
    /\ rip = "main" \/ InThread
    /\ t \notin allocated
    /\ allocated' = allocated \cup {t}
    /\ stack' = [stack EXCEPT ![t] = InitialFrame0]
    /\ context' = [context EXCEPT ![t] = 8]
    /\ link' = insert_tail_list(link, sentinel, t)
    /\ UNCHANGED <<version, number_of_threads, running_thread, main_thread, regs, rsp, rip, left>>

ut_yield0 ==
    /\ version = "uthread0"
    /\ InThread
    /\ ~is_list_empty(link, sentinel)
    /\ schedule0(insert_tail_list(link, sentinel, running_thread), "program")
    /\ UNCHANGED unswitched

ut_exit0 ==
    /\ version = "uthread0"
    /\ InThread
    /\ link' = [AfterExtract(link) EXCEPT ![running_thread] = Garbage]
    /\ internal_exit0(running_thread, ut_next_thread)
    /\ UNCHANGED <<version, number_of_threads, main_thread, left>>

(* With nobody ready the main thread switches to itself and goes on.        *)
ut_run0 ==
    /\ version = "uthread0"
    /\ rip = "main"
    /\ LET ret == IF is_list_empty(link, sentinel) THEN "main" ELSE "ut_run"
       IN  \E r \in Values(Main) : context_switch0(Main, ut_next_thread, ret, r)
    /\ link' = AfterExtract(link)
    /\ UNCHANGED unswitched

ut_run0_returns ==
    /\ version = "uthread0"
    /\ rip = "ut_run"
    /\ rip' = "main"
    /\ UNCHANGED <<unswitched, running_thread, link, stack, context, regs, rsp, left>>

-----------------------------------------------------------------------------
Next ==
    \/ \E t \in Thread : ut_create(t) \/ ut_create0(t) \/ ut_activate(t)
    \/ internal_start
    \/ ut_yield \/ ut_deactivate \/ ut_exit \/ ut_run \/ ut_run_returns
    \/ ut_yield0 \/ ut_exit0 \/ ut_run0 \/ ut_run0_returns

-----------------------------------------------------------------------------
(* The links of the ready queue are a circle that reads the same in both    *)
(* directions, and only linked descriptors are in it: no operation of       *)
(* list.h on a descriptor that is already linked, or freed, tears it.       *)
LinksAgree ==
    LET q == ReadyThreads IN
    /\ IsInjective(q) /\ Range(q) \subseteq allocated
    /\ Walk(link, sentinel, "blink") = [n \in 1..Len(q) |-> q[Len(q) + 1 - n]]

(* Whoever gets the processor back finds its registers and its stack        *)
(* pointer as they were when it called, however many switches, exits and    *)
(* freed stacks lie between.                                                *)
ResumesAsItLeft ==
    rip \in {"program", "ut_run"} =>
        /\ left[running_thread] = [regs |-> regs, rsp |-> rsp]
        /\ rip = "program" => running_thread \in allocated
=============================================================================
