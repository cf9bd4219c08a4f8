--------------------------- MODULE SmallPrograms ---------------------------
(***************************************************************************)
(* The small programs of aula-03-18 to aula-05-27 about processes, pipes,  *)
(* memory and threads, each as the sequence of its calls.  What they print *)
(* is kept as far as it tells a result or a line apart; show_avail_mem,    *)
(* sleeps and times are left out, and so are wrong arguments, which end a  *)
(* program with a message.                                                 *)
(***************************************************************************)
EXTENDS Processes, SequencesExt, FiniteSetsExt

CONSTANTS ITERATIONS,   \* bound: rounds of a loop; 10000000 in race.c, 5 in padder.c
          NTHREADS,     \* 10 in race.c, 2 and 4 in the adders, 5000 in create_threads.c
          NVALS         \* numbers to add; 20000000 and 20000

VARIABLES program,      \* which program runs
          stdout        \* where its standard output goes, "tty" or "log"

Exits == Do("exit")
Times(n, p) == FlattenSeq([i \in 1..n |-> p])

(* lib/meminfo.c *)
phase_start(text) == <<Says(text), Do("getchar")>>

-----------------------------------------------------------------------------
(* Output. *)
hello == <<Says("Hello"), Do("fflush"), Prompts("press enter"), Do("getchar")>>

hello_redir ==
    <<Says("Hello"),
      [Do("open") EXCEPT !.name = "out2", !.refused = Fails("error creating")],
      Says("new fd out"), [Do("dup2") EXCEPT !.n = 3, !.to = 1],
      Says("Hello now to new standard output!")>>

addresses ==
    <<Prompts("start"), Do("getchar"), Says("addr(global)"), Prompts("addr(main)"), Do("getchar"),
      Prompts("before"), Do("getchar"), Sets("val", 4), Shows("after", "val"), Do("getchar")>>

-----------------------------------------------------------------------------
(* Parents and children. *)
WaitForChild ==
    WaitsFor(1, <<Says("child returned")>>, <<Says("child bad termination!")>>)

(* Mutant: the first line has no end. *)
TforkPrompts ==
    <<Prompts("parent process"),
      Forks(<<Sets("val", 25), Shows("child", "val"), Exits>>, Fails("error creating child")),
      WaitForChild, Shows("val", "val"), Says("child process id")>>

(* aula-03-19 *)
tfork ==
    <<Says("parent process"),
      Forks(<<Sets("val", 25), Shows("child", "val"), Exits>>, Fails("error creating child")),
      WaitForChild, Shows("val", "val"), Says("child process id")>>

(* aula-03-24, without and with an argument: then the parent does not wait. *)
tfork24(wait_child) ==
    <<Says("parent process"),
      Forks(<<Shows("child", "val"), Sets("val", 25), Exits>>, Fails("error creating child"))>>
    \o IF wait_child THEN <<WaitForChild, Shows("val", "val"), Says("child process id")>>
       ELSE <<Prompts("press return"), Do("getchar")>>

apptest == <<Says("args"), Says("environment variables")>>

texec ==
    <<Forks(<<Executes(apptest, <<>>)>> \o Fails("error loading"), Fails("error creating child")),
      WaitsFor(1, <<>>, <<>>), Says("done!")>>

sigint == <<Says("sigint received!")>>

(* The parent that does not wait sleeps for a while and ends; newline tells *)
(* aula-03-26 from aula-03-25.                                              *)
tfork2(wait_child, newline) ==
    <<[Do("signal") EXCEPT !.body = sigint], Says("parent process"),
      Forks(<<Shows("child", "val"), Sets("val", 25), Prompts("terminate now!"), Exits>>,
            Fails("error creating child"))>>
    \o IF wait_child THEN <<WaitForChild, Shows("val", "val"), Says("child process id")>>
       ELSE <<[Says("wait 60 seconds") EXCEPT !.newline = newline]>>

-----------------------------------------------------------------------------
(* Pipes.  p[0] is the descriptor 3 and p[1] the descriptor 4.              *)
Closes(n) == [Do("close") EXCEPT !.n = n]
Dups(n, to) == [Do("dup2") EXCEPT !.n = n, !.to = to]

(* Each byte is printed as it comes. *)
tpipe ==
    <<Do("pipe"),
      Forks(<<Closes(3), [Do("write") EXCEPT !.bytes = <<"hello", "\\0">>], Exits>>, <<>>),
      Closes(4),
      [Do("read") EXCEPT !.var = "n", !.body = <<Prompts("byte"), Do("fflush")>>], Closes(3),
      Shows("bytes read", "n"), Says("msg"), WaitsFor(1, <<>>, <<>>)>>

(* Without an argument num is what scanf finds, and whatever it was before  *)
(* when it finds nothing; garbage stands for that.                          *)
garbage == 99

inc(argument) ==
    argument \o Increments("num", 1)
    \o <<[Prompts("num") EXCEPT !.var = "num"], Complains("pid, parent pid")>>

(* inc 5 | inc *)
tpipe2 ==
    LET first == inc(<<Sets("num", 5)>>)
        second == inc(<<[Do("scan") EXCEPT !.var = "num"]>>)
    IN  <<Do("pipe"),
          Forks(<<Closes(3), Dups(4, 1), Closes(4), Executes(first, [num |-> garbage])>>
                \o Fails("error loading first inc"), <<>>),
          Forks(<<Closes(4), Dups(3, 0), Closes(3), Executes(second, [num |-> garbage])>>
                \o Fails("error loading second inc"), <<>>),
          Closes(3), Closes(4), Says("wait for child termination!"),
          WaitsFor(1, <<>>, <<>>), WaitsFor(2, <<>>, <<>>), Says("done!")>>

-----------------------------------------------------------------------------
(* Memory.  data and ints stand for all the elements of a buffer.           *)
mem2 ==
    phase_start("do malloc") \o phase_start("read data") \o phase_start("do write")
    \o <<Sets("data", 1)>> \o phase_start("create child")
    \o <<Forks(phase_start("do read in child") \o phase_start("do write in child")
               \o <<Sets("data", 2)>> \o phase_start("terminate child") \o <<Exits>>, <<>>),
         WaitsFor(1, <<>>, <<>>)>>
    \o phase_start("termination")

smem_child ==
    phase_start("file map") \o phase_start("escrever")
    \o <<SetsShared("ints", 1)>> \o phase_start("criar processo filho")
    \o <<Forks(<<ShowsShared("filho: sum ints", "ints")>> \o phase_start("escrever")
               \o <<SetsShared("ints", 2)>> \o phase_start("terminar") \o <<Exits>>, <<>>),
         WaitsFor(1, <<>>, <<>>)>>
    \o phase_start("ler") \o <<ShowsShared("sum ints", "ints")>>
    \o phase_start("terminar: unmap") \o phase_start("terminar: fim")

-----------------------------------------------------------------------------
(* Threads. *)
hello_pthreads ==
    <<Says("main thread"), Creates(<<Says("hello from pthread")>>, Fails("error creating pthread"))>>

(* Mutant: the threads of race.c do not lock. *)
FuncWithoutMutex == Times(ITERATIONS, Increments("result", 1))

pthread_func ==
    Times(ITERATIONS, <<Do("lock")>> \o Increments("result", 1) \o <<Do("unlock")>>)

race ==
    [i \in 1..NTHREADS |-> Creates(pthread_func, NULL)]
    \o <<Do("join"), Shows("result", "result")>>

(* aula-05-27/tp: the threads do nothing. *)
create_threads ==
    [i \in 1..NTHREADS |-> Creates(<<>>, Fails("error creating thread"))]
    \o <<Do("join"), Says("passed")>>

(* The lines that child and parent print at the same time are left out.     *)
child_func == Increments("num", 2)

(* A clone that was refused leaves nothing to wait for. *)
clonetest == <<Clones(child_func, Fails("error creating child"))>>
             \o <<WaitsFor(1, <<Shows("parent: num", "num")>>, <<Shows("parent: num", "num")>>)>>

-----------------------------------------------------------------------------
(* The adders, whose numbers are all 1: a range adds its length.            *)
Result(i) == IF i = 1 THEN "result1" ELSE "result2"
range_size == NVALS \div NTHREADS
AddsUp == [i \in 1..NTHREADS |-> AddsTo("total", Result(i))]

(* aula-05-26: a thread adds into its context. *)
padder ==
    FlattenSeq([i \in 1..NTHREADS |->
        <<Sets(Result(i), 0), Creates(Times(range_size, Increments(Result(i), 1)), NULL)>>])
    \o <<Do("join"), Sets("total", 0)>> \o AddsUp \o <<Shows("vals sum", "total")>>

(* aula-05-27: the end of a range is at most that of the array, and a       *)
(* thread writes its sum once.                                              *)
RangeLength(i) == Min({NVALS, i * range_size}) - (i - 1) * range_size

par_adder ==
    FlattenSeq([i \in 1..NTHREADS |->
        <<Sets(Result(i), 0), Creates(<<Sets(Result(i), RangeLength(i))>>, NULL)>>])
    \o <<Do("join"), Sets("total", 0)>> \o AddsUp

seq_adder == <<Sets("total", NVALS)>>

test(name, sum_func) == Times(ITERATIONS, sum_func) \o <<Shows(name, "total")>>

(* The endless loop of main stops after ITERATIONS rounds. *)
padder27 == Times(ITERATIONS, test("seq", seq_adder) \o test("par", par_adder))

-----------------------------------------------------------------------------
Calls_of ==
    [hello |-> hello, hello_redir |-> hello_redir, addresses |-> addresses, tfork |-> tfork,
     tfork24 |-> tfork24(TRUE), tfork24_arg |-> tfork24(FALSE), texec |-> texec,
     tfork2 |-> tfork2(TRUE, TRUE), tfork2_arg25 |-> tfork2(FALSE, FALSE),
     tfork2_arg26 |-> tfork2(FALSE, TRUE), tpipe |-> tpipe, tpipe2 |-> tpipe2, mem2 |-> mem2,
     smem_child |-> smem_child, hello_pthreads |-> hello_pthreads, race |-> race,
     create_threads |-> create_threads, clonetest |-> clonetest, padder |-> padder,
     padder27 |-> padder27]

Variables ==
    [val |-> 10, n |-> 0, num |-> 0, data |-> 0, ints |-> 0, result |-> 0, result1 |-> 0,
     result2 |-> 0, total |-> 0]

Init ==
    /\ program \in DOMAIN Calls_of
    /\ stdout \in {"tty", "log"}
    /\ ProcInit(Calls_of[program], Variables, stdout)

Next ==
    /\ \E t \in Tasks : Step(t) \/ GetChar(t) \/ Interrupt(t)
    /\ UNCHANGED <<program, stdout>>

TaskStep(t) == Step(t) /\ UNCHANGED <<program, stdout>>
UserTypes(t) == GetChar(t) /\ UNCHANGED <<program, stdout>>

-----------------------------------------------------------------------------
(* What each program must have printed, of the lines with a value. *)
Results ==
    CASE program = "addresses" -> {<<"after", 4>>}
      [] program = "tfork" -> {<<"child", 25>>, <<"val", 10>>}
      [] program \in {"tfork24", "tfork2"} -> {<<"child", 10>>, <<"val", 10>>}
      [] program \in {"tfork24_arg", "tfork2_arg25", "tfork2_arg26"} -> {<<"child", 10>>}
      [] program = "tpipe" -> {<<"bytes read", 2>>}
      [] program = "tpipe2" -> {<<"num", 7>>}
      [] program = "smem_child" -> {<<"filho: sum ints", 1>>, <<"sum ints", 2>>}
      [] program = "race" -> {<<"result", NTHREADS * ITERATIONS>>}
      [] program = "clonetest" -> {<<"parent: num", 2>>}
      [] program = "padder" -> {<<"vals sum", NVALS>>}
      [] program = "padder27" -> {<<"seq", NVALS>>, <<"par", NVALS>>}
      [] OTHER -> {}

Shown == Range(output[stdout])

(* Left to themselves the programs print the results they were written to   *)
(* show, whatever the order of their processes and threads: changes stay in *)
(* the process that makes them, or reach the other when memory is shared,   *)
(* no increment is lost, the whole pipe is read.                            *)
ResultsAreRight ==
    faults = {} =>
        LET shown == {<<l.text, l.val>> : l \in {k \in Shown : k.val # NULL}} IN
        /\ shown \subseteq Results
        /\ Running = {} => shown = Results
        /\ Running = {} /\ program = "mem2" => memory[1].var["data"] = 1

(* On a terminal no call prints twice, although fork copies what is still   *)
(* in the buffer of stdout: before every fork the buffer is empty.          *)
LinesComeOutOnce == stdout = "tty" => IsInjective(output["tty"])

AllEnded == Running = {}
=============================================================================
