--------------------------- MODULE ExperimentSteps ---------------------------
(***************************************************************************)
(* The vocabulary in which the evidence programs of this repository are    *)
(* written down: the experiments and the audits hash their inputs, make a  *)
(* private output, compute, and leave files that nobody may write twice.   *)
(*                                                                         *)
(* A program is a sequence of steps on files and on the things it reads,   *)
(* in the order of the code.  A loop over cases is one case; computation,  *)
(* wall budgets and gates are left out: they only raise, and every step of *)
(* a run may raise.  "output" is the private directory itself.             *)
(***************************************************************************)
EXTENDS Naturals, Sequences

Step(op, on) == [op |-> op, on |-> on]

\* Files.
Fresh(f) == <<Step("fresh", {f})>>      \* raise if it exists
MakeNew(f) == <<Step("make", {f})>>     \* mkdir that raises if it exists
Put(f) == <<Step("put", {f})>>          \* open('x'), then write
Over(f) == <<Step("over", {f})>>        \* open for writing whatever is there
Log(f) == <<Step("log", {f})>>          \* open('a'), one synced line
Found(f) == <<Step("found", {f})>>      \* read it: raise unless it is complete

\* Things: what the program reads, told apart by content hash.
Pin(things) == <<Step("pin", things)>>    \* hash, compare with the registered hash
Note(things) == <<Step("note", things)>>  \* hash, keep the hash for the report
Same(things) == <<Step("same", things)>>  \* hash again, compare with the one kept
Use(things) == <<Step("use", things)>>    \* read the content
Take(things) == <<Step("take", things)>>  \* read once: hash, compare and parse those bytes
Read(things) == <<Step("read", things)>>  \* read once: hash, keep and parse those bytes

\* Hash the file of that name, then open the name again and read it.
Checked(things) == Pin(things) \o Use(things)

\* Standard output: it may be closed.
Say == <<Step("say", {})>>

\* What a handler answers to: `except Exception`, or `except BaseException`.
Errors == {"error"}
Anything == {"error", "interrupt"}
Nothing == {}

\* A program: the steps before its try, those inside, those after; what its
\* handler catches, the file the handler writes and the file that completes it.
Program(before, tried, after, catches, failure, report) ==
    [steps |-> before \o tried \o after,
     guarded |-> (Len(before) + 1)..(Len(before) + Len(tried)),
     catches |-> catches, record |-> failure, report |-> report]

\* A program without a handler.
Bare(steps, report) == Program(steps, <<>>, <<>>, Nothing, "failure.json", report)

=============================================================================
