# TLA+ models of the Rust debugger

The repository is a debugger ("mdb") for 32-bit x86 programs on Mac OS X, written
against ptrace and the Mach task interface.  This directory holds TLA+ models of
it, the TLC configurations that check them, and proofs for TLAPS.

All source paths below are relative to `src/lib/src/`.

## The system

| Part | State it keeps | Operations | Correct when |
|---|---|---|---|
| Breakpoints (`MDBBreakpoint`, `read`/`write` of `MDBDebugger`) | list of breakpoints, each with address, saved byte, enabled flag; the debuggee's memory | createBreakpoint, enable, disable, findBreakpoint, read, write | the program text is never lost, no int 3 is left behind, the debugger's reads do not see int 3, an enabled breakpoint is in memory |
| Debugger control (`MDBDebugger`) | where in a command it is; the breakpoint to put back | resume, step, stepOver, internalWait, killProcess | the debuggee executes its own program; no breakpoint is slipped past; a command that starts the debuggee comes back |
| Process and threads (`MDBProcess`, `MDBThread`) | thread list, copies of registers, running flag | gatherThreads, machCommitThread, suspend, resume | the copies are fresh when they are used; suspend counts come back to 0 |
| Debuggee and kernel (external) | registers, memory, suspend counts, pending stop | execute, trap, signal, start/end of threads, exit | - |
| Process launch (`createProcess`) | pid, task, errno, the wait status | taskport right, fork, PT_TRACE_ME, execv, first wait, task_for_pid | the console does not start while the child runs; the launch ends |
| Console (`test/MDBConsole`) | command table | command loop | ends when the process does |
| Symbols (`MDBCode`, `MDBMachReader`) | loaded files and their symbols | loadSymbols, parse, findSymbolByNameOrAddress | every reachable library once; the program's symbols come first |
| Code regions (`MDBCode`) | regions | scanProcedure, getOffset, getRegion | a region is a procedure, as far as the code can be read; every procedure called is found |
| Stack walk (`MDBStack`) | list of frames | updateState | ends; the frames are the chain in memory |
| Memory map (`MDBProcess`) | copies of regions | findAddress, logMemoryState, logDylinkerState | finds dyld; ends; frees its copies |
| List (`MBList`) | growable array | add, push, pop, replace, indexOf | behaves as a sequence |
| Thread and string helpers (`MBShared`) | `_is_running` | start, join, isRunning | isRunning tells the truth |
| Log, shared macros | - | output | - |

The console (or the test driver) calls the debugger; the debugger calls
`MDBProcess` for threads and `MDBBreakpoint` for patches; these call the kernel,
which acts on the debuggee.  The debuggee answers only through waitpid, in which
the debugger blocks.  The disassembler and the stack walk read the debuggee's
memory through `MDBDebugger::read`.

What is hard: the debuggee's threads run, trap, receive signals, start and end
between any two calls that the debugger makes while the task is resumed; a
breakpoint has to be taken out of memory for one instruction of one thread; the
debugger works on copies of registers; waitpid can be interrupted; the process
can die at any time; the breakpoint list may hold duplicates.  A launch can fail in
two processes that execute the same code.  And what the debugger computes from the
debuggee or from files - libraries that name one another, procedures that call one
another, chains of frame pointers - may be cyclic or broken.

The modules follow these parts: `MDBDebugger` composes debugger, kernel and debuggee
for everything between a launch and its end; `MDBLaunch` covers the launch and the
console around it, with the debuggee reduced to running, stopping and dying; the
modules under `MCStopped` cover what the debugger computes while the debuggee stands
still, which `MDBDebugger` does not need to see.

## The modules

### MDBBreakpoint

`memory`, `mapped` and `breakpoints` with the operators of the component
(`ReadByte`, `Written`, `Armed`, `EnableBreakpoint`, ...), and a client that calls
them in any order while library pages (`Volatile`) come and go.  What the code
does with return values is kept: `read()` returns -1 on failure and `write()`
always its size, so `enable()` never sees a failure.  `patch` is uninitialised
in a new breakpoint: any byte.

### Program

The debuggee as it behaves without a debugger: each step moves one thread along
`Successors`, starts or ends one, or ends the process.

### MDBDebugger

The composition: debugger, kernel and debuggee.  It INSTANCEs `MDBBreakpoint`
for memory and breakpoint list (with no volatile pages).

The debugger is sequential, and the debuggee stands still unless the debugger
has resumed the task.  So a stretch of debugger code from one resume or wait to
the next is one action, and `pc` says which stretch comes next:

| pc | code |
|---|---|
| `create` | the end of createProcess, after task_for_pid |
| `idle` | the client decides what to call |
| `check` | the loop of checkForBreakpointsAndStep, at thread `cursor` |
| `stepOver` | stepOver, after it has lifted the breakpoint |
| `enterWait` | internalWait, before pid_for_task |
| `wait` | internalWait, in waitpid |
| `return` | internalWait has returned `result` to `caller` |

That the debuggee does stand still in those stretches is not an assumption: the
invariant `StoppedWhileCommanding` checks it.  In one corner it is false (an
interrupted wait followed by a signal, see below); there the actions are coarser
than the code.

The kernel is modelled from the calls that the code makes: a trap or signal
suspends the task and leaves the thread WAITING (the comment at
MDBProcess.cpp:343), PT_CONTINUE undoes that, a thread runs only with task and
thread suspend counts at 0.  One stop is reported at a time.  `Events` selects what
the client and the environment may do in an instance:

| event | meaning |
|---|---|
| `signal` | signals that are passed on to the debuggee |
| `eintr` | waitpid is interrupted |
| `spawn` | threads are started, but not by an instruction that is being single-stepped |
| `spawnInStep` | also by such an instruction |
| `threadExit` | threads end (the last one by ending the process) |
| `exit`, `fatal`, `kill` | the process exits, dies of a signal, is killed by the client |
| `hook` | the client repeats initializeDylinkerHooks, as the test does |
| `stepOver` | the client uses stepOver |
| `duplicate` | the client creates several breakpoints at one address |

`Is64Bit` is what machIs64Bit() returns.  This commit returns TRUE always
(MDBProcess.cpp:415), although everything else is written for 32-bit programs:
the disassembler mode, the Mach-O reader, the registers the debugger acts on.
With TRUE, machUpdateThread fetches `state64`, which nothing reads, and `state32`
keeps whatever the allocation held (`Garbage`).  The model covers both values: FALSE
is the branch the algorithms were written for, TRUE the one that is built.  The
passing runs are about the former, `shipped_step` about the latter, and each theorem
says for which of them it holds.

Two history variables are read by no guard: `requested`, the breakpoints that the
client wants enabled, and `trapped`, the threads that executed an int 3 and have
not moved since.

Operators whose names end in `_Something` and that are marked "Mutant" are changed
copies of the definition that follows them, one plausible bug each.  Nothing uses
them; substituting one for its original makes a property fail.

### MCBreakpoint, MCDebugger

The instances for TLC.  MCDebugger's program is a loop that calls a function, with
two-byte instructions; from the middle of an instruction control may go anywhere,
so that a debuggee that has been derailed shows.

### MDBLaunch

createProcess() in both processes that fork() makes, and MDBConsole::run().  A child
whose PT_TRACE_ME or execv fails returns from createProcess() like its parent and
runs the same console loop, so `pc` is a function of the process and the actions of
the console (`Quit`, `Crash`, `Sleep`) take the process as a parameter.  The kernel's
part is small: a traced process stops after its exec and on signals, an untraced
one dies of them, waitpid reports one change at a time and no stop of a process that
runs again, and a traced process dies with its tracer.

`errno` is a variable because the code's control depends on it: no success resets it,
and the loop around the first waitpid repeats a call that succeeded if errno is EINTR.
`status` is "zero" until waitpid has filled it in; WIFEXITED holds of it.  RETURN_ON
macros with -1 in a function that returns bool count as true (`Decide`).  What the
console does with a debugger that has no process is in `Crash`: it dereferences NULL.

| event | meaning |
|---|---|
| `acquireFails`, `forkFails`, `traceFails`, `execFails`, `taskFails` | the call fails |
| `stale` | errno is EINTR when createProcess begins |
| `eintr` | a signal interrupts a waitpid of the parent |
| `signal`, `kill` | the child receives a signal; SIGKILL |
| `eof` | the end of input: readline returns NULL |

### MDBSymbols

loadSymbols() as a stack of calls (`loads`, each with the index of the next library
it looks at), over a file system chosen at the call (`Disks`).  A file is what parse()
takes out of it: its format, the address of its __text section, the libraries that it
names, its symbol table.  The entry point comes first among the symbols wherever the
symbol table stands in the file, because parse() reads the table after its loop over
the load commands: `Symbols` gives it position 0 and every other symbol the position it
has in the table, so that what is left out leaves a gap.  Nothing is kept of a file that it gives up on.

### MDBRegions

scanProcedure() as a stack of calls (`scans`), each first decoding (`pc`, `targets`) and then
going through its targets (`next`).  Code is a function from addresses to
instructions (`Operation`); a call has a target or, if it is indirect, 0, and bytes that
cannot be decoded are "bad", for which ud_disassemble() returns no size.  `BufferSize` stands for
the 8K buffer, `MaxCalls` for the room on the C stack, in which every call has a buffer of
its own; running out of it sets `overflow`.

A read of fewer than 8K is only logged (MDBCode.cpp:188), and the array on the stack is
disassembled all the same.  So a call has the buffer that it decodes (`buffer`): the block of the code
that begins at its address (`Block`) if that can be read (`readable`), and otherwise any
of `Leftovers`, what the stack happened to hold (`Buffers`).  A region that is made
from leftovers is a region like any other.

### MDBStack

updateState() over memory that may hold anything.  A failing read leaves its
destination alone, which is how the code falls back from one word to another.
isInteriorPointer() is kept as written: with 64-bit arithmetic no address satisfies
it.

### MDBMemoryMap

findAddress() and, at the notification of a library, logDylinkerState() and
logMemoryState().  Addresses are counted in regions.  `info` and `kr` are what
mach_vm_region() left, stale after a failure as in the code; `buffers` counts the
copies that read() has made and free() has not released.  `kept` is a history variable.

### List, MBList

`List` is what the users of a list rely on: a sequence and, for each operation, its
result.  `MBList` is the array with its capacity and whatever malloc left in it.  The
other modules model every MBList as a sequence; `IsList` is what entitles them to it.

### MCStopped

Symbols, regions, stack, memory map and list have no state in common.  `MCStopped`
extends all five, and a variable `part` says which of them a behaviour is about.
What one part takes from another (the stack walk asks for a region, the regions for a
symbol's name) is not stored in anything that a property looks at.  The parts are written
to be extended together: each prefixes its `Init`, `Next`, `Spec` and `TypeOK` with its
name.

### Lexicographic

The order in which loops and recursions come to an end: what is left to do is a function
on `1 .. n`, compared at the first place where two differ (`LessWork`).  MDBSymbols,
MDBRegions and MDBMemoryMap say what is left to do in their computations (`LoadWork`,
`ScanWork`, `WalkWork`).

### MDBBreakpoint_proof, MDBDebugger_proof, MDBLaunch_proof, MDBSymbols_proof, MDBRegions_proof, MDBWalks_proof, MBList_proof, MCStopped_proof

The proofs (see below), each in a module that extends the one it is about;
MDBWalks_proof is about both MDBStack and MDBMemoryMap.  MDBDebugger_proof takes the lemmas
about the operations on breakpoints from an instance of MDBBreakpoint_proof.  MCStopped_proof
puts the proofs of the parts together.

## The runs

| run | what it asks | bounds |
|---|---|---|
| `breakpoint` | memory, patches and reads through every order of calls | 3 addresses, 3 breakpoints, one volatile page, 3 byte values |
| `debugger` | `Transparent`: the debuggee still implements `Program`; `PassedOnlyByStepping`, `SingleStepIsolated`, `WaitCanEnd` | 2 threads, 3 breakpoints at 3 addresses; `signal`, `spawn`, `exit` |
| `launch` | `ChildSettled`, `LaunchSettles`, `ExitEndsConsole` | one launch, all events |
| `stopped` | `LoadedOnce`, `LoadedReachable`, `EntryPointFound`; `RegionIsProcedure`, `TargetsFound`, `RescanNeedsEndless`; `BacktraceIsChain`, `FramesBounded`; `FindsDylinker`, `BuffersFreed`; `WithinCapacity`, `IsList`; that loading, scanning and walking end, and why: `MovesOn` | see below |
| `lifecycle` | the debugger's bookkeeping: `BreakpointsKept`, `TrapFlagClean`, `ViewFresh`, `MemoryIntact`, `StoppedWhileCommanding` | 2 threads, 2 breakpoints; `signal`, `spawnInStep`, `threadExit`, `kill`, `hook`, `stepOver`, `duplicate` |
| `progress` | `StepReturnsToClient`, `ResumeReachesDebuggee` | 2 threads, 2 breakpoints; `eintr`, `spawn`, `exit`, `fatal` |
| `shipped_step` | violation of `SingleStepIsolated` with a 64-bit debuggee | 1 breakpoint |
| `step_over` | violation of `WaitCanEnd` | only `stepOver` |
| `step_back` | violation of `StepBackUndoesInt3` | a one-byte instruction under a breakpoint |
| `step_back_disables` | violation of `StepBackDisables` | no events |
| `launch_interrupted` | violation of `LaunchWaits` | only `eintr` |
| `region_end` | violation of `OutsideIsNegative` | the regions of `stopped` |

Two threads are enough for one that is stepped and one that interferes; three
addresses with breakpoints cover the entry, the body and a called function, and
every pair of breakpoints at one address (`duplicate`, `hook`).  In `breakpoint`
three breakpoints fit on one address.  The properties of `lifecycle` other than
`StoppedWhileCommanding` speak of a live process, and a dead one has no thread that can run;
so the process ends there only by a kill.

The bounds of `stopped`:

- symbols: a program and two libraries, each with every list of at most two of the
  three names, itself included, so with every cycle; each library may be no
  Mach-O file or lack a symbol table, which is then tried again.
- regions: all code of four bytes (rets, calls of any address and indirect calls of
  one byte, other instructions of two, bytes that cannot be decoded), scanned from every address.
  That is room for three procedures that call one another and for a procedure with
  two calls.  From address 4 nothing can be read; the leftovers are bytes that cannot be
  decoded, or a procedure that calls address 2.  The three calls of `MaxCalls` are fewer than the
  addresses, so that the stack is exhausted both by a chain of different procedures and by one
  that is scanned inside of its own scan.
- stack: two places for frames, so that chains of length 0 to 2, cycles of one and two
  and every failing read occur; `MaxFrames` is 3 (64 in the code), less than what a
  cycle would make.
- memory map: every sequence of at most three regions out of six kinds; at most two
  images in dyld's list; the debuggee may die at any step.
- list: capacity 2 and length 5, so that the array grows twice and shrinks again.

That loading, scanning and walking end is asked in two ways.  `LoadEnds`, `ScanEnds` and
`WalkEnds` are liveness properties under fairness.  `MovesOn`, the conjunction of `LoadMovesOn`,
`ScanMovesOn` and `WalkMovesOn`, says of every single step that it leaves less to do,
which is what these hold by, and which can be proved.  A recursion that makes a new call has done something before in the
call it comes from; so the outermost call counts most.

`TypeOK` of MDBDebugger is checked by `debugger` and proved; the other runs of
MCDebugger do not repeat it.

Deadlock checking is off in `lifecycle` and the violation runs, because
the debugger really can hang there: a wait for a debuggee in which no thread can
run (ended threads, stepOver).  It is off in `launch`, which ends, and in `stopped`,
whose parts end except for the list.  It is on in `breakpoint`, `debugger` and
`progress`.

### Fairness

`FairSpec` assumes weak fairness of `DebuggerNext`, the debugger's own loops once a
command was given, and of `DebuggeeRuns`: if some thread of the debuggee can run, one
eventually does.  Both are what an operating system's scheduler gives.  Nothing is
assumed of the client, of signals or of interrupted waits.  `progress` leaves signals
out: a stream of signals at every instruction may starve a step.

In `launch`, each process gets the processor: weak fairness of `LaunchNext`, the parent's
own steps, and of `ChildNext`, the child's until it executes the target.  What is typed,
interruptions, signals, and what the target does are not fair, so `LaunchSettles` does not rely on
a signal to end a wait.  In `stopped`, the debugger executes what it has begun
(`LoadNext`, `ScanNext`, `WalkNext`); the death of the debuggee and the calls of the
client are not fair.

## What the runs found

1. `shipped_step`: as built, a 64-bit debuggee is never single-stepped: the trap
   flag is set in a copy of the wrong register set and the commit is refused.
2. `step_over`: stepOver() of a call waits forever; resumeAllThreadsAndTask() walks
   a thread list (`MDBDebugger::threads`) that nothing fills.
3. `step_back`: the step back moves every thread that stands one byte past an
   enabled breakpoint, also one that did not execute the int 3.
4. `step_back_disables`: the comment above checkForBreakpointsAndStepBack says that the
   breakpoint is disabled before the step back; the code leaves it enabled, and resume() lifts
   it for one step when it goes on.  `BreakpointsKept`, which passes, says what the code does:
   it is the opposite of the comment for a breakpoint that has just stopped a thread.
5. `launch_interrupted`: the comment at MDBDebugger.cpp:502 says that the first waitpid
   is repeated when a signal interrupts it.  It is repeated when it has succeeded; an
   interrupted one leaves status 0, createProcess() returns false, and the console
   starts while the child is still running.
6. `region_end`: getOffset() (MDBCode.cpp:65) takes the address just past a region for
   a part of it.  A procedure directly behind another is never scanned.

Further disagreements met while modelling, kept out of the passing runs by the
choice of `Events` and not listed as findings because no comment or test speaks of
them:

- A thread that has ended stays in `MDBProcess::threads`; machResumeThreadsAndTask
  returns at it without resuming the task (MDBProcess.cpp:329), and a single step of
  it suspends everybody else.  `WaitCanEnd` fails with `threadExit`.
- A thread started by a stepped instruction runs during the step; its trap ends the
  step and is not stepped back.  `Transparent` fails with `spawnInStep`.
- After an interrupted wait, errno is still EINTR when a signal has been passed on
  (MDBDebugger.cpp:346): internalWait returns with the debuggee running.
  `StoppedWhileCommanding` fails with `eintr` and `signal` together.  It is also the only way
  in which a single step ends without a trap in a process that lives; checkForBreakpointsAndStep
  then leaves the breakpoint disabled, and `BreakpointsKept` fails too.
- The breakpoint that stepOver() sets after the call stays enabled for good: it is in
  `breakpoints`, while deleteBreakpoints() is given `transientBreakpoints`, to which nothing
  is added.
- As shipped, the step back of a 32-bit debuggee commits registers that were never fetched.
- checkForBreakpointsAndStep steps a thread off an enabled breakpoint even if the
  thread arrived there without executing the int 3 (another thread stopped the task
  first): that hit is never reported.  `PassedOnlyByStepping` therefore says only that
  a thread is never slipped past a breakpoint while the debugger is not stepping it.
- Only a normal exit clears `running` (MDBDebugger.cpp:326-336).
- When errno happens to be EINTR at the start, createProcess() waits again after the
  child has stopped, for ever.
- A child whose execv fails is a second debugger at the terminal; the TODO at
  MDBDebugger.cpp:493 asks for a notification of the parent.  The parent waits for
  it.  When the child has been traced and then crashes on its NULL process, the parent takes
  it for a stopped debuggee and attaches to it.
- createProcess() returns true with `process` NULL when task_for_pid fails; the console
  looks at neither.
- A process that is dead before internalWait asks for its pid, or that dies of a
  signal, leaves `running` true, and the console at its prompt.
- findAddress() and logMemoryState() loop for ever once the task is dead.
- logDylinkerState() frees none of its copies, and prints an uninitialised pointer
  when an image's name cannot be read.
- scanProcedure(), which nothing calls at this commit, has an 8K buffer in every frame of its
  recursion.  A chain of about a thousand calls exhausts a stack of 8M, and so does a cycle
  of calls through a procedure without a ret.
- When it cannot read 8K at an address it logs that, disassembles what the stack held there
  and may make a region of it.
- loadSymbols() reads a library that cannot be parsed again for every file that names
  it.
- isInteriorPointer() is false for every address: the test for a frame without the 12
  bytes of padding never holds.
- With `duplicate`, disabling one of two breakpoints at an address disarms both, and
  findBreakpoint sees only the first.

## What is proved

`MDBBreakpoint_proof`, for every address space, program image, set of volatile pages
and number of breakpoints, from `BreakpointAssumption` alone:

- `TypeCorrect`: `Spec => []TypeOK`
- `NeverOrphaned`: `Spec => []NoOrphanedInt3`
- `BreakpointsInvisible`: `Spec => []ReadsSeeProgram`
- `EnabledMeansArmed`: `Spec => []EnabledIsArmed`

The inductive invariant `IInv` joins types, `Stable \subseteq mapped`,
`PatchIsText` and `NoOrphanedInt3`.  Neither of the last two is inductive by itself:
the patch that enable() saves comes through read(), which is right only if every
foreign byte in memory is an enabled breakpoint's int 3; and writing the patch
back restores the program only if the patch was right.  `ReadByteIsText` is the
lemma that closes the circle.  read() lets the last enabled breakpoint at an
address win; `LastExists` shows, by well-founded descent on sets of indices, that
there is one.  `EnabledIsArmed` is preserved relative to `IInv`.

`MDBDebugger_proof`, for any finite set of threads, any program, any addresses of
breakpoints and hook, both values of `Is64Bit` and `Debuggee64`, and any choice of
`Events`, from `DebuggerAssumption` alone:

- `TypesKept`: `Spec => []TypeOK`, which includes that no suspend count passes 1
- `TextKept`: `Spec => []MemoryIntact`
- `IndicesStayValid`: `Spec => [](CursorOK /\ pending <= Len(breakpoints))`

and, for the instances that the hypothesis names:

| theorem | hypothesis | property |
|---|---|---|
| `DebuggeeStandsStill` | `ErrnoIsFresh` | `[]StoppedWhileCommanding` |
| `ThreadsAreListed` | `ErrnoIsFresh` | `[]ThreadsListed`, the first half of `ViewFresh` |
| `ViewIsFresh` | `ErrnoIsFresh`, `~ Is64Bit`, `~ Debuggee64` | `[]ViewFresh` |
| `RequestsKept` | `ErrnoIsFresh` | `[]BreakpointsKept` |
| `NoTrapFlagLeft` | `ErrnoIsFresh`, `Debuggee64 \/ FlagsTraceable` | `[]TrapFlagClean` |
| `StepsAreIsolated` | `ErrnoIsFresh`, `~ Debuggee64`, no `spawnInStep` | `SingleStepIsolated` |
| `WaitsCanEnd` | `ErrnoIsFresh`, no `threadExit`, no `stepOver` | `[]WaitCanEnd` |
| `DebuggingIsTransparent` | `PlainDebugging` | `Transparent`, the refinement of Program |
| `BreakpointsHold` | `PlainDebugging` | `PassedOnlyByStepping` |

`Is64Bit` is TRUE in the build of this commit.  So `ViewIsFresh`, `DebuggingIsTransparent` and
`BreakpointsHold`, which need the 32-bit branch, do not speak of that build; they are about
the algorithms, under a machIs64Bit() that tells the truth about a 32-bit debuggee.  Nor does
`StepsAreIsolated` for the 64-bit debuggee that the build expects.  The theorems without such a
hypothesis hold of it as well.

The hypotheses are about the code, not about the prover.  Without them the properties
are false, except where a line below says otherwise:

- `ErrnoIsFresh`: not both `eintr` and `signal`.  errno is not reset before waitpid, so after
  an interrupted wait the next signal that is passed on looks like another interruption and
  internalWait() returns with the debuggee running (MDBDebugger.cpp:346).
- `Debuggee64 \/ FlagsTraceable`: a debugger that takes a 32-bit debuggee for a 64-bit one,
  as the one that is built does, never fetches the copy that it writes back to the
  registers.  That copy begins as `Garbage`, and the hypothesis is that no garbage has the
  trap flag.  Without it the property is false: when the garbage lies one byte past a
  breakpoint, the step back of resume() commits it, flag and all.  (TLC finds that in eleven
  states, in `lifecycle` with `Is64Bit = TRUE` and `MCGarbage`.)
- `~ Debuggee64`: see `shipped_step`.
- `~ Is64Bit`: otherwise the copies of the registers are never fetched.
- no `spawnInStep`, no `threadExit`, no `stepOver`: see "What the runs found".
- `PlainDebugging`: `ErrnoIsFresh`, no `spawnInStep`, a 32-bit debuggee that is taken for one (`~ Is64Bit`),
  a client without stepOver and second breakpoint at an address, which repeats
  initializeDylinkerHooks, as the test does, only if it sets no breakpoint of its own at
  the hook (`PlainClient`), and `ProgramIsPatchable`: no instruction is an int 3 of the program's
  own, and none begins one byte past a place for a breakpoint.  `step_back` has a program
  that is not patchable.  `PlainClient` is what the invariants below need; that a client
  with duplicates or stepOver breaks the refinement is not claimed.  The run `debugger` has
  no `hook`; the theorem covers it.

The configuration of `debugger` satisfies `PlainDebugging` and the hypotheses above it,
so none of the theorems is about nothing.

The inductive invariant is built in parts, each proved with the help of those before it:

- `DInv` adds three things to the types: while a command is under way `cursor` is a thread
  of the list (`CursorOK`; without it the step's last part would set the trap flag of
  nobody) and, in stepOver, one that stands at a call; `pending` is a breakpoint of the
  list; and a live debuggee has its pages mapped and its text as `PatchIsText` and
  `NoOrphanedInt3` say (`TextOK`).  What a step does to memory and breakpoint list is one
  operation of MDBBreakpoint or none, or the death of the process (`NextIsMemoryStep`), so
  the lemmas of MDBBreakpoint_proof carry over.  For the rest two facts do most of the
  work: gatherThreads only appends (`GatherTypes`), and only a thread of a task that is
  not suspended can trap (`StopTypes`).
- `SuspendOK`: `StoppedWhileCommanding` is not inductive.  A stop that is not yet reported
  has suspended the task too, which makes the wait return with it suspended; and
  internalWait() comes back with something else than "stopped" only when no debuggee is
  left.
- `ViewOK`: whenever the debugger works on a live debuggee, and not only at the prompt, the
  list has every live thread and, on the 32-bit branch, the copies are the registers.
- `FlagOK`: no thread has a trap flag, in its registers or in its copy, except the one at
  `cursor` from the beginning of a single step to the `return` that clears it.
- `KeptOK`: what is requested is enabled, except for the one breakpoint `pending` that a step
  has lifted.
- `StepOK`: during a single step every other live thread has suspend count 1, and the stepped
  one has its flag.
- `WaitOK`: while the debugger waits, some thread can run, now or as soon as the stop that is
  pending has been dealt with; and every known thread exists.
- `ListOK`: in the list of a plain client two breakpoints at one address are hooks, which are
  never disabled, and a breakpoint that is lifted is the one that findBreakpoint finds.
  From it follows `Patched`: where findBreakpoint finds an enabled breakpoint, an int 3 is
  in memory.
- `MotionOK`: where each thread is.  `Ip(t)`, one back from the eip of a thread that has
  trapped, is an instruction of the program.  A trapped thread waits for resume() to move it
  back and stands over an int 3 (`TrapsOK`); a thread that is being stepped is at no int 3
  until it has moved (`SteppedOff`).  With `Patched`, what a thread executes anywhere else is
  the program's own byte.

`DebuggingIsTransparent` maps a thread that has trapped to where it will be stepped back
to.  Then lifting, step back, int 3, signals and every write to registers are stutters of
Program, and a thread's own instruction is a step of it.

`MDBLaunch_proof`, for every choice of `Events`:

- `LaunchTypes`: `Spec => []TypeOK`
- `LaunchChildSettled`: `Spec => []ChildSettled`

`ChildSettled` speaks of the states in which createProcess() has come back.  The
inductive invariant says it of every label at which the parent has just heard of the
child (`Settled`), and adds what the kernel's answers are worth (`Reports`): a child with
a report does not run, ECHILD means that it is dead, and there is none before fork().
With `eintr` that argument breaks at `LaunchInterrupted`, which is the violation of
`launch_interrupted`.

`MDBSymbols_proof`, for every file system, from `SymbolsAssumption` (lists of libraries
are lists of file names, symbol tables are counted from 1):

- `SymbolsLoadedOnce`: `SymbolsSpec => []LoadedOnce`
- `SymbolsLoadedReachable`: `SymbolsSpec => []LoadedReachable`
- `EntryPointIsThePrograms`: `SymbolsSpec => []EntryPointFound`
- `SymbolsDepthBounded`: `SymbolsSpec => []LoadDepthBounded`
- `LoadingMovesOn`, if there are finitely many files:
  `SymbolsSpec => [](LoadWork \in [1 .. Cardinality(FileName) -> Nat]) /\ LoadMovesOn`

The second compares a recursion with a least fixed point.  `NothingMissed` says that
what a known file names is known, cannot be parsed, or is still ahead of a call that is
active; when no call is left, the files known are closed.  `NothingStray` says that every
closed set holds all the files known, so they are the least.  The third needs that
the program stays in front (`ProgramFirst`) and that nothing precedes position 0 of the
first file.  For the fourth, `CallsOK` says that the calls that are active are for different
files, all of them loaded: a call is made only for a file that was not known.  That bounds
the depth of the recursion, and makes `LoadWork`, which has one place for each file, say
all that is left to do.

`MDBRegions_proof`, for every set of programs, any size of the buffer, any C stack, any part of the
code that cannot be read and any leftovers, from `RegionsAssumption` (instructions that can be
decoded have bytes):

- `RegionsTypes`: `RegionsSpec => []RegionsTypeOK`
- `RegionsAreProcedures`: `RegionsSpec => []RegionIsProcedure`
- `CalleesAreFound`: `RegionsSpec => []TargetsFound`
- `RescansAreEndless`: `RegionsSpec => []RescanNeedsEndless`
- `ScanningMovesOn`:
  `RegionsSpec => [](ScanWork \in [1 .. MaxCalls + 1 -> Nat]) /\ ScanMovesOn`

The properties define a procedure by recursion over the offsets of its instructions.
That these definitions define anything has to be shown first (`EndUnfolds`,
`CalledUnfolds`): each offset refers to a greater one, as far as the end of the buffer
(`ForwardRecursion`).  The invariant of a call that decodes (`CallOK`) says that
what the procedure is from `pc` on, together with what has been collected, is what it is
from its start; that is how a loop is compared with a recursive definition.  After that,
the procedure has a region or no ret.  `CalleesOK` says that what a region calls has a
region or is awaited by an active call (`Awaits`); the recursion hands each address on
to the call that it makes.  `ScansOK` says that only the innermost call decodes, so that
an address that is scanned a second time while a call for it is active cannot have a
ret: it would have its region by then.

What these theorems do not say: that a region is a procedure of the program where the code could
not be read, nor that a procedure called has a region of its own.  The off-by-one of getOffset()
lets scanProcedure() take a procedure directly behind another for scanned; `TargetsFound` admits
that case by its closed interval, and `region_end` shows it.  Nor is the recursion bounded by
anything but the stack: `RescansAreEndless` says what a repeated scan needs, and the
length of a chain of calls without a repetition is up to the program.

`ScanningMovesOn` needs no assumption on the stack.  That it holds where procedures without a
ret are scanned again for every call of them is due to the order: the call that a scan
comes from has moved to its next target for good.  A decoded instruction may add a target,
which is why a byte counts for two.  `BoundOK` adds to the invariant that the calls fit on the
stack and that none is past the end of its list of targets.

`MDBWalks_proof`, first part, for every memory, from `StackAssumption` (words are integers):

- `StackFramesBounded`: `StackSpec => []FramesBounded`
- `StackIsChain`: `StackSpec => []BacktraceIsChain`

`Chain` says of the frames found so far what the property says at the end; it is kept
because `Walking` says that the locals of updateState() hold what the next frame will be
made of, and `Linked` says how the loop over parents leaves them.

`MDBWalks_proof`, second part, for address spaces of any length, from `MapAssumption`:

- `MapFindsDylinker`: `MapSpec => []FindsDylinker`
- `MapBuffersFreed`: `MapSpec => []BuffersFreed`
- `WalksMoveOn`: `MapSpec => [](WalkWork \in [1 .. 3 -> Nat]) /\ WalkMovesOn`

The invariant adds that the search has passed no region with the header that it looks
for (`SearchedSoFar`), and that the description the loops work with is that of the region
they are at (`AtRegion`), which matters because a failing call leaves the old one.

`MBList_proof`, for any values and any initial capacity, from `ListAssumption`:

- `ListWithinCapacity`: `ListSpec => []WithinCapacity`
- `ListImplemented`: `ListSpec => IsList`

Types and `WithinCapacity` together are inductive.  The refinement maps the array to the
sequence of its first `length` elements; indexOf() needs that a nonempty set of indices
has a least one, which is shown with initial segments of it.

`MCStopped_proof` puts the parts together, from their assumptions:

- `PartsBehave`: `Spec => SymbolsSpec /\ RegionsSpec /\ StackSpec /\ MapSpec /\ ListSpec`, so that
  every theorem about a part holds of the whole
- `StoppedTypes`: `Spec => []TypeOK`, from the parts' own (`SymbolsTypes`, `RegionsTypes`,
  `StackTypes`, `MapTypesHold`, `ListTypes`)
- `StoppedMovesOn`: `MovesOn`, if there are finitely many files, with the measures where they
  should be, from `LoadingMovesOn`, `ScanningMovesOn` and `WalksMoveOn`
- `WorkRunsOut`: in every nonempty set of functions from `1 .. n` to the naturals there is
  one than which none is less work

The last two belong together.  The measures take their values in such functions and fall
with each step; so no behaviour has infinitely many steps of
loadSymbols() or scanProcedure(), nor of a walk while the debuggee lives.  That is the part
of `LoadEnds`, `ScanEnds` and `WalkEnds` that lies with the code.  What remains, that an
unfinished computation can always take a step and does, is fairness and ENABLED.

Induction over data: a theorem that takes the induction hypothesis as an operator
cannot be used, but its instance for sets can be proved and is enough.  `SetInduction` of
MDBRegions_proof derives it from the well-foundedness of `<` on the naturals.

### Model-checked only

- Liveness under fairness (`LaunchSettles`, `ExitEndsConsole`, `LoadEnds`, `ScanEnds`,
  `WalkEnds`, `StepReturnsToClient`, `ResumeReachesDebuggee`) is out of TLAPS's reach.  For
  `LoadEnds`, `ScanEnds` and `WalkEnds` it is proved that the computations cannot go on for
  ever (see `MCStopped_proof`), not that they go on.
- That a launch, a step or a scan gets as far as the states that the properties speak of is
  seen in the runs, not proved.

## Not modelled

- `MBThread`: no code in the repository uses it.  Its flag is set by start() after
  pthread_create, and what could go wrong depends on who joins and who asks.
- `MDBDebugger::suspendAllThreads`, `forallThreads`, `suspendOrResumeNoncurrentThread`
  and `setSingleStep`: no caller reaches them with anything to do.
- `machSample` and `commandProfile`: one kernel call whose result nobody uses.
- `MDBCodeRegion::disassemble` and `fromProcedure`: they print.
- `MBString`, the completion of commands in the console, the log: text.
- The authorization service behind acquireTaskportRight, and the decoding of Mach-O
  headers: I/O and layout.

All other properties that the passing runs check are theorems.  `StoppedWhileCommanding`,
`BreakpointsKept` and `MemoryIntact` are proved for both values of `Is64Bit`; TLC checks them
on the 32-bit branch only.

## The plan for what is left

1. `DebuggingIsTransparent` for more clients, as far as it is true.  With stepOver and
   several threads it is not to be expected: a thread that executes an int 3 while another is
   in stepOver() is not stepped back, because only resume() does that.  With duplicates the
   first of two breakpoints at an address hides the second from findBreakpoint when it is
   disabled.
2. What MDBDebugger's internalWait and MDBLaunch's console have in common.  A refinement
   of one by the other does not hold as they stand: a command may wait several times, and
   MDBLaunch's console waits once for each; the two models are tied by their common source
   only.
3. The disassembler's queries of MDBRegions (getInstructionLength, isCallInstruction)
   in place of MDBDebugger's `Calls` and `InstructionEnd`.
