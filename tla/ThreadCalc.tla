----------------------------- MODULE ThreadCalc -----------------------------
(***************************************************************************)
(* The threadcalc program: the main thread in directory_parse, the pool's  *)
(* workers in parse_file and process_equations, and the descriptors that   *)
(* they share.  The thread pool is the service that ThreadPool implements, *)
(* and a job is named by the file it was submitted for.                    *)
(*                                                                         *)
(* A file of the input directory is what its header announces and its      *)
(* equations.  It is not valid if it cannot be read, is no file, is solved *)
(* already, or announces no equations.  In a solved file <<f, 0>> is the   *)
(* header of f and <<f, i>> the solution of its i-th equation; <<f, -1>>   *)
(* is what an earlier run left of it, Part any part of an item.            *)
(***************************************************************************)
EXTENDS FileCalc, Sequences, FiniteSets, FiniteSetsExt, Functions

CONSTANTS Workers,      \* the threads of the pool
          Files,        \* the entries of the input directory
          Hidden,       \* those whose name begins with a dot
          Flaky,        \* those for which a read, a write or calloc may fail
          Earlier,      \* those an earlier run left a solved file of
          Contents,     \* what the files may hold
          IntMax,       \* the largest int
          Signals,      \* the flags of the signals the process may get
          MaxFd,        \* descriptors the process may have for files
          MaxJobs,      \* MAX_JOBS
          None

Fds == 1 .. MaxFd
ERROR == -1

Ends == Files \X {"in", "out"}
Names == Files \X (Nat \cup {-1})

ASSUME FilesAssumption ==
  /\ Hidden \subseteq Files /\ Flaky \subseteq Files /\ Earlier \subseteq Files
  /\ None \notin Files \cup Ends \cup Names /\ ERROR \notin Fds
  /\ Contents \subseteq [valid : BOOLEAN, count : Int, eqs : Seq(Equation)]
  /\ \A c \in Contents : c.valid => c.count > 0
  /\ Signals \subseteq {1, 2} /\ IntMax \in Nat
  /\ MaxFd \in Nat /\ MaxJobs \in Nat \ {0}

VARIABLES phase, pending, busy, finished,   \* the pool, see JobService
          mpc,        \* the main thread's program counter
          content,    \* the input files
          unread,     \* entries that readdir has not returned yet
          entry,      \* p_dirent, or None
          file_d,     \* directory_parse's two descriptors
          out_file_des,
          args,       \* the parse_args_t of each job, or None
          fds,        \* the file and side each descriptor means, or None
          offset,     \* how many equations were read from each input file
          output,     \* the solved files
          flag,       \* signal_flag_g
          wpc,        \* where each worker is in parse_file
          local,      \* each worker's copy of its parse_args_t
          equation,   \* p_current_equation: which one each worker has read
          lost,       \* history: files whose job was not queued
          gaps,       \* history: what was not written, because a write failed
          failed      \* history: files given up, because a read or calloc failed

poolVars == <<phase, pending, busy, finished>>
mainVars == <<mpc, unread, entry, file_d, out_file_des, args, lost>>
workerVars == <<wpc, local, equation, offset>>
history == <<gaps, failed>>
vars == <<poolVars, mainVars, workerVars, content, fds, output, flag, history>>

Pool == INSTANCE JobService WITH Jobs <- Files, Idle <- None

MainLabels == {"create", "entry", "open", "header", "file", "addJob", "spin",
               "destroy", "exited"}
WorkerLabels == {"start", "loop", "write", "close", "return"}

\* The equation that <<f, i>> names, and what is written for a name.
NamedFirst(id) == content[id[1]].eqs[1]
Named(id) == content[id[1]].eqs[id[2]]
Item(id) == [id |-> id,
             answer |-> IF id[2] > 0 THEN Solution(Named(id)) ELSE None]

\* A write appends the item to the solved file of f, or it fails for want of
\* space, with any part of the item written, or nothing.
Part == [id |-> None, answer |-> None]
Write(f, id) == output' = [output EXCEPT ![f] = Append(@, Item(id))]
WriteError(f, id) == /\ gaps' = gaps \cup {id}
                     /\ output' = [output EXCEPT ![f] = Append(@, Part)]

Args == [in : Fds, out : Fds, num_equations : -(IntMax + 1) .. IntMax]

Init == /\ Pool!Init
        /\ mpc = "create"
        /\ content \in [Files -> Contents]
        /\ \A f \in Hidden : ~content[f].valid
        /\ unread = Files
        /\ entry = None
        /\ file_d = ERROR
        /\ out_file_des = ERROR
        /\ args = [f \in Files |-> None]
        /\ fds = [fd \in Fds |-> None]
        /\ offset = [f \in Files |-> 0]
        /\ output = [f \in Files |-> IF f \in Earlier THEN <<Item(<<f, -1>>)>>
                                                      ELSE <<>>]
        /\ flag = 0
        /\ wpc = [w \in Workers |-> "start"]
        /\ local = [w \in Workers |-> None]
        /\ equation = [w \in Workers |-> None]
        /\ lost = {}
        /\ gaps = {}
        /\ failed = {}
-----------------------------------------------------------------------------
(* main: the directories are opened and the pool is created; or the        *)
(* options are refused, or one of these fails, and main ends.              *)
(* Without the path of the output directory no entry is looked at.         *)
Create == /\ mpc = "create"
          /\ Pool!Open
          /\ mpc' \in {"entry", "destroy"}
          /\ UNCHANGED <<unread, entry, file_d, out_file_des, args, lost,
                         workerVars, content, fds, output, flag, history>>

CreateFails == /\ mpc = "create"
               /\ mpc' = "exited"
               /\ UNCHANGED <<poolVars, unread, entry, file_d, out_file_des,
                              args, lost, workerVars, content, fds, output,
                              flag, history>>

(* readdir returns the entries in any order; hidden ones are skipped.      *)
NextEntry == /\ mpc = "entry"
             /\ \E f \in unread :
                  /\ unread' = unread \ {f}
                  /\ IF f \in Hidden THEN UNCHANGED <<entry, mpc>>
                                     ELSE entry' = f /\ mpc' = "open"
             /\ UNCHANGED <<poolVars, file_d, out_file_des, args, lost,
                            workerVars, content, fds, output, flag, history>>

(* After the last entry p_dirent stays NULL: the directory is not read     *)
(* again, however long main goes round.                                    *)
LastEntry == /\ mpc = "entry" /\ unread = {}
             /\ entry' = None
             /\ mpc' = "spin"
             /\ UNCHANGED <<poolVars, unread, file_d, out_file_des, args,
                            lost, workerVars, content, fds, output, flag,
                            history>>

FreeFds == { fd \in Fds : fds[fd] = None }

(* open gives the lowest free descriptor; it may fail, which is noticed by *)
(* the read of the header.                                                 *)
OpenInput ==
  /\ mpc = "open"
  /\ \/ /\ FreeFds # {}
        /\ file_d' = Min(FreeFds)
        /\ fds' = [fds EXCEPT ![file_d'] = <<entry, "in">>]
     \/ /\ FreeFds = {} \/ ~content[entry].valid \/ entry \in Flaky
        /\ file_d' = ERROR
        /\ UNCHANGED fds
  /\ mpc' = "header"
  /\ UNCHANGED <<poolVars, unread, entry, out_file_des, args, lost,
                 workerVars, content, output, flag, history>>

HeaderIsGood == file_d # ERROR /\ content[entry].valid

(* check_header; a header that is refused or cannot be read ends           *)
(* directory_parse, with the file open and the other entries unread.       *)
CheckHeader ==
  /\ mpc = "header"
  /\ \/ HeaderIsGood /\ mpc' = "file"
     \/ (~HeaderIsGood \/ entry \in Flaky) /\ mpc' = "destroy"
  /\ UNCHANGED <<poolVars, unread, entry, file_d, out_file_des, args, lost,
                 workerVars, content, fds, output, flag, history>>

(* create_file opens the solved file for appending, so that whatever an    *)
(* earlier run left stays in front, and writes the header, or fails to,    *)
(* which is not noticed.                                                   *)
CreateFile ==
  /\ mpc = "file" /\ FreeFds # {}
  /\ out_file_des' = Min(FreeFds)
  /\ fds' = [fds EXCEPT ![out_file_des'] = <<entry, "out">>]
  /\ \/ Write(entry, <<entry, 0>>) /\ UNCHANGED gaps
     \/ entry \in Flaky /\ WriteError(entry, <<entry, 0>>)
  /\ mpc' = "addJob"
  /\ UNCHANGED <<poolVars, unread, entry, file_d, args, lost, workerVars,
                 content, flag, failed>>

CreateFileFails ==
  /\ mpc = "file" /\ (FreeFds = {} \/ entry \in Flaky)
  /\ out_file_des' = ERROR
  /\ mpc' = "destroy"
  /\ UNCHANGED <<poolVars, unread, entry, file_d, args, lost, workerVars,
                 content, fds, output, flag, history>>

(* int64_t to int.                                                         *)
Narrow(n) == ((n + IntMax + 1) % (2 * (IntMax + 1))) - (IntMax + 1)

(* The descriptors now belong to the job.                                  *)
MakeArgs == args' = [args EXCEPT ![entry] =
              [in |-> file_d, out |-> out_file_des,
               num_equations |-> Narrow(content[entry].count)]]

HasRoomForOneMore == Len(pending) <= MaxJobs
HasRoom == Len(pending) < MaxJobs

AddJob == /\ mpc = "addJob"
          /\ HasRoom
          /\ MakeArgs
          /\ Pool!Submit(entry)
          /\ file_d' = ERROR
          /\ mpc' = "entry"
          /\ UNCHANGED <<unread, entry, out_file_des, lost, workerVars,
                         content, fds, output, flag, history>>

(* The queue is full, or there is no memory for its node:                  *)
(* threadpool_add_job returns SUCCESS, and nobody closes the two files.    *)
JobDropped == /\ mpc = "addJob" /\ (~HasRoom \/ entry \in Flaky)
              /\ MakeArgs
              /\ lost' = lost \cup {entry}
              /\ file_d' = ERROR
              /\ mpc' = "entry"
              /\ UNCHANGED <<poolVars, unread, entry, out_file_des, workerVars,
                             content, fds, output, flag, history>>

SeesOnlyInterrupt == flag = 2
SeesSignal == flag # 0

(* main goes round its two loops until there is a signal.                  *)
Stop == /\ mpc = "spin" /\ SeesSignal
        /\ mpc' = "destroy"
        /\ UNCHANGED <<poolVars, unread, entry, file_d, out_file_des, args,
                       lost, workerVars, content, fds, output, flag, history>>

(* threadpool_destroy; then main returns and every descriptor is gone.     *)
Shutdown == /\ mpc = "destroy"
            /\ Pool!Close
            /\ UNCHANGED <<mainVars, workerVars, content, fds, output, flag,
                           history>>

Exit == /\ mpc = "destroy"
        /\ Pool!Leave
        /\ mpc' = "exited"
        /\ fds' = [fd \in Fds |-> None]
        /\ UNCHANGED <<unread, entry, file_d, out_file_des, args, lost,
                       workerVars, content, output, flag, history>>

(* signal_handler: SIGUSR1 or SIGINT; the last one wins.  No call of this  *)
(* program is interrupted, for reads and writes are of files.              *)
Signal == /\ mpc # "exited"
          /\ flag' \in Signals
          /\ UNCHANGED <<poolVars, mainVars, workerVars, content, fds, output,
                         history>>
-----------------------------------------------------------------------------
Start(w) == /\ Pool!Start(w)
            /\ wpc' = [wpc EXCEPT ![w] = "start"]
            /\ UNCHANGED <<mainVars, local, equation, offset, content, fds,
                           output, flag, history>>

At(w, label) == busy[w] # None /\ wpc[w] = label

OwnArgsOfNewest(w) ==
  args[IF entry # None /\ args[entry] # None THEN entry ELSE busy[w]]
OwnArgs(w) == args[busy[w]]

(* parse_file copies its argument; without memory for an equation          *)
(* process_equations goes straight to the close.                           *)
ReadArgs(w) ==
  /\ At(w, "start")
  /\ local' = [local EXCEPT ![w] = OwnArgs(w)]
  /\ \/ wpc' = [wpc EXCEPT ![w] = "loop"] /\ UNCHANGED failed
     \/ /\ busy[w] \in Flaky
        /\ wpc' = [wpc EXCEPT ![w] = "close"]
        /\ failed' = failed \cup {busy[w]}
  /\ UNCHANGED <<poolVars, mainVars, equation, offset, content, fds, output,
                 flag, gaps>>

(* The file that a descriptor means now, if it is of that side.            *)
Target(fd, side) == {f \in Files : fds[fd] = <<f, side>>}

MoreEquationsOneLess(w) ==
  \E f \in Target(local[w].in, "in") : offset[f] + 1 < local[w].num_equations
MoreEquations(w) == local[w].num_equations > 0

(* equations_read stays 0: what the header announces is only compared      *)
(* with 0.                                                                 *)
NoEquations(w) == /\ At(w, "loop") /\ ~MoreEquations(w)
                  /\ wpc' = [wpc EXCEPT ![w] = "close"]
                  /\ UNCHANGED <<poolVars, mainVars, local, equation, offset,
                                 content, fds, output, flag, history>>

AfterUnsolvableReturn == "return"
AfterUnsolvable == "close"

(* safe_read, set_calc_file and solve_func.                                *)
ReadEquation(w) ==
  /\ At(w, "loop") /\ MoreEquations(w)
  /\ \E f \in Target(local[w].in, "in") :
       /\ offset[f] < Len(content[f].eqs)
       /\ offset' = [offset EXCEPT ![f] = @ + 1]
       /\ equation' = [equation EXCEPT ![w] = <<f, offset'[f]>>]
       /\ wpc' = [wpc EXCEPT ![w] = IF solve_func(Named(equation'[w])).err = 0
                                    THEN "write" ELSE AfterUnsolvable]
  /\ UNCHANGED <<poolVars, mainVars, local, content, fds, output, flag, history>>

AfterEndGoOn == "loop"
AfterEnd == "close"

(* The end of the file, where what is left is less than an equation.       *)
ReadEnds(w) ==
  /\ At(w, "loop") /\ MoreEquations(w)
  /\ \A f \in Target(local[w].in, "in") : offset[f] = Len(content[f].eqs)
  /\ wpc' = [wpc EXCEPT ![w] = AfterEnd]
  /\ UNCHANGED <<poolVars, mainVars, local, equation, offset, content, fds,
                 output, flag, history>>

(* A read fails, or calc_init.                                             *)
ReadFails(w) == /\ At(w, "loop") /\ busy[w] \in Flaky
                /\ wpc' = [wpc EXCEPT ![w] = "close"]
                /\ failed' = failed \cup {busy[w]}
                /\ UNCHANGED <<poolVars, mainVars, local, equation, offset,
                               content, fds, output, flag, gaps>>

WriteSolution(w) ==
  /\ At(w, "write")
  /\ \E f \in Target(local[w].out, "out") : Write(f, equation[w])
  /\ wpc' = [wpc EXCEPT ![w] = "loop"]
  /\ UNCHANGED <<poolVars, mainVars, local, equation, offset, content, fds,
                 flag, history>>

AfterWriteError == "loop"

(* safe_write returns (size_t)-1, as does write_file without memory for    *)
(* the solution, and process_equations tests for 0: the loop goes on.      *)
WriteFails(w) == /\ At(w, "write") /\ busy[w] \in Flaky
                 /\ \E f \in Target(local[w].out, "out") :
                      WriteError(f, equation[w])
                 /\ wpc' = [wpc EXCEPT ![w] = AfterWriteError]
                 /\ UNCHANGED <<poolVars, mainVars, local, equation, offset,
                                content, fds, flag, failed>>

Closed(fd) == [fds EXCEPT ![fd] = None]

(* safe_close(out_file_des); the input file is not closed.                 *)
Close(w) == /\ At(w, "close")
            /\ fds' = Closed(local[w].out)
            /\ wpc' = [wpc EXCEPT ![w] = "return"]
            /\ UNCHANGED <<poolVars, mainVars, local, equation, offset,
                           content, output, flag, history>>

(* The argument is freed, and the locals are gone.                         *)
Return(w) == /\ At(w, "return")
             /\ Pool!Finish(w)
             /\ args' = [args EXCEPT ![busy[w]] = None]
             /\ local' = [local EXCEPT ![w] = None]
             /\ equation' = [equation EXCEPT ![w] = None]
             /\ wpc' = [wpc EXCEPT ![w] = "start"]
             /\ UNCHANGED <<mpc, unread, entry, file_d, out_file_des, lost,
                            offset, content, fds, output, flag, history>>
-----------------------------------------------------------------------------
MainStep == \/ Create \/ CreateFails \/ NextEntry \/ LastEntry \/ OpenInput
            \/ CheckHeader \/ CreateFile \/ CreateFileFails \/ AddJob
            \/ JobDropped \/ Stop \/ Shutdown \/ Exit

WorkerStep(w) == \/ Start(w) \/ ReadArgs(w) \/ NoEquations(w)
                 \/ ReadEquation(w) \/ ReadEnds(w) \/ ReadFails(w)
                 \/ WriteSolution(w) \/ WriteFails(w) \/ Close(w) \/ Return(w)

(* Main waits for a signal that need not come, or the process is gone. *)
Quiet == mpc \in {"spin", "exited"} /\ UNCHANGED vars

Next == \/ MainStep
        \/ Signal
        \/ \E w \in Workers : WorkerStep(w)
        \/ Quiet

(* The threads are scheduled; a signal need not come.                      *)
Spec == /\ Init /\ [][Next]_vars
        /\ WF_vars(MainStep)
        /\ \A w \in Workers : WF_vars(WorkerStep(w))
-----------------------------------------------------------------------------
Items == [id : Names,
          answer : [solution : Word, solution_type : {INT, UINT}] \cup {None}]

(* Every variable keeps its type.                                          *)
TypeOK == /\ phase \in {"new", "open", "closed", "gone"}
          /\ pending \in Seq(Files) /\ Len(pending) <= MaxJobs
          /\ busy \in [Workers -> Files \cup {None}]
          /\ finished \subseteq Files
          /\ mpc \in MainLabels
          /\ content \in [Files -> Contents]
          /\ unread \subseteq Files
          /\ entry \in Files \cup {None}
          /\ file_d \in Fds \cup {ERROR}
          /\ out_file_des \in Fds \cup {ERROR}
          /\ args \in [Files -> Args \cup {None}]
          /\ fds \in [Fds -> Ends \cup {None}]
          /\ offset \in [Files -> Nat]
          /\ \A f \in Files : output[f] \in Seq(Items \cup {Part})
          /\ flag \in 0 .. 2
          /\ wpc \in [Workers -> WorkerLabels]
          /\ local \in [Workers -> Args \cup {None}]
          /\ equation \in [Workers -> Names \cup {None}]
          /\ lost \subseteq Files
          /\ gaps \subseteq Names
          /\ failed \subseteq Files

(* As long as a worker is in process_equations its two descriptors mean    *)
(* the files of its own job, although main and the other workers open and  *)
(* close files all the time and numbers are used again.                    *)
OwnFiles ==
  \A w \in Workers :
    busy[w] # None /\ wpc[w] \in {"loop", "write", "close"} =>
      /\ fds[local[w].in] = <<busy[w], "in">>
      /\ fds[local[w].out] = <<busy[w], "out">>

Jobs == Range(pending) \cup (Range(busy) \ {None})

(* Every solved file is closed: an open one still has a job to come, or    *)
(* main is about to submit it, or its job was dropped.  (The input files   *)
(* are never closed.)                                                      *)
SolvedFilesAreClosed ==
  \A fd \in Fds : \A f \in Target(fd, "out") :
     f \in Jobs \cup lost \/ (mpc = "addJob" /\ entry = f)

\* The answers to each equation of a file.
AnswersOf == [c \in Contents |-> [i \in DOMAIN c.eqs |->
                {n \in Word \cup UWord : Answers(n, c.eqs[i])}]]

\* Files with as many equations as they announce, all of them solvable and
\* none misjudged, and their number an int.
Regular == {c \in Contents :
              /\ c.valid /\ c.count = Len(c.eqs) /\ c.count <= IntMax
              /\ \A i \in DOMAIN c.eqs : Solvable(c.eqs[i]) /\ ~Misjudged(c.eqs[i])}

\* The places of the items in a solved file, and what it has.
Whole(f) == { p \in DOMAIN output[f] : output[f][p].id # None }
Has(f)   == { output[f][p].id[2] : p \in Whole(f) }

(* However many workers write at once, and after a signal or a bad file as *)
(* well, a solved file has its own items in their order, none twice; up to *)
(* its last item exactly those are missing whose write failed, although    *)
(* nobody notices; and when the job of a regular file is done, unless a    *)
(* read failed or memory ran out, it has the header and one solution for   *)
(* each equation announced, but for those, and no more.  Files that are    *)
(* not regular, and what an earlier run left in front, are SolvedAsGraded, *)
(* below.                                                                  *)
AnswersAreWhole ==
  \A f \in Files :
    /\ \A p \in Whole(f) : /\ output[f][p].id[1] = f
                            /\ \A q \in Whole(f) :
                                 p < q => output[f][p].id[2] < output[f][q].id[2]
    /\ \A j \in Has(f) : \A i \in 0 .. j : i \in Has(f) <=> <<f, i>> \notin gaps
    /\ content[f] \in Regular /\ f \in finished \ failed =>
         Has(f) \ {-1} = {i \in 0 .. content[f].count : <<f, i>> \notin gaps}

(* The number that a reader takes from a solution, by its type, is the     *)
(* answer to its equation, although operands are signed in the file, added,*)
(* shifted and rotated as one union, and written as int64_t again; but not *)
(* for a difference of INT_MAX + 1, see SolvedAsGraded.                    *)
AnswersAreRight ==
  \A f \in Files : \A p \in Whole(f) :
    LET item == output[f][p]
    IN  item.id[2] > 0 /\ ~TooLarge(content[f].eqs[item.id[2]]) =>
          NumberTold(item.answer) \in AnswersOf[content[f]][item.id[2]]

(* What EquGrader.py wants of a solved file (lines 343-347, 375 and 410):  *)
(* the header at its beginning, and behind it one solution for each        *)
(* equation announced, which may be one that says that there is none, and  *)
(* no more.  It is asked when the file has these equations and no call     *)
(* failed; FileGraded.cfg shows what comes instead.                        *)
SolvedAsGraded ==
  \A f \in finished \ failed :
    LET n == content[f].count
    IN  /\ n <= Len(content[f].eqs)
        /\ \A i \in 0 .. Len(content[f].eqs) : <<f, i>> \notin gaps
        => /\ Len(output[f]) = n + 1
           /\ \A i \in 0 .. n : output[f][i + 1].id = <<f, i>>
           /\ \A i \in 1 .. n :
                Solvable(content[f].eqs[i]) =>
                  Answers(NumberTold(output[f][i + 1].answer), content[f].eqs[i])

(* While main goes round its loop, every file whose job was queued comes   *)
(* to be solved, unless a signal comes first.                              *)
DirectoryIsSolved ==
  mpc = "spin" ~> Files \ (Hidden \cup lost) \subseteq finished \/ flag # 0

(* After a signal, or a file that is refused, the program ends: main       *)
(* reaches the end of the directory, and the workers that of their files.  *)
ProgramEnds == flag # 0 \/ mpc = "destroy" ~> mpc = "exited"
=============================================================================
