--------------------------- MODULE ClientRequests ---------------------------
(***************************************************************************)
(* The tool's side of the client-request and monitor-command protocol of   *)
(* Derivgrind (dg_main.c): the mode the options select, and every branch   *)
(* of dg_handle_client_request and dg_handle_gdb_monitor_command acting on *)
(* the three shadow layers (dot values, indices, bit-trick flags), the     *)
(* tape, the index files and the per-thread DISABLE counters.              *)
(*                                                                         *)
(* A request is one step: Valgrind runs the handler to completion on the   *)
(* requesting thread.  Threads interleave between requests.  The handler   *)
(* answers with a Bool "handled" and may write *ret; a branch that writes  *)
(* nothing leaves ret Unset.  Client memory the handler reads or writes    *)
(* (dot and index buffers) is not modelled; the addresses are.             *)
(***************************************************************************)
EXTENDS Integers, Sequences, SequencesExt, TapeRecorder

CONSTANTS
    Tids,        \* client threads
    Addrs,       \* client addresses
    DotVals,     \* dot values the client or the user sets
    FlagVals,    \* values of the bit-trick flag layer
    MaxTape,     \* bound on the tape length
    MaxFile,     \* bound on the length of each index file
    MaxDisable,  \* bound on the magnitude of a DISABLE counter
    Unset        \* *ret was not written

(* Command-line options: --record, --trick, and three options that         *)
(* dg_post_clo_init allows only in recording mode.                         *)
Options == {"record", "trick", "typegrind", "record-values", "record-stop"}
OptionLists == BoundedSeq(Options, 2)

(* dg_process_cmd_line_option: --record=<dir> selects mode 'b', --trick    *)
(* mode 't'; the last one given wins; without either the mode is 'd'.      *)
ModeOf(opts) ==
    FoldLeft(LAMBDA m, o : CASE o = "record" -> "b"
                             [] o = "trick"  -> "t"
                             [] OTHER        -> m, "d", opts)

(* dg_post_clo_init asserts that --typegrind, --record-values and          *)
(* --record-stop come with recording mode; otherwise the tool aborts       *)
(* before the client starts.                                               *)
PostCloInitOK(opts) ==
    \A k \in 1..Len(opts) :
        opts[k] \in {"typegrind", "record-values", "record-stop"} => ModeOf(opts) = "b"

VARIABLES
    mode,        \* 'd', 'b' or 't'
    dot,         \* dot-value shadow layer (forward mode)
    idx,         \* index shadow layers sm_barLo/sm_barHi, one index per address
    flags,       \* flag shadow layers of bit-trick mode
    tape,        \* the tape
    inFile,      \* input index file
    outFile,     \* output index file
    dg_disable,  \* dg_disable[tid]
    reply,       \* reply[t]: handled flag and *ret of t's last request
    unreported   \* history: requests served but not reported handled

vars == <<mode, dot, idx, flags, tape, inFile, outFile, dg_disable, reply, unreported>>

Init ==
    /\ \E opts \in OptionLists : PostCloInitOK(opts) /\ mode = ModeOf(opts)
    /\ dot = [a \in Addrs |-> 0]
    /\ idx = [a \in Addrs |-> 0]
    /\ flags = [a \in Addrs |-> 0]
    /\ tape = <<>> /\ inFile = <<>> /\ outFile = <<>>
    /\ dg_disable = [t \in Tids |-> 0]
    /\ reply = [t \in Tids |-> [handled |-> TRUE, ret |-> Unset]]
    /\ unreported = {}

(* The answer of a request of thread t.                                    *)
Answer(t, handled, ret) == reply' = [reply EXCEPT ![t] = [handled |-> handled, ret |-> ret]]

(* A request that returns before touching any state because the mode does *)
(* not match: "if(mode!=m) return True;" with *ret not written.            *)
WrongMode(t, m) ==
    /\ mode # m
    /\ Answer(t, TRUE, Unset)
    /\ UNCHANGED <<mode, dot, idx, flags, tape, inFile, outFile, dg_disable, unreported>>

(* A branch that serves the request and leaves the layers, the tape and    *)
(* the files as they were.                                                 *)
Served(t, m, handled, ret) ==
    /\ mode = m
    /\ Answer(t, handled, ret)
    /\ UNCHANGED <<mode, dot, idx, flags, tape, inFile, outFile, dg_disable, unreported>>

-----------------------------------------------------------------------------
(* Client requests (dg_handle_client_request).                             *)

(* GET_DOTVALUE copies the dot shadow into client memory.                  *)
GetDotvalue(t) == WrongMode(t, "d") \/ Served(t, "d", TRUE, 1)

(* SET_DOTVALUE copies client memory into the dot shadow of a.             *)
SetDotvalue(t, a, d) ==
    \/ WrongMode(t, "d")
    \/ /\ mode = "d"
       /\ dot' = [dot EXCEPT ![a] = d]
       /\ Answer(t, TRUE, 1)
       /\ UNCHANGED <<mode, idx, flags, tape, inFile, outFile, dg_disable, unreported>>

(* DISABLE returns the thread's previous counter and adds arg1 - arg2, in  *)
(* every mode.                                                             *)
Disable(t, x, y) ==
    LET n == dg_disable[t] + x - y
    IN  /\ n \in -MaxDisable..MaxDisable
        /\ dg_disable' = [dg_disable EXCEPT ![t] = n]
        /\ Answer(t, TRUE, dg_disable[t])
        /\ UNCHANGED <<mode, dot, idx, flags, tape, inFile, outFile, unreported>>

(* GET_INDEX copies the index of a into client memory.                     *)
GetIndex(t) == WrongMode(t, "b") \/ Served(t, "b", TRUE, 1)

(* A variant of SET_INDEX that does not check the mode.                    *)
SetIndexAnyMode(t, a, i) ==
    /\ idx' = [idx EXCEPT ![a] = i]
    /\ Answer(t, TRUE, 1)
    /\ UNCHANGED <<mode, dot, flags, tape, inFile, outFile, dg_disable, unreported>>

(* SET_INDEX gives a the index the client passes.                          *)
SetIndex(t, a, i) ==
    \/ WrongMode(t, "b")
    \/ /\ mode = "b"
       /\ idx' = [idx EXCEPT ![a] = i]
       /\ Answer(t, TRUE, 1)
       /\ UNCHANGED <<mode, dot, flags, tape, inFile, outFile, dg_disable, unreported>>

(* NEW_INDEX / NEW_INDEX_NOACTIVITYANALYSIS: tapeAddStatement (with or     *)
(* without pruning) of the record in the client's TapeBlockInfo; the new   *)
(* index goes to client memory.  An operand index beyond the tape is fatal *)
(* in tapeAddStatement, so no step follows it.                             *)
NewIndex(t, e, noAA) ==
    \/ WrongMode(t, "b")
    \/ /\ mode = "b"
       /\ Len(tape) < MaxTape
       /\ e.index1 <= Len(tape) /\ e.index2 <= Len(tape)
       /\ tape' = IF noAA THEN TapeAfterAddNoAA(tape, e) ELSE TapeAfterAdd(tape, e)
       /\ Answer(t, TRUE, 1)
       /\ UNCHANGED <<mode, dot, idx, flags, inFile, outFile, dg_disable, unreported>>

(* A variant of INDEX_TO_FILE whose output branch is not an else branch.   *)
IndexToFileBoth(t, isInput, i) ==
    \/ WrongMode(t, "b")
    \/ /\ mode = "b"
       /\ Len(IF isInput THEN inFile ELSE outFile) < MaxFile
       /\ inFile' = IF isInput THEN Append(inFile, i) ELSE inFile
       /\ outFile' = Append(outFile, i)
       /\ Answer(t, TRUE, Unset)
       /\ UNCHANGED <<mode, dot, idx, flags, tape, dg_disable, unreported>>

(* INDEX_TO_FILE appends an index to the input or output file and returns  *)
(* without writing *ret.  Any other file argument is a failed tl_assert.   *)
IndexToFile(t, isInput, i) ==
    \/ WrongMode(t, "b")
    \/ /\ mode = "b"
       /\ Len(IF isInput THEN inFile ELSE outFile) < MaxFile
       /\ inFile' = IF isInput THEN Append(inFile, i) ELSE inFile
       /\ outFile' = IF isInput THEN outFile ELSE Append(outFile, i)
       /\ Answer(t, TRUE, Unset)
       /\ UNCHANGED <<mode, dot, idx, flags, tape, dg_disable, unreported>>

(* GET_FLAGS and SET_FLAGS serve the request in bit-trick mode and then    *)
(* fall off the end of the function without a return statement: the       *)
(* "handled" result is whatever the return register holds, either Bool.    *)
GetFlags(t) ==
    \/ WrongMode(t, "t")
    \/ /\ mode = "t"
       /\ \E h \in BOOLEAN :
             /\ Answer(t, h, Unset)
             /\ unreported' = IF h THEN unreported ELSE unreported \cup {"GET_FLAGS"}
       /\ UNCHANGED <<mode, dot, idx, flags, tape, inFile, outFile, dg_disable>>

SetFlags(t, a, f) ==
    \/ WrongMode(t, "t")
    \/ /\ mode = "t"
       /\ flags' = [flags EXCEPT ![a] = f]
       /\ \E h \in BOOLEAN :
             /\ Answer(t, h, Unset)
             /\ unreported' = IF h THEN unreported ELSE unreported \cup {"SET_FLAGS"}
       /\ UNCHANGED <<mode, dot, idx, tape, inFile, outFile, dg_disable>>

(* GET_MODE returns the mode character as (UWord)mode.                     *)
ModeChar == [m \in {"d", "b", "t"} |-> CASE m = "d" -> 100 [] m = "b" -> 98 [] m = "t" -> 116]

GetMode(t) ==
    /\ Answer(t, TRUE, ModeChar[mode])
    /\ UNCHANGED <<mode, dot, idx, flags, tape, inFile, outFile, dg_disable, unreported>>

(* Any other request number: a message, and "handled" without *ret.        *)
UnknownRequest(t) ==
    /\ Answer(t, TRUE, Unset)
    /\ UNCHANGED <<mode, dot, idx, flags, tape, inFile, outFile, dg_disable, unreported>>

-----------------------------------------------------------------------------
(* Monitor commands (dg_handle_gdb_monitor_command), reaching the tool as  *)
(* the request GDB_MONITOR_COMMAND: *ret is 1 if the command was handled,  *)
(* else 0.                                                                 *)

(* The commands that change no state, with the mode each needs; a         *)
(* command word that is ambiguous is "handled", an unknown one is not, and *)
(* an address that does not parse makes the command unhandled.            *)
ReadCommands == {"ambiguous", "unknown", "help", "get", "fget", "lget", "index", "flagsget"}
CommandMode == [c \in ReadCommands |->
                  CASE c \in {"get", "fget", "lget"} -> "d"
                    [] c = "index"                   -> "b"
                    [] c = "flagsget"                -> "t"
                    [] OTHER                         -> "any"]

CommandHandled(c, addrOK) ==
    CASE c = "ambiguous" -> TRUE
      [] c = "unknown"   -> FALSE
      [] c = "help"      -> TRUE
      [] OTHER           -> CommandMode[c] = mode /\ addrOK

GdbRead(t, c, addrOK) ==
    LET h == CommandHandled(c, addrOK)
    IN  /\ Answer(t, h, IF h THEN 1 ELSE 0)
        /\ UNCHANGED <<mode, dot, idx, flags, tape, inFile, outFile, dg_disable, unreported>>

(* "set/fset/lset <addr> <val>" in forward mode writes the dot shadow.     *)
GdbSetDot(t, a, d) ==
    \/ /\ mode # "d"
       /\ Answer(t, FALSE, 0)
       /\ UNCHANGED <<mode, dot, idx, flags, tape, inFile, outFile, dg_disable, unreported>>
    \/ /\ mode = "d"
       /\ dot' = [dot EXCEPT ![a] = d]
       /\ Answer(t, TRUE, 1)
       /\ UNCHANGED <<mode, idx, flags, tape, inFile, outFile, dg_disable, unreported>>

(* "mark/fmark/lmark <addr>" in recording mode: a new leaf from            *)
(* tapeAddStatement_noActivityAnalysis(0,0,0,0) becomes the index of a.    *)
GdbMarkIndex(t, a) ==
    \/ /\ mode # "b"
       /\ Answer(t, FALSE, 0)
       /\ UNCHANGED <<mode, dot, idx, flags, tape, inFile, outFile, dg_disable, unreported>>
    \/ /\ mode = "b"
       /\ Len(tape) < MaxTape
       /\ tape' = TapeAfterAddNoAA(tape, Entry(0, 0, 0, 0))
       /\ idx' = [idx EXCEPT ![a] = Len(tape) + 1]
       /\ Answer(t, TRUE, 1)
       /\ UNCHANGED <<mode, dot, flags, inFile, outFile, dg_disable, unreported>>

-----------------------------------------------------------------------------
Indices == 0..MaxTape
Records == {Entry(i1, i2, d1, d2) : i1, i2 \in Indices, d1, d2 \in {0, 1}}

(* One request or monitor command of thread t, run to completion.        *)
Request(t) ==
        \/ GetDotvalue(t)
        \/ \E a \in Addrs, d \in DotVals : SetDotvalue(t, a, d) \/ GdbSetDot(t, a, d)
        \/ \E x, y \in {0, 1} : Disable(t, x, y)
        \/ GetIndex(t)
        \/ \E a \in Addrs, i \in Indices : SetIndex(t, a, i)
        \/ \E e \in Records, noAA \in BOOLEAN : NewIndex(t, e, noAA)
        \/ \E isInput \in BOOLEAN, i \in Indices : IndexToFile(t, isInput, i)
        \/ GetFlags(t)
        \/ \E a \in Addrs, f \in FlagVals : SetFlags(t, a, f)
        \/ GetMode(t)
        \/ UnknownRequest(t)
        \/ \E c \in ReadCommands, addrOK \in BOOLEAN : GdbRead(t, c, addrOK)
        \/ \E a \in Addrs : GdbMarkIndex(t, a)

Next == \E t \in Tids : Request(t)

Spec == Init /\ [][Next]_vars

-----------------------------------------------------------------------------
TypeOK ==
    /\ mode \in {"d", "b", "t"}
    /\ dot \in [Addrs -> DotVals \cup {0}]
    /\ idx \in [Addrs -> Indices]
    /\ flags \in [Addrs -> FlagVals \cup {0}]
    /\ Len(tape) <= MaxTape /\ Len(inFile) <= MaxFile /\ Len(outFile) <= MaxFile
    /\ dg_disable \in [Tids -> -MaxDisable..MaxDisable]
    /\ \A t \in Tids : reply[t].handled \in BOOLEAN
    /\ unreported \subseteq {"GET_FLAGS", "SET_FLAGS"}

(* Mode isolation: the mode never changes after dg_post_clo_init, and no   *)
(* request or monitor command, from any thread, touches a shadow layer,    *)
(* the tape or an index file of a mode other than the one selected: the    *)
(* dot layer only in forward mode, indices, tape and files only in         *)
(* recording mode, flags only in bit-trick mode.                           *)
ModeIsolation ==
    [][ /\ mode' = mode
        /\ mode # "d" => dot' = dot
        /\ mode # "b" => <<idx, tape, inFile, outFile>>' = <<idx, tape, inFile, outFile>>
        /\ mode # "t" => flags' = flags ]_vars

(* A handler reports every request it served as handled: Valgrind's       *)
(* contract for tool_handle_client_request.  GET_FLAGS/SET_FLAGS serve the  *)
(* request in bit-trick mode and return no value.                          *)
ServedReported == unreported = {}

=============================================================================
