------------------------------ MODULE GscvdArgs ------------------------------
(***************************************************************************)
(* The command line of futility gscvd (cmd_gscvd.c): do_gscvd's getopt     *)
(* loop, parse_ranges for -R and the strtoull of -b, and the checks that   *)
(* decide between signing, validation and a usage error.  What follows     *)
(* (signing, validation) is GscvdSign's.                                   *)
(*                                                                         *)
(* Strings are abstracted to tokens [kind, v]: a number is a hex literal   *)
(* ("hex", its value), a negative one ("neg"), an empty string ("empty")   *)
(* or a string with a stray character ("junk").  A -R argument is the      *)
(* sequence of its comma-separated fields [colon, off, size].              *)
(* strtol/strtoull are modelled by what glibc does with each (a missing    *)
(* number converts to 0 without error; an out-of-range value sets ERANGE   *)
(* and saturates).  long and long long are LW bits wide, uint32_t is W.    *)
(***************************************************************************)
EXTENDS Integers, Sequences

CONSTANTS
    W,           \* width of uint32_t, scaled down
    LW,          \* width of long and long long, scaled down
    MAX_RANGES,  \* MAX_RANGES, the capacity of struct gscvd_ro_ranges
    RArgs,       \* -R arguments: sequences of comma-separated fields
    BoardArgs,   \* -b arguments: number tokens
    MaxOpts      \* bound on the options on the command line

ASSUME LW > W /\ MAX_RANGES \in Nat \ {0} /\ MaxOpts \in Nat

UINT32_MAX == 2^W - 1
LONG_MAX == 2^(LW - 1) - 1
ULLONG_MAX == 2^LW - 1

\* Conversion of an integer to uint32_t.
U32(x) == x % 2^W

\* A long long holding the bits of an unsigned long long.
SignedLL(x) == IF x > LONG_MAX THEN x - 2^LW ELSE x

\* strtol(s, &e, 16) followed by the "errno || *e" test.
Strtol(t) ==
    CASE t.kind = "hex"   -> [bad |-> t.v > LONG_MAX, val |-> t.v]
      [] t.kind = "neg"   -> [bad |-> t.v > LONG_MAX + 1, val |-> -t.v]
      [] t.kind = "empty" -> [bad |-> FALSE, val |-> 0]
      [] t.kind = "junk"  -> [bad |-> TRUE, val |-> 0]

\* strtoull(s, &e, 16) followed by the "*e" test (errno is not looked at:
\* an out-of-range value saturates to ULLONG_MAX; a '-' negates modulo
\* 2^LW).
Strtoull(t) ==
    CASE t.kind = "hex"   -> [bad |-> FALSE,
                              val |-> IF t.v > ULLONG_MAX THEN ULLONG_MAX
                                      ELSE t.v]
      [] t.kind = "neg"   -> [bad |-> FALSE,
                              val |-> IF t.v > ULLONG_MAX THEN ULLONG_MAX
                                      ELSE (2^LW - t.v) % 2^LW]
      [] t.kind = "empty" -> [bad |-> FALSE, val |-> 0]
      [] t.kind = "junk"  -> [bad |-> TRUE, val |-> 0]

-----------------------------------------------------------------------------
(* parse_ranges *)

\* Variant of the container check that lets one more range in.
RoomForOffByOne(count) == count <= MAX_RANGES

\* The "Too many ranges!" check at the top of each iteration.
RoomFor(count) == count < MAX_RANGES

\* Variant that does not reset range_count and appends to what an
\* earlier -R left.
RangesStartKept(current) == current

\* output->range_count = 0.
RangesStart(current) == <<>>

\* The do-while loop over the fields, one per iteration: a field is cut
\* at ',' and at ':', both halves go through strtol and are stored as
\* uint32_t; the first failure ends the loop, keeping the ranges before it.
RECURSIVE ParseFrom(_, _)
ParseFrom(fields, rs) ==
    LET f == Head(fields)
        off == Strtol(f.off)
        size == Strtol(f.size)
        next == Append(rs, [offset |-> U32(off.val), size |-> U32(size.val)])
    IN IF ~RoomFor(Len(rs)) \/ ~f.colon \/ off.bad \/ size.bad
       THEN [ok |-> FALSE, ranges |-> rs]
       ELSE IF Len(fields) = 1 THEN [ok |-> TRUE, ranges |-> next]
       ELSE ParseFrom(Tail(fields), next)

\* parse_ranges(input, output).
ParseRanges(arg, current) == ParseFrom(arg, RangesStart(current))

-----------------------------------------------------------------------------
(* do_gscvd up to signing *)

VARIABLES
    pc,          \* "Opts" (the getopt loop), "Sign", "Validate" or "Done"
    nOpts,       \* options read so far
    ranges,      \* the ranges container: the first range_count entries
    errorcount,  \* do_gscvd's error count
    keys,        \* which of root_pubk, kblock, plat_privk are loaded
    boardId,     \* board_id
    lastR,       \* the argument of the last -R option (<<>> if none)
    lastB,       \* the argument of the last -b option
    rv           \* do_gscvd's return value when pc = "Done"

vars == <<pc, nOpts, ranges, errorcount, keys, boardId, lastR, lastB, rv>>

Init ==
    /\ pc = "Opts" /\ nOpts = 0
    /\ ranges = <<>> /\ errorcount = 0 /\ keys = {}
    /\ boardId = UINT32_MAX
    /\ lastR = <<>> /\ lastB = [kind |-> "empty", v |-> 0]
    /\ rv = 0

\* getopt_long returns the next option.
NextOpt == pc = "Opts" /\ nOpts < MaxOpts /\ nOpts' = nOpts + 1

\* case 'R': parse_ranges, whose strdup may fail before it touches the
\* container.
OptR ==
    /\ NextOpt
    /\ \E arg \in RArgs :
          /\ lastR' = arg
          /\ \/ LET r == ParseRanges(arg, ranges)
                IN /\ ranges' = r.ranges
                   /\ errorcount' = IF r.ok THEN errorcount ELSE errorcount + 1
             \/ UNCHANGED ranges /\ errorcount' = errorcount + 1
    /\ UNCHANGED <<pc, keys, boardId, lastB, rv>>

\* case 'b': strtoull into a long long, then the range check.
OptB ==
    /\ NextOpt
    /\ \E arg \in BoardArgs :
          LET r == Strtoull(arg)
              bid == SignedLL(r.val)
          IN /\ lastB' = arg
             /\ IF r.bad \/ bid >= UINT32_MAX
                THEN errorcount' = errorcount + 1 /\ UNCHANGED boardId
                ELSE boardId' = U32(bid) /\ UNCHANGED errorcount
    /\ UNCHANGED <<pc, ranges, keys, lastR, rv>>

\* case 'r', 'k', 'p': the file is read; a failure leaves the pointer NULL.
OptKey ==
    /\ NextOpt
    /\ \E key \in {"r", "k", "p"}, ok \in BOOLEAN :
          IF ok THEN keys' = keys \cup {key} /\ UNCHANGED errorcount
          ELSE keys' = keys \ {key} /\ errorcount' = errorcount + 1
    /\ UNCHANGED <<pc, ranges, boardId, lastR, lastB, rv>>

\* case '?' and ':': an unknown option or a missing argument.
OptBad ==
    /\ NextOpt
    /\ errorcount' = errorcount + 1
    /\ UNCHANGED <<pc, ranges, keys, boardId, lastR, lastB, rv>>

\* case 'h': print the usage and return 0.
OptHelp ==
    /\ NextOpt
    /\ pc' = "Done" /\ rv' = 0
    /\ UNCHANGED <<ranges, errorcount, keys, boardId, lastR, lastB>>

\* getopt_long returns -1 with nPos arguments left.  No option at all is a
\* validation request; otherwise exactly the image must be left, and every
\* option must have parsed, with all required ones given.
EndOpts ==
    /\ pc = "Opts"
    /\ \E nPos \in 0 .. 2 :
          \/ nOpts = 0 /\ nPos > 0 /\ pc' = "Validate" /\ UNCHANGED rv
          \/ /\ ~(nOpts = 0 /\ nPos > 0)
             /\ IF nPos = 1 /\ errorcount = 0 /\ ranges # <<>>
                   /\ keys = {"r", "k", "p"} /\ boardId # UINT32_MAX
                THEN pc' = "Sign" /\ UNCHANGED rv
                ELSE pc' = "Done" /\ rv' = 1
    /\ UNCHANGED <<nOpts, ranges, errorcount, keys, boardId, lastR, lastB>>

Next == OptR \/ OptB \/ OptKey \/ OptBad \/ OptHelp \/ EndOpts

Spec == Init /\ [][Next]_vars

-----------------------------------------------------------------------------
(* Properties *)

\* The container is never written past its MAX_RANGES entries, however
\* many fields an argument has and however many -R options there are.
TypeOK ==
    /\ pc \in {"Opts", "Sign", "Validate", "Done"}
    /\ nOpts \in 0 .. MaxOpts
    /\ Len(ranges) <= MAX_RANGES
    /\ \A i \in DOMAIN ranges :
          ranges[i] \in [offset : 0 .. UINT32_MAX, size : 0 .. UINT32_MAX]
    /\ errorcount \in 0 .. MaxOpts /\ keys \subseteq {"r", "k", "p"}
    /\ boardId \in 0 .. UINT32_MAX /\ rv \in {0, 1}

\* do_gscvd goes on to sign only the ranges of the last -R option, each
\* of its fields converted, all of them and nothing else: no range of an
\* earlier -R, and no prefix that a failing -R left in the container.
SignedRangesAreLastArgument ==
    pc = "Sign" =>
        /\ Len(ranges) = Len(lastR)
        /\ \A i \in DOMAIN lastR :
              ranges[i] = [offset |-> U32(Strtol(lastR[i].off).val),
                           size |-> U32(Strtol(lastR[i].size).val)]

\* The usage text: -R is "hex tuples <offset>:<size>" and -b the board ID
\* "<hex value>".  do_gscvd signs only ranges whose offsets and sizes are
\* the hex values written, with the board ID written.
SignedAsWritten ==
    pc = "Sign" =>
        /\ \A i \in DOMAIN ranges :
              /\ lastR[i].off.kind = "hex" /\ lastR[i].off.v = ranges[i].offset
              /\ lastR[i].size.kind = "hex" /\ lastR[i].size.v = ranges[i].size
        /\ lastB.kind = "hex" /\ lastB.v = boardId

====
