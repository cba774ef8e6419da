----------------------------- MODULE L1dGeometry -----------------------------
(***************************************************************************)
(* The address and line arithmetic the two cache controllers share.  An    *)
(* address is split by the RTL into tag, set index and byte offset; here   *)
(* it is the record of its line (tag, set) and the aligned unit inside the *)
(* line that the access touches (Word).  One Word stands for the bytes an  *)
(* aligned access of any size reads or writes.                             *)
(***************************************************************************)
EXTENDS Integers

CONSTANTS
  NumTags,        \* number of tags: 2^TAG_BITS
  NumSets,        \* NUM_SETS
  NumWays,        \* NUM_WAYS
  VictimEntries,  \* VICTIM_ENTRIES
  Word,           \* the aligned units of a line
  FirstWord,      \* the unit at offset 0
  Value,          \* what a unit can hold
  Zero            \* the all-zero value

\* The parameter checks of the initial block, without the powers of two: the
\* controllers only rely on wrap-around, which Succ states for any size.
ASSUME GeometryAssumption ==
  /\ NumTags \in Nat \ {0}
  /\ NumSets \in Nat \ {0, 1}
  /\ NumWays \in {1, 2}
  /\ VictimEntries \in Nat \ {0}
  /\ FirstWord \in Word
  /\ Zero \in Value

Tag    == 0 .. NumTags - 1
SetIdx == 0 .. NumSets - 1
Way    == 0 .. NumWays - 1
VcIdx  == 0 .. VictimEntries - 1

Line     == [tag : Tag, set : SetIdx]
LineData == [Word -> Value]

ResetLine == [tag |-> 0, set |-> 0]
ResetData == [w \in Word |-> Zero]

\* Mutant of Succ: the index does not wrap.
Succ_NoWrap(i, n) == i + 1

\* An index of a structure of n entries after i, wrapping as its register does.
Succ(i, n) == IF i = n - 1 THEN 0 ELSE i + 1

\* The line LINE_BYTES above l: the set index carries into the tag, and the
\* last line of the address space is followed by the first.
NextLine(l) ==
  IF l.set = NumSets - 1
    THEN [tag |-> Succ(l.tag, NumTags), set |-> 0]
    ELSE [l EXCEPT !.set = @ + 1]

\* A CPU access or a prefetch, as the request registers hold it.
Request ==
  [line : Line, word : Word, write : BOOLEAN, wdata : Value, prefetch : BOOLEAN]

PrefetchRequest(l) ==
  [line |-> l, word |-> FirstWord, write |-> FALSE, wdata |-> Zero, prefetch |-> TRUE]

merge_store_data(data, r) == [data EXCEPT ![r.word] = r.wdata]
line_load_data(data, r)   == data[r.word]

\* The line an access leaves behind: the merged line of a store, or the line
\* as it was.
AccessedLine(data, r) == IF r.write THEN merge_store_data(data, r) ELSE data

\* A line leaving L1, and what a victim cache entry stores of it.
VictimEntry ==
  [valid : BOOLEAN, dirty : BOOLEAN, prefetched : BOOLEAN, addr : Line, data : LineData]

NoVictim ==
  [valid |-> FALSE, dirty |-> FALSE, prefetched |-> FALSE,
   addr |-> ResetLine, data |-> ResetData]
===============================================================================
