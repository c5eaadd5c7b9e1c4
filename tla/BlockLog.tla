------------------------------ MODULE BlockLog ------------------------------
(***************************************************************************)
(* scorum::chain::block_log: the append-only file of irreversible blocks   *)
(* and its index file of positions, through appends, reads, flushes, the   *)
(* death of the process and the repair of the index on open().             *)
(*                                                                         *)
(* Blocks are numbers.  The block file is a sequence of words: the parts   *)
(* of a block and then the word that repeats the position where the block  *)
(* begins.  A stream holds back what it has not written; closing a stream, *)
(* which is how the code changes between reading and writing, writes it.   *)
(***************************************************************************)
EXTENDS Integers, Sequences, SequencesExt

CONSTANTS
  MaxBlock,      \* bound on block numbers
  Parts,         \* into how many words a block packs
  InitialBlocks  \* blocks in the log, flushed, at the start

ASSUME BlockLogAssumption ==
  /\ MaxBlock \in Nat /\ InitialBlocks \in 0 .. MaxBlock
  /\ Parts \in Nat \ {0}

VARIABLES
  blockFile, blockBuf,   \* written to disk, held in block_stream
  indexFile, indexBuf,   \* the same for index_stream, positions only
  head,                  \* my->head: the number of the last block, 0 if none
  blockWrite, indexWrite,\* the mode of the streams
  status,                \* "open", "closed", or "broken": open() threw
  durable                \* history: head when the log was last written out

logVars == <<blockFile, blockBuf, indexFile, indexBuf, head, blockWrite, indexWrite,
          status, durable>>

-----------------------------------------------------------------------------
Part(n, i) == [block |-> n, part |-> i]
Pos(p) == [pos |-> p]

EntrySize == Parts + 1

Entry(n, p) == Append([i \in 1 .. Parts |-> Part(n, i)], Pos(p))

IsPos(word) == "pos" \in DOMAIN word

\* What raw::unpack finds at a position: a block, or 0 when it is not the
\* beginning of one that is complete.
UnpackAt(words, p) ==
  IF /\ p + Parts <= Len(words)
     /\ ~IsPos(words[p + 1])
     /\ \A i \in 1 .. Parts : words[p + i] = Part(words[p + 1].block, i)
  THEN words[p + 1].block ELSE 0

-----------------------------------------------------------------------------
(* check_block_read ... check_index_write: closing a stream flushes it.     *)

CheckBlockRead ==
  /\ blockWrite' = FALSE
  /\ IF blockWrite THEN blockFile' = blockFile \o blockBuf /\ blockBuf' = <<>>
     ELSE UNCHANGED <<blockFile, blockBuf>>

CheckIndexRead ==
  /\ indexWrite' = FALSE
  /\ IF indexWrite THEN indexFile' = indexFile \o indexBuf /\ indexBuf' = <<>>
     ELSE UNCHANGED <<indexFile, indexBuf>>

BlockTell == Len(blockFile) + Len(blockBuf)
IndexTell == Len(indexFile) + Len(indexBuf)

\* The caller appends the block after head.  The index must end just before
\* the new block's place, or append() throws and nothing is written.
Appendable == IndexTell = head

\* block_log::append
AppendBlock ==
  /\ status = "open" /\ head < MaxBlock /\ Appendable
  /\ blockBuf' = blockBuf \o Entry(head + 1, BlockTell)
  /\ indexBuf' = Append(indexBuf, BlockTell)
  /\ head' = head + 1
  /\ blockWrite' = TRUE /\ indexWrite' = TRUE
  /\ UNCHANGED <<blockFile, indexFile, status, durable>>

\* Mutant: only the index stream is flushed.
FlushIndexOnly ==
  /\ status = "open"
  /\ indexFile' = indexFile \o indexBuf /\ indexBuf' = <<>>
  /\ durable' = head
  /\ UNCHANGED <<blockFile, blockBuf, head, blockWrite, indexWrite, status>>

\* block_log::flush
Flush ==
  /\ status = "open"
  /\ blockFile' = blockFile \o blockBuf /\ blockBuf' = <<>>
  /\ indexFile' = indexFile \o indexBuf /\ indexBuf' = <<>>
  /\ durable' = head
  /\ UNCHANGED <<head, blockWrite, indexWrite, status>>

\* read_block_by_num: both streams end in read mode; get_block_pos returns
\* npos, and no block is read, when the number is not in the log.
ReadBlockByNum(n) ==
  /\ status = "open"
  /\ CheckIndexRead
  /\ IF n \in 1 .. head THEN CheckBlockRead
     ELSE UNCHANGED <<blockFile, blockBuf, blockWrite>>
  /\ UNCHANGED <<head, status, durable>>

\* What it returns: 0 when the index ends before the position, or when there
\* is no block at it.
BlockByNum(n) ==
  LET positions == indexFile \o indexBuf
  IN  IF n \in 1 .. head /\ n <= Len(positions)
      THEN UnpackAt(blockFile \o blockBuf, positions[n]) ELSE 0

\* block_log::close: the streams are destroyed, and with that flushed.
Close ==
  /\ status = "open"
  /\ blockFile' = blockFile \o blockBuf /\ blockBuf' = <<>>
  /\ indexFile' = indexFile \o indexBuf /\ indexBuf' = <<>>
  /\ durable' = head
  /\ head' = 0 /\ status' = "closed"
  /\ blockWrite' = TRUE /\ indexWrite' = TRUE

\* The process dies.  Of what a stream holds, any first part may have been
\* written already, independently of the other stream.
Crash ==
  /\ status = "open"
  /\ \E n \in 0 .. Len(blockBuf) : blockFile' = blockFile \o SubSeq(blockBuf, 1, n)
  /\ \E n \in 0 .. Len(indexBuf) : indexFile' = indexFile \o SubSeq(indexBuf, 1, n)
  /\ blockBuf' = <<>> /\ indexBuf' = <<>>
  /\ head' = 0 /\ status' = "closed"
  /\ blockWrite' = TRUE /\ indexWrite' = TRUE
  /\ UNCHANGED durable

-----------------------------------------------------------------------------
(* open                                                                    *)

\* construct_index reads block after block and copies each position word, until
\* one that is not below the file's last word; it reads none when that is 0.
PosWord(k) == blockFile[k * EntrySize].pos

ConstructIndex ==
  LET end == Last(blockFile).pos
      count == IF end = 0 THEN 0
               ELSE CHOOSE k \in 1 .. Len(blockFile) \div EntrySize :
                      /\ PosWord(k) >= end
                      /\ \A j \in 1 .. k - 1 : PosWord(j) < end
  IN  [k \in 1 .. count |-> PosWord(k)]

\* The comparison of the two files' last words.
IndexUsable == indexFile # <<>> /\ Last(blockFile).pos = Last(indexFile)

\* read_head: the last word of the file must be a position with a block at it.
Readable == IsPos(Last(blockFile)) /\ UnpackAt(blockFile, Last(blockFile).pos) # 0

OpenEmpty ==
  /\ status = "closed" /\ blockFile = <<>>
  /\ indexFile' = <<>>
  /\ head' = 0 /\ status' = "open"
  /\ blockWrite' = TRUE /\ indexWrite' = TRUE
  /\ UNCHANGED <<blockFile, blockBuf, indexBuf, durable>>

OpenLog ==
  /\ status = "closed" /\ blockFile # <<>> /\ Readable
  /\ head' = UnpackAt(blockFile, Last(blockFile).pos)
  /\ status' = "open" /\ blockWrite' = FALSE
  /\ IF IndexUsable
     THEN indexWrite' = FALSE /\ UNCHANGED <<indexFile, indexBuf>>
     ELSE indexFile' = <<>> /\ indexBuf' = ConstructIndex /\ indexWrite' = TRUE
  /\ UNCHANGED <<blockFile, blockBuf, durable>>

OpenTorn ==
  /\ status = "closed" /\ blockFile # <<>> /\ ~Readable
  /\ status' = "broken"
  /\ UNCHANGED <<blockFile, blockBuf, indexFile, indexBuf, head, blockWrite,
                 indexWrite, durable>>

-----------------------------------------------------------------------------
Written(n) ==
  [i \in 1 .. n * EntrySize |->
     LET b == (i - 1) \div EntrySize
         k == ((i - 1) % EntrySize) + 1
     IN  IF k = EntrySize THEN Pos(b * EntrySize) ELSE Part(b + 1, k)]

BlockLogInit ==
  /\ blockFile = Written(InitialBlocks) /\ blockBuf = <<>>
  /\ indexFile = [i \in 1 .. InitialBlocks |-> (i - 1) * EntrySize]
  /\ indexBuf = <<>>
  /\ head = 0 /\ status = "closed" /\ durable = InitialBlocks
  /\ blockWrite = TRUE /\ indexWrite = TRUE

BlockLogNext ==
  \/ AppendBlock \/ Flush \/ Close \/ Crash
  \/ \E n \in 1 .. MaxBlock : ReadBlockByNum(n)
  \/ OpenEmpty \/ OpenLog \/ OpenTorn

BlockLogSpec == BlockLogInit /\ [][BlockLogNext]_logVars

-----------------------------------------------------------------------------
\* A log of one block whose index was rebuilt: construct_index read nothing.
OneBlockUnindexed == head = 1 /\ IndexTell = 0

\* An open log returns block n for every n up to its head, wherever the blocks
\* and their positions are, on disk or in a stream, and however often the
\* process died and the index was repaired: what read_block_by_num promises.
\* The one exception is a log of a single block, whose rebuilt index is empty.
EveryBlockReadable ==
  status = "open" /\ ~OneBlockUnindexed => \A n \in 1 .. head : BlockByNum(n) = n

\* append() never finds the index at another place than the new block's, which
\* it would refuse ("Append to index file occuring at wrong position"), with
\* the same exception.
NeverRefusesAppend == status = "open" /\ ~OneBlockUnindexed => Appendable

\* Blocks written out by flush() or close() are in the log after every later
\* open(), as long as it can be opened at all.
FlushedBlocksStay == status = "open" => head >= durable

\* An open log serves every block it ever flushed and takes the next one.
LogSound == EveryBlockReadable /\ NeverRefusesAppend /\ FlushedBlocksStay
=============================================================================
