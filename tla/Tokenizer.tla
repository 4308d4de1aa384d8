------------------------------ MODULE Tokenizer ------------------------------
(***************************************************************************)
(* tokenize: the words of a file, which is read in blocks, go through the  *)
(* buffer of the file thread into the table of the file.  A thread uses    *)
(* the same buffer for one file after the other.  What a file contains is  *)
(* chosen while it is read.  The table keeps the words here; WfTable says  *)
(* what else it does.                                                      *)
(***************************************************************************)
EXTENDS StringBuf

CONSTANTS
    Space,          \* the characters of isspace
    Other,          \* neither space, nor letter, digit or hyphen
    BlockSize,      \* 50
    MaxChars,       \* bound on the length of a file
    MaxFiles        \* bound on the number of files that the thread takes

ASSUME CharAssumption ==
    /\ Space \subseteq Char
    /\ Other \subseteq Char \ Space
    /\ BlockSize \in Nat \ {0}
    /\ MaxChars \in Nat
    /\ MaxFiles \in Nat

\* isalpha, isdigit or a hyphen.
InWord == Char \ (Space \cup Other)

VARIABLES
    content,        \* the characters that read has returned so far
    inter_buf,      \* those of the last block that were not looked at
    word_state,
    inserted,       \* the words given to hash_insert
    cut,            \* whether a read has failed
    files,          \* how many files are done
    pc

vars == <<buffer, content, inter_buf, word_state, inserted, cut, files, pc>>

Init ==
    /\ sb_create
    /\ content = <<>>
    /\ inter_buf = <<>>
    /\ word_state = "wEmpty"
    /\ inserted = <<>>
    /\ cut = FALSE
    /\ files = 0
    /\ pc = "read"

\* read returns any part of a block; it may return less than is left.
ReadBlock ==
    /\ pc = "read"
    /\ \E n \in 1..BlockSize : \E block \in [1..n -> Char] :
        /\ Len(content) + n <= MaxChars
        /\ content' = content \o block
        /\ inter_buf' = block
    /\ pc' = "scan"
    /\ UNCHANGED <<buffer, word_state, inserted, cut, files>>

\* The loop ends at the end of the file and when read fails, with -1.
ReadNothing ==
    /\ pc = "read"
    /\ cut' \in BOOLEAN
    /\ pc' = "rest"
    /\ UNCHANGED <<buffer, content, inter_buf, word_state, inserted, files>>

\* The next character of the block, and where the loop goes on after it.
Scan(c) ==
    /\ pc = "scan"
    /\ c = Head(inter_buf)
    /\ inter_buf' = Tail(inter_buf)
    /\ pc' = IF inter_buf' = <<>> THEN "read" ELSE "scan"
    /\ UNCHANGED <<content, cut, files>>

AppendChar(c) ==
    /\ Scan(c)
    /\ c \in InWord
    /\ sb_append(c)
    /\ word_state' = "wIncomplete"
    /\ UNCHANGED inserted

\* hash_insert of the word in the buffer.
InsertWord ==
    \E word \in {LowerWord} :
        /\ sb_get_lower_word(word)
        /\ inserted' = Append(inserted, word)

\* Mutant: a word ends at every character that is not part of one.
EndWordAnywhere(c) ==
    /\ Scan(c)
    /\ c \in Space \cup Other
    /\ word_state = "wIncomplete"
    /\ InsertWord
    /\ word_state' = "wEmpty"

EndWord(c) ==
    /\ Scan(c)
    /\ c \in Space
    /\ word_state = "wIncomplete"
    /\ InsertWord
    /\ word_state' = "wEmpty"

\* Spaces between words, and characters that are dropped, within words too.
SkipChar(c) ==
    /\ Scan(c)
    /\ c \in Other \/ (c \in Space /\ word_state = "wEmpty")
    /\ UNCHANGED <<buffer, word_state, inserted>>

\* The last word has no space after it.
FinishFile ==
    /\ pc = "rest"
    /\ IF word_state = "wIncomplete" THEN InsertWord ELSE UNCHANGED <<buffer, inserted>>
    /\ files' = files + 1
    /\ pc' = "success"
    /\ UNCHANGED <<content, inter_buf, word_state, cut>>

\* Out of memory: in sb_append, sb_get_lower_word, hash_insert or the list.
Fail ==
    /\ pc \in {"scan", "rest"}
    /\ pc' = "failed"
    /\ UNCHANGED <<buffer, content, inter_buf, word_state, inserted, cut, files>>

\* The file thread takes its next file; word_state is a local of tokenize.
NextFile ==
    /\ pc = "success"
    /\ files < MaxFiles
    /\ content' = <<>>
    /\ word_state' = "wEmpty"
    /\ inserted' = <<>>
    /\ cut' = FALSE
    /\ pc' = "read"
    /\ UNCHANGED <<buffer, inter_buf, files>>

\* sb_destroy, and the end of the thread or of the process.
Over ==
    /\ pc = "failed" \/ (pc = "success" /\ files >= MaxFiles)
    /\ UNCHANGED vars

Next ==
    \/ ReadBlock
    \/ ReadNothing
    \/ \E c \in Char : AppendChar(c) \/ EndWord(c) \/ SkipChar(c)
    \/ FinishFile
    \/ Fail
    \/ NextFile
    \/ Over

Spec == Init /\ [][Next]_vars
=============================================================================
