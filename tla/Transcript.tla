----------------------------- MODULE Transcript -----------------------------
(***************************************************************************)
(* Reading the transcript of a session while claude appends to it:         *)
(* src/commands/cc/claude_sessions.rs.                                     *)
(*                                                                         *)
(* The file is a sequence of JSON lines, each known by its kind and by the *)
(* offset where it ends, and possibly the beginning of one more line. A    *)
(* reader asks for the last assistant text, the last token count, or the   *)
(* title. It looks at ever larger windows that end where the file ends at  *)
(* that moment, skips the first line of a window (it may be cut), and      *)
(* falls back to reading the whole file, or, for a title, to the first     *)
(* prompt of the user. An answer is the number of a line, 0 for none.      *)
(***************************************************************************)
EXTENDS Naturals, Sequences, FiniteSetsExt

CONSTANTS INITIAL_READ_SIZE, MAX_READ_SIZE, MAX_LINES_TO_SCAN,
          MaxLines,  \* bound: lines in the file
          MaxBytes   \* bound: bytes in a line

ASSUME SizesAssumption == /\ INITIAL_READ_SIZE \in Nat \ {0}
                          /\ MAX_READ_SIZE \in Nat /\ MAX_LINES_TO_SCAN \in Nat \ {0}
                          /\ MaxLines \in Nat /\ MaxBytes \in Nat \ {0}

\* A window, doubled often enough, becomes the largest one: 8 KiB and 64 KiB.
GrowsToLargest(window) ==
  \E n \in 0 .. MAX_READ_SIZE : \E widths \in [0 .. n -> 0 .. MAX_READ_SIZE] :
    /\ widths[0] = window /\ widths[n] = MAX_READ_SIZE
    /\ \A i \in 1 .. n : widths[i] = 2 * widths[i - 1]
ASSUME WindowsAssumption == GrowsToLargest(INITIAL_READ_SIZE)

VARIABLES
  lines,   \* the complete lines of the file
  torn,    \* bytes of a line that claude has begun to write
  reader   \* what the reader is doing
transcriptVars == <<lines, torn, reader>>

\* A prompt, a turn with text, a turn with tool calls only (both carry the
\* token counts), a generated title, a title the user gave.
EntryType == {"user", "text", "tool", "ai-title", "custom-title"}

\* What a reader asks for, and the kinds that it tells apart: a line of any
\* other kind is to it like one of these.
TellsApart == [message |-> {"text", "tool"}, tokens |-> {"tool", "user"},
               title |-> {"user", "ai-title", "custom-title"}]
Want == DOMAIN TellsApart

Start(i) == IF i = 1 THEN 0 ELSE lines[i - 1].end
LinesSize == Start(Len(lines) + 1)
Size == LinesSize + torn

\* size: file_size at the open; window: read_size; found: the best candidate so
\* far; pos: how far the forward reader has come; from: history, the number
\* of lines at the open.
Resting(want) == [want |-> want, pc |-> "idle", size |-> 0, window |-> 0, found |-> 0,
                  pos |-> 0, from |-> 0]

TranscriptTypeOK ==
  /\ \A i \in 1 .. Len(lines) : lines[i].kind \in EntryType /\ lines[i].end \in Nat
  /\ torn \in 0 .. MaxBytes
  /\ reader.want \in Want
  /\ reader.pc \in {"idle", "window", "forward", "prompt", "done"}
  /\ reader.found \in 0 .. Len(lines) /\ reader.from \in 0 .. Len(lines)

TranscriptInit == lines = <<>> /\ torn = 0 /\ \E want \in Want : reader = Resting(want)

-----------------------------------------------------------------------------
(* claude writes *)

AppendBegins == /\ torn = 0 /\ Len(lines) < MaxLines /\ MaxBytes > 1
                /\ torn' = 1 /\ UNCHANGED <<lines, reader>>

AppendEnds == /\ Len(lines) < MaxLines
              /\ \E kind \in TellsApart[reader.want], bytes \in 1 .. MaxBytes :
                   /\ bytes > torn
                   /\ lines' = Append(lines, [kind |-> kind, end |-> LinesSize + bytes])
              /\ torn' = 0 /\ UNCHANGED reader

-----------------------------------------------------------------------------
(* What a line says *)

assistant_text(i) == lines[i].kind = "text"
usage_total_from_line(i) == lines[i].kind \in {"text", "tool"}
title_from_line(i) == lines[i].kind \in {"ai-title", "custom-title"}
custom(i) == lines[i].kind = "custom-title"

Latest(is(_), range) == LET hits == {i \in range : is(i)} IN IF hits = {} THEN 0 ELSE Max(hits)

\* A title the user set comes before any generated one.
Title(range) == LET set == Latest(custom, range) IN
                IF set # 0 THEN set ELSE Latest(title_from_line, range)

-----------------------------------------------------------------------------
(* A window at the end of the file *)

actual_read == IF reader.window < reader.size THEN reader.window ELSE reader.size

\* The window ends where the file ends now, but whether it covers the file
\* is judged by the size at the open. A cut line does not parse.
Window == LET lo == Size - actual_read IN
  {i \in 1 .. Len(lines) : IF actual_read >= reader.size THEN Start(i) >= lo ELSE Start(i) > lo}

\* Only the last lines of a window are looked at, a torn one included.
LastFew == {i \in Window : i + MAX_LINES_TO_SCAN > Len(lines) + (IF torn > 0 THEN 1 ELSE 0)}

try_read_last_lines_OldestFirst ==
  LET hits == {i \in LastFew : assistant_text(i)} IN IF hits = {} THEN 0 ELSE Min(hits)
try_read_last_lines == Latest(assistant_text, LastFew)
try_read_last_lines_for_usage == Latest(usage_total_from_line, LastFew)
try_read_last_lines_for_title == Title(Window)

Goto(pc) == reader' = [reader EXCEPT !.pc = pc]
Answers(i) == reader' = [reader EXCEPT !.pc = "done", !.found = i]
Widen(found) == reader' = [reader EXCEPT !.window = 2 * @, !.found = found]

\* Twice the window, while it is not too large; then the whole file.
WidenOr(last) == IF 2 * reader.window <= MAX_READ_SIZE THEN Widen(reader.found) ELSE last

read_last_assistant_message_reverse ==
  /\ reader.want = "message"
  /\ IF try_read_last_lines # 0 THEN Answers(try_read_last_lines) ELSE WidenOr(Goto("forward"))

read_last_context_tokens_reverse ==
  /\ reader.want = "tokens"
  /\ IF try_read_last_lines_for_usage # 0 THEN Answers(try_read_last_lines_for_usage)
     ELSE WidenOr(Goto("forward"))

\* Without a title the session is shown by its first prompt.
TitleIs(i) == IF i = 0 THEN Goto("prompt") ELSE Answers(i)

read_last_title_reverse_First ==
  /\ reader.want = "title"
  /\ LET hit == try_read_last_lines_for_title IN
       IF hit # 0 THEN Answers(hit)
       ELSE IF actual_read >= reader.size \/ 2 * reader.window > MAX_READ_SIZE
              THEN Goto("prompt") ELSE Widen(0)

\* A generated title is kept while larger windows are searched for one that
\* the user set. There is no whole-file scan for titles.
read_last_title_reverse ==
  /\ reader.want = "title"
  /\ LET hit == try_read_last_lines_for_title
         fallback_ai == IF reader.found # 0 THEN reader.found ELSE hit IN
       IF hit # 0 /\ custom(hit) THEN Answers(hit)
       ELSE IF actual_read >= reader.size \/ 2 * reader.window > MAX_READ_SIZE
              THEN TitleIs(fallback_ai) ELSE Widen(fallback_ai)

ReadWindow ==
  /\ reader.pc = "window" /\ UNCHANGED <<lines, torn>>
  /\ \/ read_last_assistant_message_reverse
     \/ read_last_context_tokens_reverse
     \/ read_last_title_reverse

-----------------------------------------------------------------------------
(* The whole file *)

\* A line that was torn when the reader reached it stays lost for it: its rest
\* is taken for a line of its own.
Unread == {i \in 1 .. Len(lines) : Start(i) >= reader.pos}
Better(i) == IF i = 0 THEN reader.found ELSE i

read_last_assistant_message_forward == Better(Latest(assistant_text, Unread))
read_last_context_tokens_forward == Better(Latest(usage_total_from_line, Unread))
read_last_title_forward ==
  IF reader.found # 0 /\ custom(reader.found) THEN Better(Latest(custom, Unread))
  ELSE Better(Title(Unread))

ReadForward ==
  /\ reader.pc = "forward" /\ reader.pos < Size
  /\ reader' = [reader EXCEPT !.pos = Size,
       !.found = CASE reader.want = "message" -> read_last_assistant_message_forward
                   [] reader.want = "tokens"  -> read_last_context_tokens_forward
                   [] reader.want = "title"   -> read_last_title_forward]
  /\ UNCHANGED <<lines, torn>>

ReachesEnd ==
  /\ reader.pc = "forward" /\ reader.pos = Size
  /\ IF reader.want = "title" THEN TitleIs(reader.found) ELSE Answers(reader.found)
  /\ UNCHANGED <<lines, torn>>

get_title_from_jsonl ==
  /\ reader.pc = "prompt"
  /\ LET prompts == {i \in 1 .. Len(lines) : lines[i].kind = "user"} IN
       Answers(IF prompts = {} THEN 0 ELSE Min(prompts))
  /\ UNCHANGED <<lines, torn>>

-----------------------------------------------------------------------------
(* A call *)

Opened(want) ==
  /\ reader.want = want
  /\ reader' = [reader EXCEPT !.size = Size, !.from = Len(lines),
               !.window = INITIAL_READ_SIZE,
               !.pc = IF Size < INITIAL_READ_SIZE THEN "forward" ELSE "window"]

get_last_assistant_message_in_home == Opened("message")
get_last_context_tokens_in_home == Opened("tokens")
get_last_title_in_home == Opened("title")

Open == /\ reader.pc = "idle" /\ UNCHANGED <<lines, torn>>
        /\ \/ get_last_assistant_message_in_home
           \/ get_last_context_tokens_in_home
           \/ get_last_title_in_home

Return == /\ reader.pc = "done" /\ reader' = Resting(reader.want) /\ UNCHANGED <<lines, torn>>

TranscriptNext == \/ AppendBegins \/ AppendEnds \/ Open \/ ReadWindow \/ ReadForward
                  \/ ReachesEnd \/ get_title_from_jsonl \/ Return
TranscriptSpec == TranscriptInit /\ [][TranscriptNext]_transcriptVars

-----------------------------------------------------------------------------
(* Properties *)

\* What a scan of the first n lines, all of them, would find.
LastMessage(n) == Latest(assistant_text, 1 .. n)
LastUsage(n) == Latest(usage_total_from_line, 1 .. n)

\* The lines that no title reader may miss: all of a file that fits the
\* largest window, the end of a larger one.
Reach == {i \in 1 .. Len(lines) : Size <= MAX_READ_SIZE \/ Start(i) > Size - MAX_READ_SIZE}
Grew == Len(lines) > reader.from \/ torn > 0
FirstPrompt == LET prompts == {i \in 1 .. Len(lines) : lines[i].kind = "user"} IN
               IF prompts = {} THEN 0 ELSE Min(prompts)

\* However the windows fall and whatever claude appends meanwhile, the last
\* message and the last token count are those of some moment of the call.
\* A title is the latest of its kind at some moment of the call; when the
\* file did not grow, it is the one the user set if it is in reach, else the
\* last generated one in reach, else the first prompt.
AnswersAreCurrent ==
  reader.pc = "done" =>
    LET i == reader.found  moments == reader.from .. Len(lines) IN
    CASE reader.want = "message" -> \E n \in moments : i = LastMessage(n)
      [] reader.want = "tokens"  -> \E n \in moments : i = LastUsage(n)
      [] reader.want = "title"   ->
           IF Grew
             THEN i # 0 /\ title_from_line(i) =>
                    \E n \in moments : i \in {Latest(custom, 1 .. n),
                      Max({0} \cup {k \in 1 .. n : lines[k].kind = "ai-title"})}
             ELSE i = IF Title(Reach) # 0 THEN Title(Reach) ELSE FirstPrompt
=============================================================================
