------------------------------- MODULE Lesson -------------------------------
(***************************************************************************)
(* mcp/firewall.py: what redact_lesson() serves of a module's README.  A   *)
(* text is a sequence of tokens: markers, and runs of text that hold none. *)
(***************************************************************************)
EXTENDS Naturals, Sequences

CONSTANT Words  \* the runs of text

\* `<summary>' stands for a whole summary, and "fence" for one without a
\* language.
Fences == {"fence", "fence sh", "fence x"}
Markers == Fences \cup {"<details>", "<summary>", "</details>", "<cut>", "</cut>"}
Tokens == Words \cup Markers

ASSUME LessonAssumption == Words \cap Markers = {}

\* What a text becomes that is read from its start: position i gives piece[i],
\* and the reading goes on at next[i].
Tails(piece, next) ==
    LET from[i \in 1 .. Len(piece) + 1] ==
            IF i = Len(piece) + 1 THEN <<>> ELSE piece[i] \o from[next[i]]
    IN  from

Flat(parts) == Tails(parts, [i \in DOMAIN parts |-> i + 1])[1]

\* _CUT, _DETAILS and _FENCE: the lazy patterns opens.*?closes.  Any fence
\* marker ends a fence, whatever follows it on its line.
Opens == [cut |-> {"<cut>"}, fold |-> {"<details>"}, fence |-> Fences]
Closes == [cut |-> {"</cut>"}, fold |-> {"</details>"}, fence |-> Fences]

Ends(pass, text, i) == {j \in i + 1 .. Len(text) : text[j] \in Closes[pass]}

\* A match ends at the first closing marker; an opening that is never closed
\* matches nothing.
Matches(pass, text, i) == text[i] \in Opens[pass] /\ Ends(pass, text, i) # {}
EndOf(pass, text, i) ==
    CHOOSE j \in Ends(pass, text, i) : \A k \in Ends(pass, text, i) : j <= k

\* strip_answers(): the fold and its summary stay, its body goes.
Folded(m) ==
    IF m[2] = "<summary>" THEN <<"<details>", "<summary>", "</details>">>
    ELSE <<"<details>", "</details>">>

\* A slip: the languages to redact are listed, instead of those to keep.
RedactFenceListed(m) == IF m[1] = "fence x" THEN <<>> ELSE m

\* _redact_fence(): only a fence in a shell language stays.
RedactFence(m) == IF m[1] = "fence sh" THEN m ELSE <<>>

Replaced(pass, m) ==
    CASE pass = "cut" -> <<>>
      [] pass = "fold" -> Folded(m)
      [] pass = "fence" -> RedactFence(m)

\* re.sub(): the matches from left to right, replaced; the rest as it is.
Pieces(pass, text) ==
    [i \in 1 .. Len(text) |->
        IF Matches(pass, text, i) THEN Replaced(pass, SubSeq(text, i, EndOf(pass, text, i)))
        ELSE <<text[i]>>]
Onward(pass, text) ==
    [i \in 1 .. Len(text) |-> IF Matches(pass, text, i) THEN EndOf(pass, text, i) + 1 ELSE i + 1]
Sub(pass, text) == Tails(Pieces(pass, text), Onward(pass, text))[1]

RedactLesson(text) == Sub("fence", Sub("fold", Sub("cut", text)))

-----------------------------------------------------------------------------
(***************************************************************************)
(* READMEs: sequences of blocks, each with what is to be served of it.  A  *)
(* fence holds words, a fold neither folds nor cuts, and a cut no end of a *)
(* cut.                                                                    *)
(***************************************************************************)
Encloses(text, open, close, inner) ==
    /\ Len(text) > 1 /\ text[1] \in open /\ text[Len(text)] = close
    /\ \A i \in 2 .. Len(text) - 1 : text[i] \in inner

IsProse(b) == Len(b.text) = 1 /\ b.text[1] \in Words /\ b.kept = b.text

IsFence(b) ==
    /\ Encloses(b.text, Fences, "fence", Words)
    /\ b.kept = IF b.text[1] = "fence sh" THEN b.text ELSE <<>>

IsFold(b) ==
    /\ Encloses(b.text, {"<details>"}, "</details>", Words \cup Fences \cup {"<summary>"})
    /\ b.kept = IF b.text[2] = "<summary>" THEN <<"<details>", "<summary>", "</details>">>
                ELSE <<"<details>", "</details>">>

IsCut(b) ==
    Encloses(b.text, {"<cut>"}, "</cut>", Tokens \ {"</cut>"}) /\ b.kept = <<>>

IsReadme(blocks) ==
    /\ blocks \in Seq([text : Seq(Tokens), kept : Seq(Tokens)])
    /\ \A i \in DOMAIN blocks :
          IsProse(blocks[i]) \/ IsFence(blocks[i]) \/ IsFold(blocks[i]) \/ IsCut(blocks[i])

TextOf(blocks) == Flat([i \in DOMAIN blocks |-> blocks[i].text])
KeptOf(blocks) == Flat([i \in DOMAIN blocks |-> blocks[i].kept])

=============================================================================
