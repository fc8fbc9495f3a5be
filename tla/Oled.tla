--------------------------------- MODULE Oled ---------------------------------
(***************************************************************************)
(* The OLED display (Drivers/oled.c).                                      *)
(*                                                                         *)
(* oled_update renders the page of the moment into fb and sends the pages  *)
(* of fb that differ from shadow, what it believes the display to show.    *)
(* Every transmission may fail: a command that fails leaves the display's  *)
(* write position where it was, data that fails arrives in part.  The code *)
(* looks at no result of either.                                           *)
(***************************************************************************)
EXTENDS Integers, Sequences

CONSTANTS
  OledPageCount, \* the code has 8
  Glyphs,    \* per view, a view being page, readings and thresholds: the
             \* content render gives each page, a sequence of bytes
  Torn       \* any other content: of a page whose data arrived in part, or
             \* shifted by column commands that did not, or at power-up

Views      == DOMAIN Glyphs
OledPages  == 1..OledPageCount

ASSUME OledAssumption ==
  /\ OledPageCount \in Nat \ {0}
  /\ \A v \in Views : /\ Glyphs[v] = [p \in OledPages |-> Glyphs[v][p]]
                      /\ \A p \in OledPages : Torn # Glyphs[v][p]

VARIABLES
  view,       \* what there is to show
  cached,     \* last_page, last_s, last_t with cache_ok, or nothing
  fb, shadow, \* fb and shadow, by page
  glass,      \* what the display shows, by page
  position,   \* the display's page for the next data
  oledpage,   \* page of oled_update; 0 when it is not running
  positioned, \* whether the commands of pos() for this page were sent
  disturbed   \* history: pages whose last transmission failed, or that were
              \* overwritten by another page's data since

oledVars == <<view, cached, fb, shadow, glass, position, oledpage, positioned,
              disturbed>>

\* New readings, thresholds, or another page; main runs no other task while
\* oled_update is running.
Change(v) ==
  /\ oledpage = 0
  /\ view' = v
  /\ UNCHANGED <<cached, fb, shadow, glass, position, oledpage, positioned, disturbed>>

\* oled_update, as far as render; nothing when cache_equal holds.
OledRender ==
  /\ oledpage = 0 /\ cached # <<view>>
  /\ fb' = Glyphs[view]
  /\ oledpage' = 1 /\ positioned' = FALSE
  /\ UNCHANGED <<view, cached, shadow, glass, position, disturbed>>

\* The loop's next page; remember after the last.
OledAdvance ==
  IF oledpage + 1 \in OledPages THEN oledpage' = oledpage + 1 /\ UNCHANGED cached
                                ELSE oledpage' = 0 /\ cached' = <<view>>

\* Mutant: only the first byte is compared.
SameFirstByte == Head(fb[oledpage]) = Head(shadow[oledpage])

\* The first byte, and then memcmp.
SamePage == fb[oledpage] = shadow[oledpage]

OledSkip ==
  /\ oledpage # 0 /\ ~positioned
  /\ SamePage
  /\ OledAdvance
  /\ UNCHANGED <<view, fb, shadow, glass, position, positioned, disturbed>>

\* pos(): the command that selects the page arrives, or fails unseen.
OledPosition ==
  /\ oledpage # 0 /\ ~positioned
  /\ ~SamePage
  /\ position' \in {position, oledpage}
  /\ positioned' = TRUE
  /\ UNCHANGED <<view, cached, fb, shadow, glass, oledpage, disturbed>>

\* tx(0x40), and memcpy to shadow whatever came of it: the data reaches the page
\* the display is at, whole, in part, or
\* not at all.
OledData ==
  /\ oledpage # 0 /\ positioned
  /\ \E shown \in {fb[oledpage], Torn, glass[position]} :
       /\ glass' = [glass EXCEPT ![position] = shown]
       /\ disturbed' =
            IF position = oledpage /\ shown = fb[oledpage]
              THEN disturbed \ {oledpage}
              ELSE disturbed \cup {oledpage}
                     \cup {p \in OledPages : glass'[p] # glass[p]}
  /\ shadow' = [shadow EXCEPT ![oledpage] = fb[oledpage]]
  /\ OledAdvance
  /\ positioned' = FALSE
  /\ UNCHANGED <<view, fb, position>>

\* oled_init; shadow holds a content that no rendering has.
OledInit ==
  /\ view \in Views /\ cached = <<>>
  /\ fb = [p \in OledPages |-> Torn] /\ shadow = [p \in OledPages |-> Torn]
  /\ glass = [p \in OledPages |-> Torn]
  /\ position = 1 /\ oledpage = 0 /\ positioned = FALSE
  /\ disturbed = {}

OledNext ==
  \/ \E v \in Views : Change(v)
  \/ OledRender \/ OledSkip \/ OledPosition \/ OledData
-------------------------------------------------------------------------------
\* A page that no failed transmission has disturbed shows the view oled_update
\* last finished with, whichever pages it skipped then as unchanged: shadow
\* agrees with the display although nothing ever reads the display back.
OledPageIsCurrent ==
  oledpage = 0 /\ cached # <<>> =>
    \A p \in OledPages \ disturbed : glass[p] = Glyphs[cached[1]][p]
===============================================================================
