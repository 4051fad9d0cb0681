----------------------------- MODULE MCExploration -----------------------------
EXTENDS Exploration

\* Two pages of one surface that open each other, the second with a role that only a
\* later capture shows, and a page out of scope.  Without the coverage scheduler the
\* two are variants of one page.
SmallPages == {"home", "item", "twin", "far"}
SmallKey == [home |-> "home", item |-> "item", twin |-> "item", far |-> "far"]
SmallActs == [home |-> {"scroll", "open", "tab"}, item |-> {"buy"}, twin |-> {"buy", "more"}, far |-> {"buy"}]
SmallHidden == [home |-> {}, item |-> {}, twin |-> {"more"}, far |-> {}]
SmallLeads == [scroll |-> {"home"}, open |-> {"item", "twin"}, tab |-> {"home", "far"}, buy |-> {"twin"},
               more |-> {"twin"}]
SmallSurface == [home |-> "entry", item |-> "goods", twin |-> "goods", far |-> "far"]
=============================================================================
