---------------------------- MODULE MCTypeRegistry ----------------------------
\* An instance of TypeRegistry for TLC: one built-in and one more name of each
\* kind, a shipped source, and two spellings of the source that has an alias.
EXTENDS TypeRegistry

MCSources == {"gcal", "slack", "custom"}
MCDocumentTypes == {"message", "note"}
MCBuiltIn == {"gcal", "message"}
MCShipped == {"gcal", "slack", "message"}

MCSpellings == {"google_calendar", "Slack", "custom", "note", "Message"}
MCCanonical ==
    [s \in MCSpellings |->
        CASE s = "google_calendar" -> "gcal"
          [] s = "Slack" -> "slack"
          [] s = "Message" -> "message"
          [] OTHER -> s]
=============================================================================
