------------------------------ MODULE Clients ------------------------------
(* Who uses the web application.                                             *)

CONSTANTS
    Users,          \* user names, each with its row of the users table
    Threads,        \* browsers, each with one request at a time
    None
=============================================================================
