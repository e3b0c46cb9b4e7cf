------------------------------ MODULE Workspace ------------------------------
(***************************************************************************)
(* The workspace's panels, lists and rails, which read what the other      *)
(* components write and share no state: in each behaviour one of them is   *)
(* in focus and the others stay as they began.                             *)
(***************************************************************************)
EXTENDS UserSignals, CityRanking, Statistics, ProviderDirectory, Boards,
        PrivateOverview, PlatformActivity, Inbox, ReviewRail, PriceAdvice, CityLookup

CONSTANT MostBids   \* bound: offers at a time, on one request or several

VARIABLE focus

workspaceVars ==
  <<figures, compared, fit, cityQuery, lookup, advice, statsVars, directory, board, own,
    chart, inboxVars, opinionVars, focus>>

WorkspaceInit ==
  /\ focus \in {"insights", "funnel", "fit", "cities", "lookup", "prices", "statistics",
                "directory", "boards", "overview", "activity", "inbox", "opinions"}
  /\ InsightsInit /\ FunnelInit /\ FitInit /\ CitiesInit /\ LookupInit /\ AdviceInit
  /\ StatsInit /\ DirectoryInit /\ BoardInit /\ OverviewInit /\ ChartInit /\ InboxInit
  /\ OpinionsInit

InsightsStep ==
  /\ focus = "insights" /\ InsightsNext
  /\ UNCHANGED <<focus, compared, fit, cityQuery, lookup, advice, statsVars, directory, board,
                 own, chart, inboxVars, opinionVars>>

FunnelStep ==
  /\ focus = "funnel" /\ FunnelNext
  /\ UNCHANGED <<focus, figures, fit, cityQuery, lookup, advice, statsVars, directory, board,
                 own, chart, inboxVars, opinionVars>>

FitStep ==
  /\ focus = "fit" /\ FitNext
  /\ UNCHANGED <<focus, figures, compared, cityQuery, lookup, advice, statsVars, directory,
                 board, own, chart, inboxVars, opinionVars>>

CitiesStep ==
  /\ focus = "cities" /\ CitiesNext
  /\ UNCHANGED <<focus, figures, compared, fit, lookup, advice, statsVars, directory, board,
                 own, chart, inboxVars, opinionVars>>

LookupStep ==
  /\ focus = "lookup" /\ LookupNext
  /\ UNCHANGED <<focus, figures, compared, fit, cityQuery, advice, statsVars, directory,
                 board, own, chart, inboxVars, opinionVars>>

PricesStep ==
  /\ focus = "prices" /\ AdviceNext
  /\ UNCHANGED <<focus, figures, compared, fit, cityQuery, lookup, statsVars, directory,
                 board, own, chart, inboxVars, opinionVars>>

FewOffers ==
  Cardinality({x \in Jobs \X Tradesmen : bid'[x[1]][x[2]].status # "none"}) <= MostBids

StatisticsStep ==
  /\ focus = "statistics" /\ StatsNext /\ FewOffers
  /\ UNCHANGED <<focus, figures, compared, fit, cityQuery, lookup, advice, directory, board,
                 own, chart, inboxVars, opinionVars>>

DirectoryStep ==
  /\ focus = "directory" /\ DirectoryNext
  /\ UNCHANGED <<focus, figures, compared, fit, cityQuery, lookup, advice, statsVars, board,
                 own, chart, inboxVars, opinionVars>>

BoardStep ==
  /\ focus = "boards" /\ BoardNext
  /\ UNCHANGED <<focus, figures, compared, fit, cityQuery, lookup, advice, statsVars,
                 directory, own, chart, inboxVars, opinionVars>>

OverviewStep ==
  /\ focus = "overview" /\ OverviewNext
  /\ UNCHANGED <<focus, figures, compared, fit, cityQuery, lookup, advice, statsVars,
                 directory, board, chart, inboxVars, opinionVars>>

ActivityStep ==
  /\ focus = "activity" /\ ChartNext
  /\ UNCHANGED <<focus, figures, compared, fit, cityQuery, lookup, advice, statsVars,
                 directory, board, own, inboxVars, opinionVars>>

InboxStep ==
  /\ focus = "inbox" /\ InboxNext
  /\ UNCHANGED <<focus, figures, compared, fit, cityQuery, lookup, advice, statsVars,
                 directory, board, own, chart, opinionVars>>

OpinionsStep ==
  /\ focus = "opinions" /\ OpinionsNext
  /\ UNCHANGED <<focus, figures, compared, fit, cityQuery, lookup, advice, statsVars,
                 directory, board, own, chart, inboxVars>>

WorkspaceNext ==
  \/ InsightsStep \/ FunnelStep \/ FitStep \/ CitiesStep \/ LookupStep \/ PricesStep
  \/ StatisticsStep \/ DirectoryStep \/ BoardStep \/ OverviewStep \/ ActivityStep
  \/ InboxStep \/ OpinionsStep

WorkspaceSpec == WorkspaceInit /\ [][WorkspaceNext]_workspaceVars

\* The types of what the panels load and of what the lists show.
WorkspaceTypeOK ==
  /\ InsightsTypeOK
  /\ FunnelTypeOK
  /\ FitTypeOK
  /\ CitiesTypeOK
  /\ LookupTypeOK
  /\ AdviceTypeOK
  /\ StatsTypeOK
  /\ DirectoryTypeOK
  /\ BoardTypeOK
  /\ OverviewTypeOK
  /\ ChartTypeOK
  /\ InboxTypeOK
  /\ OpinionsTypeOK

\* The panels that compare a viewer with the market agree with each other.
PanelsAgree == FunnelsAgree /\ SignalsAgree /\ FocusWhereBegun

\* The cities, their radar and the price advised agree with each other, also when a short
\* range has been filled with thirty days.
MarketAgrees == RadarAgreesWithList /\ AdviceFits

\* The lists of providers and of requests agree with their summaries and queues, and the
\* list of cities and their activity with the catalog.
ListsAgree == DirectoryAgrees /\ BoardsAgree /\ SearchFinds /\ ActivityIsPlaced

\* The series of the private overview and those of the platform's activity add up to
\* what was loaded and agree with the figures beside them.
SeriesAddUp == OverviewAddsUp /\ ActivityAddsUp

\* The rails of the chat and of the reviews agree with the lists they sum up.
RailsAgree == InboxAgrees /\ ReviewsAgree
=============================================================================
