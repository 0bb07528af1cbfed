SPECIFICATION SizingSpec
CONSTANTS
    Scale = 20
    Asks = {1, 3}
    Multipliers = {1, 2}
    Costs = {0, 1, 4}
    Slippages = {0, 2}
    StopLosses = {1, 10, 20}
    Taxes = {3, 18}
    Budgets = {600, 3000}
    MaxLosses = {40, 300, 1500}
    Sizes = {1, 4}
    Factors = {1, 4}
    Funds = {700, 5000}
    Prices = {1, 200, 201, 603, 604}
CHECK_DEADLOCK FALSE
INVARIANT ExecutionsMatchTheirOrder
